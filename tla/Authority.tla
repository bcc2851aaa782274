----------------------------- MODULE Authority -----------------------------
(***************************************************************************)
(* Who changes the map of paired controllers: PairingMap, and the sessions *)
(* that ask for the changes.                                               *)
(*                                                                         *)
(* A session acts for one controller, asker[s], from the pair-verify that  *)
(* names it until the session ends, is verified for another one, or the    *)
(* controller is removed.  What it asks for is done only if its controller *)
(* is paired as an administrator at that moment.                           *)
(*                                                                         *)
(* The server does not close the sessions of a controller that is removed  *)
(* (the TODO of Server::_pairingRemove), and they keep their pointer to    *)
(* its record: they are orphans.  An orphan acts for nobody, until its     *)
(* record is given to a controller that is added, whom it acts for then.   *)
(***************************************************************************)
EXTENDS PairingMap

CONSTANTS Sid,    \* the sessions
          NoId    \* nobody

VARIABLES asker,   \* the controller each session acts for, or NoId
          orphans  \* sessions whose controller has been removed

avars == <<paired, asker, orphans>>

AuthorityInit ==
  /\ Init
  /\ asker = [s \in Sid |-> NoId]
  /\ orphans = {}

MayChange(s) == asker[s] \in DOMAIN paired /\ paired[asker[s]].perm = "Admin"

(* Pair-verify succeeds for controllers that are paired.                   *)
Verify(s, id) ==
  /\ id \in DOMAIN paired
  /\ asker' = [asker EXCEPT ![s] = id]
  /\ orphans' = orphans \ {s}
  /\ UNCHANGED paired

EndSession(s) ==
  /\ asker' = [asker EXCEPT ![s] = NoId]
  /\ orphans' = orphans \ {s}
  /\ UNCHANGED paired

(* The new record of a controller may be the one some orphans point to.    *)
Inherited(id) ==
  \E heirs \in SUBSET orphans :
    /\ asker' = [s \in Sid |-> IF s \in heirs THEN id ELSE asker[s]]
    /\ orphans' = orphans \ heirs

(* Removing controllers makes orphans of their sessions.                   *)
Orphaned(ids) ==
  /\ asker' = [s \in Sid |-> IF asker[s] \in ids THEN NoId ELSE asker[s]]
  /\ orphans' = orphans \cup {s \in Sid : asker[s] \in ids}

Asked(s) ==
  /\ MayChange(s)
  /\ \E id \in ControllerId :
       \/ \E key \in ControllerKey, perm \in LivePerm :
            AddPairing(id, key, perm) /\ Inherited(id)
       \/ /\ \E perm \in LivePerm : SetPermission(id, perm)
          /\ UNCHANGED <<asker, orphans>>
       \/ RemovePairing(id) /\ Orphaned({id})

(* A process that is started again has no sessions.                        *)
NewProcess ==
  /\ paired' \in {paired, Nobody}
  /\ asker' = [s \in Sid |-> NoId]
  /\ orphans' = {}

AuthorityNext ==
  \/ \E s \in Sid : \/ EndSession(s)
                    \/ Asked(s)
                    \/ \E id \in ControllerId : Verify(s, id)
  \/ \E id \in ControllerId, key \in ControllerKey :
       Setup(id, key) /\ Inherited(id)
  \/ ResetAll /\ Orphaned(DOMAIN paired)
  \/ NewProcess

AuthoritySpec == AuthorityInit /\ [][AuthorityNext]_avars
=============================================================================
