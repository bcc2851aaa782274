----------------------------- MODULE PairingMap -----------------------------
(***************************************************************************)
(* What the pairing table promises to the server: a finite map from the    *)
(* identifiers of the paired controllers to their key and permission.      *)
(* The first pairing is made by pair-setup, on an empty map, and is an     *)
(* administrator's; every later change is made while some administrator is *)
(* paired, or drops all pairings.  Who may ask for a change is the subject *)
(* of Authority.                                                           *)
(***************************************************************************)
EXTENDS Naturals, FiniteSets

CONSTANTS MaxPairings, ControllerId, ControllerKey

VARIABLE paired

LivePerm == {"Regular", "Admin"}
Pairing == [key : ControllerKey, perm : LivePerm]
Nobody == [id \in {} |-> [key |-> id, perm |-> "None"]]

Extended(id, key, perm) ==
  [x \in DOMAIN paired \cup {id} |->
     IF x = id THEN [key |-> key, perm |-> perm] ELSE paired[x]]

HasAdmin == \E id \in DOMAIN paired : paired[id].perm = "Admin"

Init == paired = Nobody

Setup(id, key) ==
  /\ DOMAIN paired = {}
  /\ paired' = Extended(id, key, "Admin")

AddPairing(id, key, perm) ==
  /\ HasAdmin
  /\ id \notin DOMAIN paired
  /\ Cardinality(DOMAIN paired) < MaxPairings
  /\ paired' = Extended(id, key, perm)

SetPermission(id, perm) ==
  /\ HasAdmin
  /\ id \in DOMAIN paired
  /\ paired' = [paired EXCEPT ![id].perm = perm]

RemovePairing(id) ==
  /\ HasAdmin
  /\ paired' = [x \in DOMAIN paired \ {id} |-> paired[x]]

ResetAll == paired' = Nobody

Next ==
  \/ \E id \in ControllerId, key \in ControllerKey :
       \/ Setup(id, key)
       \/ \E perm \in LivePerm : AddPairing(id, key, perm)
  \/ \E id \in ControllerId : \/ \E perm \in LivePerm : SetPermission(id, perm)
                              \/ RemovePairing(id)
  \/ ResetAll

Spec == Init /\ [][Next]_paired
=============================================================================
