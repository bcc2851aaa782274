------------------------------ MODULE Pairings ------------------------------
(***************************************************************************)
(* The pairing table under the calls the program makes on it.              *)
(*                                                                         *)
(*   PairSetup      Server::_pairSetup5, reached only through an exchange  *)
(*                  that _pairSetup1 opens on an empty table               *)
(*   PairingAdd     Server::_pairingAdd, on the session of an admin        *)
(*   PairingRemove  Server::_pairingRemove, on the session of an admin     *)
(*   ConfigReset    Hap::Config::Init(reset) and _reset                    *)
(*                                                                         *)
(* That the server keeps to this discipline is checked in HapServer.       *)
(***************************************************************************)
EXTENDS PairingTable

VARIABLE db

TypeOK == db \in [Slot -> Controller]

AdminPaired == \E i \in Live(db) : db[i].perm = "Admin"

Init == db = BlankTable

PairSetup(id, key) ==
  /\ Live(db) = {}
  /\ CanAdd(db, id)
  /\ db' = Add(db, id, key, "Admin")

(* A known controller gets the new permission if the key is the stored     *)
(* one; an unknown one gets a record.  Everything else is refused and      *)
(* leaves the table as it is.  The permission is not checked: with None    *)
(* the controller is not paired afterwards.                                *)
PairingAdd_NoLookup(id, key, perm) ==
  /\ AdminPaired
  /\ CanAdd(db, id)
  /\ db' = Add(db, id, key, perm)
PairingAdd(id, key, perm) ==
  /\ AdminPaired
  /\ \/ /\ Holders(db, id) # {}
        /\ db[Get(db, id)].key = key
        /\ db' = Update(db, id, perm)
     \/ /\ Holders(db, id) = {}
        /\ CanAdd(db, id)
        /\ db' = Add(db, id, key, perm)

PairingRemove_ByAnyone(id) == db' = Remove(db, id)
PairingRemove(id) ==
  /\ AdminPaired
  /\ db' = Remove(db, id)

ConfigReset == db' = Reset(db)

Next ==
  \/ \E id \in ControllerId, key \in ControllerKey :
       \/ PairSetup(id, key)
       \/ \E perm \in LivePerm \cup {"None"} : PairingAdd(id, key, perm)
  \/ \E id \in ControllerId : PairingRemove(id)
  \/ ConfigReset

Spec == Init /\ [][Next]_db
-----------------------------------------------------------------------------
(* A scan that does not skip free records (Pairings::Remove) stops at the  *)
(* same record as one that does (Get, Update): no slot before a live       *)
(* record, live or free, holds its identifier.  Hence Remove never clears  *)
(* a left-over of an earlier pairing while the live record stays, and an   *)
(* identifier has at most one live record.                                 *)
FirstIsLive == Orderly(db)

(* The controller that is asked to be removed is gone, whatever the table  *)
(* went through before (Pairings::Remove returns true either way): the     *)
(* scan of Remove does not stop at a left-over in front of the record.     *)
RemoveIsEffective ==
  \A id \in ControllerId : Holders(Remove(db, id), id) = {}

(* Add refuses an unknown controller only when MaxPairings controllers     *)
(* are paired: removals leave no slot that cannot be used again.           *)
NoSlotLost ==
  \A id \in ControllerId :
    ~CanAdd(db, id) => Cardinality({db[i].id : i \in Live(db)}) = MaxPairings

Map == INSTANCE PairingMap WITH paired <- PairedMap(db)

(* The table implements the map of paired controllers: Add, Update and     *)
(* Remove change one entry, for the identifier they are given.             *)
MapSpec == Map!Spec
=============================================================================
