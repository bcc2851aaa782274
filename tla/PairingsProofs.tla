--------------------------- MODULE PairingsProofs ---------------------------
(***************************************************************************)
(* Proofs about Pairings, for any number of slots, controllers and keys.   *)
(* The inductive invariant is WellFormed: every live record belongs to a   *)
(* real controller, and no slot in front of it, free slots included, holds *)
(* its identifier.                                                         *)
(***************************************************************************)
EXTENDS Pairings, PairingTableProofs

(* Pairings::Get and Pairings::Add see an administrator as one of the      *)
(* paired controllers of the map.                                          *)
LEMMA AdminInMap ==
  ASSUME WellFormed(db), AdminPaired
  PROVE  Map!HasAdmin
<1>1. db \in Table /\ Orderly(db)
  BY DEF WellFormed
<1>2. PICK i \in Live(db) : db[i].perm = "Admin"
  BY DEF AdminPaired
<1>3. /\ DOMAIN PairedMap(db) = {db[j].id : j \in Live(db)}
      /\ PairedMap(db)[db[i].id] = [key |-> db[i].key, perm |-> db[i].perm]
  BY <1>1, MapOfRecords
<1>4. /\ db[i].id \in DOMAIN PairedMap(db)
      /\ PairedMap(db)[db[i].id].perm = "Admin"
  BY <1>2, <1>3
<1> QED BY <1>4 DEF Map!HasAdmin

(* Every call on the table keeps it well formed.                           *)
LEMMA StepKeepsWellFormed ==
  ASSUME WellFormed(db), [Next]_db
  PROVE  WellFormed(db')
<1>1. ASSUME NEW id \in ControllerId, NEW key \in ControllerKey,
             PairSetup(id, key)
      PROVE  WellFormed(db')
  <2>1. Holders(db, id) = {}
    BY <1>1 DEF PairSetup, Holders
  <2> QED BY <1>1, <2>1, AddWellFormed DEF PairSetup, LivePerm
<1>2. ASSUME NEW id \in ControllerId, NEW key \in ControllerKey,
             NEW perm \in LivePerm \cup {"None"}, PairingAdd(id, key, perm)
      PROVE  WellFormed(db')
  BY <1>2, AddWellFormed, UpdateWellFormed DEF PairingAdd
<1>3. ASSUME NEW id \in ControllerId, PairingRemove(id)
      PROVE  WellFormed(db')
  BY <1>3, RemoveWellFormed DEF PairingRemove
<1>4. CASE ConfigReset
  BY <1>4, ResetWellFormed DEF ConfigReset, WellFormed
<1>5. CASE UNCHANGED db
  BY <1>5 DEF WellFormed, Table, Orderly, Genuine, Live
<1> QED BY <1>1, <1>2, <1>3, <1>4, <1>5 DEF Next

THEOREM AlwaysWellFormed == Spec => []WellFormed(db)
<1>1. Init => WellFormed(db)
  BY BlankWellFormed DEF Init
<1>2. WellFormed(db) /\ [Next]_db => WellFormed(db)'
  BY StepKeepsWellFormed
<1> QED BY <1>1, <1>2, PTL DEF Spec

(* The table always holds controller records.                              *)
THEOREM TypeCorrect == Spec => []TypeOK
<1>1. WellFormed(db) => TypeOK
  BY DEF WellFormed, Table, TypeOK
<1> QED BY <1>1, AlwaysWellFormed, PTL

(* Scans that skip free records and the scan of Pairings::Remove, which    *)
(* does not, stop at the same record.                                      *)
THEOREM ScansAgree == Spec => []FirstIsLive
<1>1. WellFormed(db) => FirstIsLive
  BY DEF WellFormed, FirstIsLive
<1> QED BY <1>1, AlwaysWellFormed, PTL

(* Pairings::Add refuses an unknown controller only when every slot holds  *)
(* a controller of its own.                                                *)
THEOREM NoSlotIsLost == Spec => []NoSlotLost
<1>1. WellFormed(db) => NoSlotLost
  <2>1. SUFFICES ASSUME WellFormed(db), NEW id \in ControllerId,
                        ~CanAdd(db, id)
                 PROVE  Cardinality({db[i].id : i \in Live(db)}) = MaxPairings
    BY DEF NoSlotLost
  <2> DEFINE f == [i \in Slot |-> db[i].id]
             D == {db[i].id : i \in Live(db)}
  <2>2. Live(db) = Slot
    BY <2>1 DEF CanAdd, AddStops, Live
  <2>3. \A i, j \in Slot : i # j => db[i].id # db[j].id
    BY <2>1, <2>2 DEF WellFormed, Orderly, Slot
  <2>4. f \in Bijection(Slot, D)
    BY <2>2, <2>3 DEF Bijection, Injection, Surjection, IsInjective
  <2>5. IsFiniteSet(Slot) /\ Cardinality(Slot) = MaxPairings
    BY FS_Interval, MaxPairingsAssumption DEF Slot
  <2> HIDE DEF f, D
  <2>6. Cardinality(D) = Cardinality(Slot)
    BY <2>4, <2>5, FS_Bijection DEF ExistsBijection
  <2> QED BY <2>5, <2>6 DEF D
<1> QED BY <1>1, AlwaysWellFormed, PTL
-----------------------------------------------------------------------------
(* After Pairings::Remove of a controller no live record is its.           *)
THEOREM RemovedIsGone == Spec => []RemoveIsEffective
<1>1. ASSUME WellFormed(db), NEW id \in ControllerId
      PROVE  Holders(Remove(db, id), id) = {}
  <2>1. PairedMap(Remove(db, id)) =
          [x \in DOMAIN PairedMap(db) \ {id} |-> PairedMap(db)[x]]
    BY <1>1, RemoveChangesMap
  <2>2. id \notin DOMAIN PairedMap(Remove(db, id))
    BY <2>1
  <2> QED BY <2>2, UnknownNotInMap
<1>2. WellFormed(db) => RemoveIsEffective
  BY <1>1 DEF RemoveIsEffective
<1> QED BY <1>2, AlwaysWellFormed, PTL

(* The key of a paired controller never changes while it stays paired,     *)
(* and a record in use never moves: sessions point into the array          *)
(* (Session::ios), and pair-verify relies on the stored key.               *)
RecordsAreStable ==
  [][\A i \in Slot : i \in Live(db) /\ i \in Live(db)'
        => db'[i].id = db[i].id /\ db'[i].key = db[i].key]_db

(* The record of a slot that stays in use keeps its controller and key.    *)
THEOREM RecordsKeepController == Spec => RecordsAreStable
<1> DEFINE Kept == \A i \in Slot : i \in Live(db) /\ i \in Live(db)'
                     => db'[i].id = db[i].id /\ db'[i].key = db[i].key
<1>1. ASSUME WellFormed(db), NEW id \in ControllerId, NEW key,
             NEW perm, CanAdd(db, id), Holders(db, id) = {},
             db' = Add(db, id, key, perm)
      PROVE  Kept
  <2>1. PICK f \in Slot :
          /\ db[f].perm = "None"
          /\ db' = [db EXCEPT ![f] = [id |-> id, key |-> key, perm |-> perm]]
    BY <1>1, AddTakesFreeSlot DEF WellFormed
  <2> QED BY <2>1, <1>1 DEF WellFormed, Table, Live
<1>2. ASSUME WellFormed(db), Next
      PROVE  Kept
  <2>1. ASSUME NEW id \in ControllerId, NEW key \in ControllerKey,
               PairSetup(id, key)
        PROVE  Kept
    BY <1>1, <1>2, <2>1 DEF PairSetup, Holders
  <2>2. ASSUME NEW id \in ControllerId, NEW key \in ControllerKey,
               NEW perm \in LivePerm \cup {"None"}, PairingAdd(id, key, perm)
        PROVE  Kept
    <3>1. CASE Holders(db, id) # {}
      <4>1. db' = [db EXCEPT ![Get(db, id)].perm = perm]
        BY <2>2, <3>1 DEF PairingAdd, Update
      <4> QED BY <4>1, <1>2 DEF WellFormed, Table, Controller
    <3>2. CASE Holders(db, id) = {}
      BY <1>1, <1>2, <2>2, <3>2 DEF PairingAdd
    <3> QED BY <3>1, <3>2
  <2>3. ASSUME NEW id \in ControllerId, PairingRemove(id)
        PROVE  Kept
    BY <1>2, <2>3 DEF PairingRemove, Remove, WellFormed, Table, Controller
  <2>4. CASE ConfigReset
    BY <1>2, <2>4 DEF ConfigReset, Reset, WellFormed, Table, Controller
  <2> QED BY <1>2, <2>1, <2>2, <2>3, <2>4 DEF Next
<1>3. WellFormed(db) /\ [Next]_db => [Kept]_db
  BY <1>2
<1> QED BY <1>3, AlwaysWellFormed, PTL DEF Spec, RecordsAreStable
-----------------------------------------------------------------------------
(* Every call changes the entry of one controller of the map, as           *)
(* PairingMap says.                                                        *)
LEMMA StepImplementsMap ==
  ASSUME WellFormed(db), [Next]_db
  PROVE  [Map!Next]_(PairedMap(db))
<1> USE DEF Map!LivePerm, LivePerm
<1>1. ASSUME NEW id \in ControllerId, NEW key \in ControllerKey,
             NEW perm \in LivePerm, CanAdd(db, id), Holders(db, id) = {},
             db' = Add(db, id, key, perm)
      PROVE  /\ PairedMap(db)' = Map!Extended(id, key, perm)
             /\ id \notin DOMAIN PairedMap(db)
             /\ Map!Cardinality(DOMAIN PairedMap(db)) < MaxPairings
  <2>1. PairedMap(db') = Map!Extended(id, key, perm)
    BY <1>1, AddExtendsMap DEF Map!Extended
  <2>2. PICK f \in Slot : db[f].perm = "None"
    BY <1>1, AddTakesFreeSlot DEF WellFormed
  <2>3. Live(db) # Slot
    BY <2>2 DEF Live
  <2>4. Cardinality(DOMAIN PairedMap(db)) < MaxPairings
    BY <2>3, FreeSlotSmallMap DEF WellFormed
  <2>5. Map!Cardinality(DOMAIN PairedMap(db)) = Cardinality(DOMAIN PairedMap(db))
    BY DEF Map!Cardinality, Cardinality
  <2> QED BY <1>1, <2>1, <2>4, <2>5, UnknownNotInMap
<1>2. ASSUME NEW id \in ControllerId, NEW key \in ControllerKey,
             PairSetup(id, key)
      PROVE  Map!Setup(id, key)
  <2>1. PairedMap(db) = [x \in {} |-> [key |-> x, perm |-> "None"]]
    BY <1>2, EmptyTableEmptyMap DEF PairSetup
  <2>2. DOMAIN PairedMap(db) = {}
    BY <2>1
  <2>3. PairedMap(db)' = Map!Extended(id, key, "Admin")
    BY <1>1, <1>2 DEF PairSetup, Holders
  <2> QED BY <2>2, <2>3 DEF Map!Setup
<1>3. ASSUME NEW id \in ControllerId, NEW key \in ControllerKey,
             NEW perm \in LivePerm \cup {"None"}, PairingAdd(id, key, perm)
      PROVE  \/ Map!AddPairing(id, key, perm) /\ perm \in LivePerm
             \/ Map!SetPermission(id, perm) /\ perm \in LivePerm
             \/ Map!RemovePairing(id)
             \/ UNCHANGED PairedMap(db)
  <2>1. Map!HasAdmin
    BY <1>3, AdminInMap DEF PairingAdd
  <2>4. CASE perm = "None" /\ Holders(db, id) # {}
    <3>1. db' = Remove(db, id)
      BY <1>3, <2>4, UpdateNoneRemoves DEF PairingAdd
    <3>2. PairedMap(db') = [x \in DOMAIN PairedMap(db) \ {id} |-> PairedMap(db)[x]]
      BY <3>1, RemoveChangesMap
    <3> QED BY <2>1, <3>2 DEF Map!RemovePairing
  <2>5. CASE perm = "None" /\ Holders(db, id) = {}
    <3>1. PairedMap(db') = PairedMap(db)
      BY <1>3, <2>5, AddNoneFills DEF PairingAdd
    <3> QED BY <3>1
  <2>2. CASE perm \in LivePerm /\ Holders(db, id) # {}
    <3>1. db' = Update(db, id, perm)
      BY <1>3, <2>2 DEF PairingAdd
    <3>2. PairedMap(db') = [PairedMap(db) EXCEPT ![id] =
                              [key |-> PairedMap(db)[id].key, perm |-> perm]]
      BY <2>2, <3>1, UpdateChangesMap
    <3>3. id \in DOMAIN PairedMap(db)
      BY <2>2, UnknownNotInMap
    <3>4. PICK i \in Live(db) : id = db[i].id
      BY <2>2 DEF Holders
    <3>5. PairedMap(db)[id] = [key |-> db[i].key, perm |-> db[i].perm]
      BY <3>4, MapOfRecords DEF WellFormed
    <3>6. [PairedMap(db)[id] EXCEPT !.perm = perm] =
            [key |-> PairedMap(db)[id].key, perm |-> perm]
      BY <3>5
    <3>7. PairedMap(db') = [PairedMap(db) EXCEPT ![id] =
                              [PairedMap(db)[id] EXCEPT !.perm = perm]]
      BY <3>2, <3>6
    <3>8. Map!SetPermission(id, perm)
      BY <2>1, <3>3, <3>7 DEF Map!SetPermission
    <3> QED BY <2>2, <3>8
  <2>3. CASE perm \in LivePerm /\ Holders(db, id) = {}
    <3>1. CanAdd(db, id) /\ db' = Add(db, id, key, perm)
      BY <1>3, <2>3 DEF PairingAdd
    <3> QED BY <1>1, <2>1, <2>3, <3>1 DEF Map!AddPairing
  <2> QED BY <2>2, <2>3, <2>4, <2>5
<1>4. ASSUME NEW id \in ControllerId, PairingRemove(id)
      PROVE  Map!RemovePairing(id)
  <2>1. Map!HasAdmin
    BY <1>4, AdminInMap DEF PairingRemove
  <2>2. PairedMap(db') = [x \in DOMAIN PairedMap(db) \ {id} |-> PairedMap(db)[x]]
    BY <1>4, RemoveChangesMap DEF PairingRemove
  <2> QED BY <2>1, <2>2 DEF Map!RemovePairing
<1>5. CASE ConfigReset
  <2>1. Live(db') = {}
    BY <1>5, ResetWellFormed DEF ConfigReset, WellFormed
  <2>2. PairedMap(db') = [x \in {} |-> [key |-> x, perm |-> "None"]]
    BY <2>1, EmptyTableEmptyMap
  <2>3. Map!ResetAll
    BY <2>2 DEF Map!ResetAll, Map!Nobody
  <2> QED BY <2>3 DEF Map!Next
<1>6. CASE UNCHANGED db
  BY <1>6 DEF PairedMap, Live, Get, First, Holders
<1>7. CASE \E id \in ControllerId, key \in ControllerKey : PairSetup(id, key)
  BY <1>2, <1>7 DEF Map!Next
<1>8. CASE \E id \in ControllerId, key \in ControllerKey,
            perm \in LivePerm \cup {"None"} : PairingAdd(id, key, perm)
  BY <1>3, <1>8 DEF Map!Next
<1>9. CASE \E id \in ControllerId : PairingRemove(id)
  BY <1>4, <1>9 DEF Map!Next
<1> QED BY <1>5, <1>6, <1>7, <1>8, <1>9 DEF Next

(* The table implements the map of paired controllers.                     *)
THEOREM ImplementsMap == Spec => MapSpec
<1>1. Init => Map!Init
  <2>1. SUFFICES ASSUME Init PROVE Map!Init
    OBVIOUS
  <2>2. Live(db) = {}
    BY <2>1, BlankWellFormed DEF Init
  <2>3. PairedMap(db) = [x \in {} |-> [key |-> x, perm |-> "None"]]
    BY <2>2, EmptyTableEmptyMap
  <2> QED BY <2>3 DEF Map!Init, Map!Nobody
<1>2. WellFormed(db) /\ [Next]_db => [Map!Next]_(PairedMap(db))
  BY StepImplementsMap
<1> QED BY <1>1, <1>2, AlwaysWellFormed, PTL DEF Spec, MapSpec, Map!Spec
=============================================================================
