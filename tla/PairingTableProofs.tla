------------------------- MODULE PairingTableProofs -------------------------
(***************************************************************************)
(* What the operations on the pairing table return and preserve, for every *)
(* number of slots.                                                        *)
(***************************************************************************)
EXTENDS PairingTable, FiniteSetTheorems, WellFoundedInduction, TLAPS

(* A scan that finds something stops at the first slot found.  The least   *)
(* element exists because the intervals 0..i are ordered by inclusion,     *)
(* which is well founded on the finite sets.                               *)
LEMMA FirstInSet ==
  ASSUME NEW S \in SUBSET Nat, S # {}
  PROVE  First(S) \in S /\ \A j \in S : First(S) <= j
<1> DEFINE T == {0 .. i : i \in S}
           R == StrictSubsetOrdering(Nat)
<1>1. T \subseteq FiniteSubsetsOf(Nat) /\ T # {}
  <2>1. ASSUME NEW i \in S PROVE 0 .. i \in FiniteSubsetsOf(Nat)
    <3>1. IsFiniteSet(0 .. i)
      BY FS_Interval
    <3>2. 0 .. i \in SUBSET Nat
      OBVIOUS
    <3> QED BY <3>1, <3>2 DEF FiniteSubsetsOf
  <2>2. \E i : i \in S
    OBVIOUS
  <2> QED BY <2>1, <2>2
<1>2. IsWellFoundedOn(R, FiniteSubsetsOf(Nat))
  BY FS_StrictSubsetOrderingWellFounded
<1> HIDE DEF T, R
<1>3. PICK X \in T : \A Y \in T : ~ (<<Y, X>> \in R)
  BY <1>1, <1>2, WFMin
<1>4. PICK x \in S : X = 0 .. x
  BY <1>3 DEF T
<1>5. \A y \in S : x <= y
  <2>1. SUFFICES ASSUME NEW y \in S, y < x PROVE FALSE
    OBVIOUS
  <2>2. 0 .. y \in T
    BY DEF T
  <2>3. /\ 0 .. y \subseteq 0 .. x
        /\ x \in 0 .. x /\ x \notin 0 .. y
    BY <2>1
  <2>4. <<0 .. y, X>> \in R
    BY <2>3, <1>4 DEF R, StrictSubsetOrdering
  <2> QED BY <2>2, <2>4, <1>3
<1> QED BY <1>5 DEF First
-----------------------------------------------------------------------------
Table == [Slot -> Controller]

(* Live records belong to real controllers.                                *)
Genuine(db) ==
  \A i \in Live(db) : db[i].id \in ControllerId /\ db[i].key \in ControllerKey

WellFormed(db) == db \in Table /\ Orderly(db) /\ Genuine(db)

(* A paired controller has one live record, and Get returns it.            *)
LEMMA GetFindsRecord ==
  ASSUME NEW db \in Table, Orderly(db), NEW i \in Live(db)
  PROVE  Holders(db, db[i].id) = {i} /\ Get(db, db[i].id) = i
<1>1. \A j \in Live(db) : db[j].id = db[i].id => j = i
  BY DEF Orderly, Live, Slot
<1>2. Holders(db, db[i].id) = {i}
  BY <1>1 DEF Holders
<1>3. {i} \in SUBSET Nat
  BY DEF Live, Slot
<1>4. First({i}) = i
  BY <1>3, FirstInSet
<1> QED BY <1>2, <1>4 DEF Get

LEMMA GetHolder ==
  ASSUME NEW db \in Table, Orderly(db), NEW id, Holders(db, id) # {}
  PROVE  Get(db, id) \in Live(db) /\ db[Get(db, id)].id = id
<1>1. PICK i \in Live(db) : db[i].id = id
  BY DEF Holders
<1> QED BY <1>1, GetFindsRecord

(* Remove stops at the live record of a paired controller.                 *)
LEMMA RemoveFindsRecord ==
  ASSUME NEW db \in Table, Orderly(db), NEW i \in Live(db)
  PROVE  Remove(db, db[i].id) = [db EXCEPT ![i].perm = "None"]
<1> DEFINE N == Named(db, db[i].id)
<1>1. i \in N /\ N \in SUBSET Nat
  BY DEF Named, Live, Slot
<1>2. First(N) \in N /\ First(N) <= i
  BY <1>1, FirstInSet
<1>3. \A j \in N : j <= i => j = i
  BY DEF Orderly, Named, Live, Slot
<1>4. First(N) = i
  BY <1>2, <1>3
<1> QED BY <1>1, <1>4 DEF Remove
-----------------------------------------------------------------------------
(* Add of an unknown controller takes a free slot; all slots before it are *)
(* in use.                                                                 *)
LEMMA AddTakesFreeSlot ==
  ASSUME NEW db \in Table, NEW id, CanAdd(db, id), Holders(db, id) = {},
         NEW key, NEW perm
  PROVE  \E f \in Slot :
           /\ db[f].perm = "None"
           /\ \A j \in Slot : j < f => j \in Live(db)
           /\ Add(db, id, key, perm) =
                [db EXCEPT ![f] = [id |-> id, key |-> key, perm |-> perm]]
<1> DEFINE S == AddStops(db, id)
           f == First(S)
<1>1. S \in SUBSET Nat /\ S # {} /\ S \subseteq Slot
  BY DEF AddStops, Slot, CanAdd
<1>2. f \in S /\ \A j \in S : f <= j
  BY <1>1, FirstInSet
<1>3. db[f].perm = "None"
  BY <1>2 DEF AddStops, Holders, Live
<1>4. ASSUME NEW j \in Slot, j < f PROVE j \in Live(db)
  BY <1>1, <1>2, <1>4 DEF AddStops, Live, Slot
<1>5. Add(db, id, key, perm) =
        [db EXCEPT ![f] = [id |-> id, key |-> key, perm |-> perm]]
  BY <1>3 DEF Add
<1>6. f \in Slot
  BY <1>1, <1>2
<1> QED BY <1>3, <1>4, <1>5, <1>6

LEMMA AddWellFormed ==
  ASSUME NEW db, WellFormed(db), NEW id \in ControllerId,
         NEW key \in ControllerKey, NEW perm \in LivePerm \cup {"None"},
         CanAdd(db, id), Holders(db, id) = {}
  PROVE  WellFormed(Add(db, id, key, perm))
<1> DEFINE r == [id |-> id, key |-> key, perm |-> perm]
           new == Add(db, id, key, perm)
<1>1. PICK f \in Slot : /\ db[f].perm = "None"
                        /\ \A j \in Slot : j < f => j \in Live(db)
                        /\ new = [db EXCEPT ![f] = r]
  BY AddTakesFreeSlot DEF WellFormed
<1>2. r \in Controller
  BY DEF Controller, LivePerm
<1>3. new \in Table /\ new[f] = r /\ \A j \in Slot : j # f => new[j] = db[j]
  BY <1>1, <1>2 DEF WellFormed, Table
<1> HIDE DEF new
<1>4. \A j \in Live(new) : j = f \/ j \in Live(db)
  BY <1>3 DEF Live
<1>5. Genuine(new)
  BY <1>3, <1>4 DEF Genuine, WellFormed, Live
<1>6. ASSUME NEW j \in Live(new), NEW i \in Slot, i < j
      PROVE  new[i].id # new[j].id
  <2>1. j \in Slot
    BY DEF Live
  <2>2. CASE j = f
    <3>1. i \in Live(db) /\ new[i] = db[i]
      BY <1>1, <1>3, <1>6, <2>2 DEF Slot
    <3> QED BY <3>1, <2>2, <1>3 DEF Holders
  <2>3. CASE j # f /\ i = f
    <3>1. j \in Live(db) /\ new[j] = db[j]
      BY <1>3, <1>4, <2>1, <2>3
    <3> QED BY <3>1, <2>3, <1>3 DEF Holders
  <2>4. CASE j # f /\ i # f
    <3>1. j \in Live(db) /\ new[j] = db[j] /\ new[i] = db[i]
      BY <1>3, <1>4, <2>1, <2>4
    <3> QED BY <3>1, <1>6 DEF WellFormed, Orderly
  <2> QED BY <2>2, <2>3, <2>4
<1> QED BY <1>3, <1>5, <1>6 DEF WellFormed, Orderly, new

LEMMA UpdateWellFormed ==
  ASSUME NEW db, WellFormed(db), NEW id, NEW perm \in LivePerm \cup {"None"},
         Holders(db, id) # {}
  PROVE  WellFormed(Update(db, id, perm))
<1> DEFINE g == Get(db, id)
           new == Update(db, id, perm)
<1>1. g \in Live(db) /\ g \in Slot
  BY GetHolder DEF WellFormed, Live
<1>2. new = [db EXCEPT ![g].perm = perm]
  BY DEF Update
<1>3. db \in Table /\ perm \in LivePerm \cup {"None"}
  BY DEF WellFormed
<1> HIDE DEF g, new
<1>4. new \in Table
  BY <1>1, <1>2, <1>3 DEF Table, Controller
<1>5. \A j \in Slot : new[j].id = db[j].id /\ new[j].key = db[j].key
  BY <1>1, <1>2, <1>3 DEF Table, Controller
<1>6. Live(new) \subseteq Live(db)
  BY <1>1, <1>2, <1>3 DEF Live, LivePerm, Table, Controller
<1>7. \A j \in Live(new) : j \in Slot
  BY DEF Live
<1> QED BY <1>4, <1>5, <1>6, <1>7 DEF WellFormed, Orderly, Genuine, new

(* Clearing permissions, of one record or of all, keeps a table in order.  *)
LEMMA ClearWellFormed ==
  ASSUME NEW db, WellFormed(db), NEW new \in Table,
         \A j \in Slot : new[j].id = db[j].id /\ new[j].key = db[j].key,
         Live(new) \subseteq Live(db)
  PROVE  WellFormed(new)
<1>1. \A j \in Live(new) : j \in Slot /\ j \in Live(db)
  BY DEF Live
<1> QED BY <1>1 DEF WellFormed, Orderly, Genuine

LEMMA RemoveWellFormed ==
  ASSUME NEW db, WellFormed(db), NEW id
  PROVE  WellFormed(Remove(db, id))
<1> DEFINE N == Named(db, id)
           new == Remove(db, id)
<1>1. CASE N = {}
  BY <1>1 DEF Remove
<1>2. CASE N # {}
  <2>1. N \in SUBSET Nat /\ N \subseteq Slot
    BY DEF Named, Slot
  <2>2. PICK f \in Slot : f = First(N)
    BY <1>2, <2>1, FirstInSet
  <2>3. new = [db EXCEPT ![f].perm = "None"]
    BY <1>2, <2>2 DEF Remove
  <2>4. db \in Table
    BY DEF WellFormed
  <2> HIDE DEF new
  <2>5. new \in Table
    BY <2>3, <2>4 DEF Table, Controller
  <2>6. \A j \in Slot : new[j].id = db[j].id /\ new[j].key = db[j].key
    BY <2>3, <2>4 DEF Table, Controller
  <2>7. Live(new) \subseteq Live(db)
    BY <2>3, <2>4 DEF Live, Table, Controller
  <2>8. WellFormed(new)
    BY <2>5, <2>6, <2>7, ClearWellFormed
  <2> QED BY <2>8 DEF new
<1> QED BY <1>1, <1>2

LEMMA ResetWellFormed ==
  ASSUME NEW db \in Table
  PROVE  WellFormed(Reset(db)) /\ Live(Reset(db)) = {}
<1>1. Reset(db) \in Table
  BY DEF Reset, Table, Controller
<1>2. Live(Reset(db)) = {}
  BY DEF Reset, Live, Table, Controller
<1> QED BY <1>1, <1>2 DEF WellFormed, Orderly, Genuine

LEMMA BlankWellFormed == WellFormed(BlankTable) /\ Live(BlankTable) = {}
<1>1. BlankTable \in Table
  BY DEF BlankTable, Table, Controller
<1>2. Live(BlankTable) = {}
  BY DEF BlankTable, Live
<1> QED BY <1>1, <1>2 DEF WellFormed, Orderly, Genuine

(* Pairings::Count is zero exactly when no record is live.                 *)
LEMMA CountIsZero ==
  ASSUME NEW db
  PROVE  Count(db) = 0 <=> Live(db) = {}
<1>1. IsFiniteSet(Slot)
  BY FS_Interval, MaxPairingsAssumption DEF Slot
<1>2. IsFiniteSet(Live(db))
  BY <1>1, FS_Subset DEF Live
<1> QED BY <1>2, FS_EmptySet DEF Count
-----------------------------------------------------------------------------
LEMMA SlotsFinite ==
  ASSUME NEW db
  PROVE  /\ IsFiniteSet(Live(db)) /\ Cardinality(Live(db)) \in Nat
         /\ Cardinality(Live(db)) <= MaxPairings
         /\ Live(db) # Slot => Cardinality(Live(db)) < MaxPairings
<1>1. IsFiniteSet(Slot) /\ Cardinality(Slot) = MaxPairings
  BY FS_Interval, MaxPairingsAssumption DEF Slot
<1>2. Live(db) \in SUBSET Slot
  BY DEF Live
<1>3. IsFiniteSet(Live(db)) /\ Cardinality(Live(db)) <= Cardinality(Slot)
      /\ (Cardinality(Slot) = Cardinality(Live(db)) => Slot = Live(db))
  BY <1>1, <1>2, FS_Subset
<1>4. Cardinality(Live(db)) \in Nat
  BY <1>3, FS_CardinalityType
<1> QED BY <1>1, <1>3, <1>4, MaxPairingsAssumption

(* Live records are numbered from 1, without two of them sharing a number. *)
LEMMA RankIsSlot ==
  ASSUME NEW db, NEW i \in Live(db)
  PROVE  Rank(db, i) \in Slot
<1> DEFINE S == {j \in Live(db) : j <= i}
<1>1. S \in SUBSET Live(db)
  OBVIOUS
<1>2. IsFiniteSet(S) /\ Cardinality(S) <= Cardinality(Live(db))
  BY <1>1, SlotsFinite, FS_Subset
<1>3. Cardinality(S) \in Nat
  BY <1>2, FS_CardinalityType
<1>4. i \in S
  BY DEF Live, Slot
<1>5. Cardinality(S) # 0
  BY <1>2, <1>4, FS_EmptySet
<1>6. Cardinality(S) <= MaxPairings
  BY <1>2, <1>3, SlotsFinite, MaxPairingsAssumption
<1> QED BY <1>3, <1>5, <1>6, MaxPairingsAssumption DEF Rank, Slot

LEMMA RankIsUnique ==
  ASSUME NEW db, NEW i \in Live(db), NEW j \in Live(db), i < j
  PROVE  Rank(db, i) < Rank(db, j)
<1> DEFINE S == {k \in Live(db) : k <= i}
           T == {k \in Live(db) : k <= j}
<1>1. T \in SUBSET Live(db)
  OBVIOUS
<1>2. IsFiniteSet(T)
  BY <1>1, SlotsFinite, FS_Subset
<1>3. S \in SUBSET T
  BY DEF Live, Slot
<1>4. j \in T /\ j \notin S
  BY DEF Live, Slot
<1>5. IsFiniteSet(S) /\ Cardinality(S) <= Cardinality(T)
      /\ (Cardinality(T) = Cardinality(S) => T = S)
  BY <1>2, <1>3, FS_Subset
<1>6. Cardinality(S) \in Nat /\ Cardinality(T) \in Nat
  BY <1>2, <1>5, FS_CardinalityType
<1>7. Cardinality(S) # Cardinality(T)
  BY <1>4, <1>5
<1> QED BY <1>5, <1>6, <1>7 DEF Rank

LEMMA RankedIsOne ==
  ASSUME NEW db, NEW i \in Live(db)
  PROVE  Ranked(db, Rank(db, i)) = {i} /\ First(Ranked(db, Rank(db, i))) = i
<1>1. ASSUME NEW j \in Live(db), Rank(db, j) = Rank(db, i) PROVE j = i
  <2>1. i \in Nat /\ j \in Nat
    BY DEF Live, Slot
  <2>2. Rank(db, i) \in Nat
    BY RankIsSlot DEF Slot
  <2>3. ~ (i < j) /\ ~ (j < i)
    BY <1>1, <2>2, RankIsUnique
  <2> QED BY <2>1, <2>3
<1>2. Ranked(db, Rank(db, i)) = {i}
  BY <1>1 DEF Ranked
<1>3. {i} \in SUBSET Nat
  BY DEF Live, Slot
<1>4. First({i}) = i
  BY <1>3, FirstInSet
<1> QED BY <1>2, <1>4

(* The list in the file has the live records, each in the slot of its      *)
(* rank, and nothing else.                                                 *)
LEMMA SavedRecords ==
  ASSUME NEW db \in Table
  PROVE  /\ Saved(db) \in Table
         /\ \A i \in Live(db) : /\ Rank(db, i) \in Live(Saved(db))
                                /\ Saved(db)[Rank(db, i)] = db[i]
         /\ \A k \in Slot : k \in Live(Saved(db)) =>
              \E i \in Live(db) : k = Rank(db, i) /\ Saved(db)[k] = db[i]
         /\ \A k \in Slot : k \notin Live(Saved(db)) =>
              Saved(db)[k] = BlankTable[k]
<1>1. \A i \in Live(db) : Saved(db)[Rank(db, i)] = db[i]
  BY RankIsSlot, RankedIsOne DEF Saved
<1>2. ASSUME NEW k \in Slot, Ranked(db, k) # {}
      PROVE  \E i \in Live(db) : k = Rank(db, i) /\ Saved(db)[k] = db[i]
  BY <1>1, <1>2 DEF Ranked
<1>3. \A k \in Slot : Ranked(db, k) = {} => Saved(db)[k] = BlankTable[k]
  BY DEF Saved
<1>4. Saved(db) \in Table
  <2>1. \A k \in Slot : Saved(db)[k] \in Controller
    BY <1>2, <1>3, BlankWellFormed DEF Table, Live, WellFormed
  <2> QED BY <2>1 DEF Table, Saved
<1>5. \A i \in Live(db) : Rank(db, i) \in Live(Saved(db))
  BY <1>1, RankIsSlot DEF Live
<1>6. \A k \in Slot : k \in Live(Saved(db)) => Ranked(db, k) # {}
  BY <1>3 DEF Live, BlankTable
<1>7. ASSUME NEW k \in Slot, k \notin Live(Saved(db)) PROVE Ranked(db, k) = {}
  <2>1. ASSUME NEW i \in Ranked(db, k) PROVE FALSE
    BY <2>1, <1>5, <1>7 DEF Ranked
  <2> QED BY <2>1
<1> QED BY <1>1, <1>2, <1>3, <1>4, <1>5, <1>6, <1>7

LEMMA SavedWellFormed ==
  ASSUME NEW db, WellFormed(db)
  PROVE  WellFormed(Saved(db))
<1> DEFINE new == Saved(db)
<1>0. db \in Table
  BY DEF WellFormed
<1>1. /\ new \in Table
      /\ \A k \in Slot : k \in Live(new) =>
           \E i \in Live(db) : k = Rank(db, i) /\ new[k] = db[i]
      /\ \A k \in Slot : k \notin Live(new) => new[k] = BlankTable[k]
  BY <1>0, SavedRecords
<1> HIDE DEF new
<1>2. Genuine(new)
  BY <1>1 DEF Genuine, WellFormed, Live
<1>3. ASSUME NEW k \in Live(new), NEW l \in Slot, l < k
      PROVE  new[l].id # new[k].id
  <2>1. PICK i \in Live(db) : k = Rank(db, i) /\ new[k] = db[i]
    BY <1>1 DEF Live
  <2>2. CASE l \in Live(new)
    <3>1. PICK j \in Live(db) : l = Rank(db, j) /\ new[l] = db[j]
      BY <1>1, <2>2
    <3>2. i # j
      BY <3>1, <2>1, <1>3 DEF Slot, Live
    <3>3. db[i].id # db[j].id
      BY <3>2, GetFindsRecord DEF WellFormed
    <3> QED BY <3>1, <3>3, <2>1
  <2>3. CASE l \notin Live(new)
    <3>1. new[l].id = NoId
      BY <1>1, <2>3 DEF BlankTable
    <3>2. new[k].id \in ControllerId
      BY <1>2 DEF Genuine
    <3> QED BY <3>1, <3>2, NoIdAssumption
  <2> QED BY <2>2, <2>3
<1> QED BY <1>1, <1>2, <1>3 DEF WellFormed, Orderly, new

(* Two tables with the same live records stand for the same map.           *)
LEMMA SameRecordsSameMap ==
  ASSUME NEW d \in Table, Orderly(d), NEW e \in Table, Orderly(e),
         \A i \in Live(d) : \E j \in Live(e) : e[j] = d[i],
         \A j \in Live(e) : \E i \in Live(d) : e[j] = d[i]
  PROVE  PairedMap(d) = PairedMap(e)
<1>1. {d[i].id : i \in Live(d)} = {e[i].id : i \in Live(e)}
  OBVIOUS
<1>2. ASSUME NEW id \in {d[i].id : i \in Live(d)}
      PROVE  d[Get(d, id)] = e[Get(e, id)]
  <2>1. PICK i \in Live(d) : id = d[i].id
    OBVIOUS
  <2>2. PICK j \in Live(e) : e[j] = d[i]
    OBVIOUS
  <2>3. Get(d, id) = i
    BY <2>1, GetFindsRecord
  <2>4. Get(e, id) = j
    BY <2>1, <2>2, GetFindsRecord
  <2> QED BY <2>2, <2>3, <2>4
<1> QED BY <1>1, <1>2 DEF PairedMap

(* What is read back from the file is what was saved.                      *)
LEMMA SavedSameMap ==
  ASSUME NEW db, WellFormed(db)
  PROVE  /\ Restored(BlankTable, Saved(db)) = Saved(db)
         /\ PairedMap(Saved(db)) = PairedMap(db)
<1>0. db \in Table /\ Orderly(db)
  BY DEF WellFormed
<1>1. WellFormed(Saved(db))
  BY SavedWellFormed
<1>2. PairedMap(Saved(db)) = PairedMap(db)
  <2>1. \A i \in Live(db) : \E j \in Live(Saved(db)) : Saved(db)[j] = db[i]
    BY <1>0, SavedRecords
  <2>2. \A j \in Live(Saved(db)) : \E i \in Live(db) : Saved(db)[j] = db[i]
    BY <1>0, SavedRecords DEF Live
  <2> QED BY <2>1, <2>2, <1>0, <1>1, SameRecordsSameMap DEF WellFormed
<1>3. ASSUME NEW k \in Slot
      PROVE  Restored(BlankTable, Saved(db))[k] = Saved(db)[k]
  <2>1. CASE k \in Live(Saved(db))
    BY <2>1 DEF Restored
  <2>2. CASE k \notin Live(Saved(db))
    <3>1. Saved(db)[k] = BlankTable[k]
      BY <2>2, <1>0, SavedRecords
    <3>2. [BlankTable[k] EXCEPT !.perm = "None"] = BlankTable[k]
      BY DEF BlankTable
    <3> QED BY <3>1, <3>2, <2>2 DEF Restored
  <2> QED BY <2>1, <2>2
<1>4. Restored(BlankTable, Saved(db)) = Saved(db)
  BY <1>3 DEF Restored, Saved
<1> QED BY <1>2, <1>4

(* The file has as many records as are live.                               *)
LEMMA SavedCount ==
  ASSUME NEW db \in Table
  PROVE  Count(Saved(db)) = Count(db)
<1> DEFINE new == Saved(db)
           rank == [i \in Live(db) |-> Rank(db, i)]
<1>1. /\ \A i \in Live(db) : Rank(db, i) \in Live(new)
      /\ \A k \in Live(new) : \E i \in Live(db) : k = Rank(db, i)
  BY SavedRecords DEF Live
<1> HIDE DEF new
<1>2. rank \in [Live(db) -> Live(new)]
  BY <1>1
<1>3. \A k \in Live(new) : \E i \in Live(db) : rank[i] = k
  BY <1>1
<1>4. ASSUME NEW i \in Live(db), NEW j \in Live(db), rank[i] = rank[j]
      PROVE  i = j
  <2>1. {i} = {j}
    BY <1>4, RankedIsOne
  <2> QED BY <2>1
<1>5. rank \in Surjection(Live(db), Live(new))
  BY <1>2, <1>3 DEF Surjection
<1>6. rank \in Injection(Live(db), Live(new))
  BY <1>2, <1>4 DEF Injection, IsInjective
<1>7. Cardinality(Live(new)) = Cardinality(Live(db))
  BY <1>5, <1>6, SlotsFinite, FS_Surjection
<1> QED BY <1>7 DEF Count, new
-----------------------------------------------------------------------------
(* The map a table stands for, and what the operations do to it.           *)
LEMMA MapOfRecords ==
  ASSUME NEW db \in Table, Orderly(db)
  PROVE  /\ DOMAIN PairedMap(db) = {db[i].id : i \in Live(db)}
         /\ \A i \in Live(db) : PairedMap(db)[db[i].id] =
                                [key |-> db[i].key, perm |-> db[i].perm]
<1>1. ASSUME NEW i \in Live(db)
      PROVE  PairedMap(db)[db[i].id] = [key |-> db[i].key, perm |-> db[i].perm]
  BY GetFindsRecord DEF PairedMap
<1> QED BY <1>1 DEF PairedMap

LEMMA UnknownNotInMap ==
  ASSUME NEW db, NEW id
  PROVE  id \in DOMAIN PairedMap(db) <=> Holders(db, id) # {}
BY DEF PairedMap, Holders

LEMMA EmptyTableEmptyMap ==
  ASSUME NEW db, Live(db) = {}
  PROVE  PairedMap(db) = [id \in {} |-> [key |-> id, perm |-> "None"]]
<1>1. {db[i].id : i \in Live(db)} = {}
  OBVIOUS
<1> QED BY <1>1 DEF PairedMap

LEMMA AddExtendsMap ==
  ASSUME NEW db, WellFormed(db), NEW id \in ControllerId,
         NEW key \in ControllerKey, NEW perm \in LivePerm,
         CanAdd(db, id), Holders(db, id) = {}
  PROVE  PairedMap(Add(db, id, key, perm)) =
           [x \in DOMAIN PairedMap(db) \cup {id} |->
              IF x = id THEN [key |-> key, perm |-> perm] ELSE PairedMap(db)[x]]
<1> DEFINE r == [id |-> id, key |-> key, perm |-> perm]
           new == Add(db, id, key, perm)
<1>1. db \in Table /\ Orderly(db) /\ WellFormed(new)
  BY AddWellFormed DEF WellFormed
<1>2. PICK f \in Slot : db[f].perm = "None" /\ new = [db EXCEPT ![f] = r]
  BY <1>1, AddTakesFreeSlot
<1>m. /\ DOMAIN PairedMap(db) = {db[i].id : i \in Live(db)}
      /\ \A i \in Live(db) : PairedMap(db)[db[i].id] =
                             [key |-> db[i].key, perm |-> db[i].perm]
  BY <1>1, MapOfRecords
<1>n. /\ DOMAIN PairedMap(new) = {new[i].id : i \in Live(new)}
      /\ \A i \in Live(new) : PairedMap(new)[new[i].id] =
                              [key |-> new[i].key, perm |-> new[i].perm]
  BY <1>1, MapOfRecords DEF WellFormed
<1> HIDE DEF new
<1>3. new[f] = r /\ \A j \in Slot : j # f => new[j] = db[j]
  BY <1>1, <1>2 DEF Table
<1>4. f \in Live(new) /\ f \notin Live(db) /\ Live(new) = Live(db) \cup {f}
  BY <1>2, <1>3 DEF Live, LivePerm
<1>5. \A j \in Live(db) : new[j] = db[j]
  BY <1>3, <1>4 DEF Live
<1>6. DOMAIN PairedMap(new) = DOMAIN PairedMap(db) \cup {id}
  <2>1. DOMAIN PairedMap(new) = {new[i].id : i \in Live(new)}
    BY <1>n
  <2>2. DOMAIN PairedMap(db) = {db[i].id : i \in Live(db)}
    BY <1>m
  <2>3. {new[i].id : i \in Live(new)} = {db[i].id : i \in Live(db)} \cup {id}
    BY <1>3, <1>4, <1>5
  <2> QED BY <2>1, <2>2, <2>3
<1>7. PairedMap(new)[id] = [key |-> key, perm |-> perm]
  BY <1>1, <1>3, <1>4, <1>n
<1>8. ASSUME NEW x \in DOMAIN PairedMap(db)
      PROVE  x # id /\ PairedMap(new)[x] = PairedMap(db)[x]
  <2>1. PICK j \in Live(db) : x = db[j].id
    BY <1>m
  <2>2. PairedMap(db)[x] = [key |-> db[j].key, perm |-> db[j].perm]
    BY <2>1, <1>m
  <2>3. PairedMap(new)[new[j].id] = [key |-> new[j].key, perm |-> new[j].perm]
    BY <1>4, <1>n
  <2> QED BY <1>5, <2>1, <2>2, <2>3 DEF Holders
<1>9. PairedMap(new) = [x \in DOMAIN PairedMap(new) |-> PairedMap(new)[x]]
  BY DEF PairedMap
<1> QED BY <1>6, <1>7, <1>8, <1>9 DEF new

LEMMA UpdateChangesMap ==
  ASSUME NEW db, WellFormed(db), NEW id, NEW perm \in LivePerm,
         Holders(db, id) # {}
  PROVE  PairedMap(Update(db, id, perm)) =
           [PairedMap(db) EXCEPT ![id] = [key |-> PairedMap(db)[id].key,
                                          perm |-> perm]]
<1> DEFINE g == Get(db, id)
           new == Update(db, id, perm)
<1>1. db \in Table /\ Orderly(db) /\ WellFormed(new)
  BY UpdateWellFormed DEF WellFormed
<1>2. g \in Live(db) /\ g \in Slot /\ db[g].id = id
  BY <1>1, GetHolder DEF Live
<1>3. new = [db EXCEPT ![g].perm = perm]
  BY DEF Update
<1>m. /\ DOMAIN PairedMap(db) = {db[i].id : i \in Live(db)}
      /\ \A i \in Live(db) : PairedMap(db)[db[i].id] =
                             [key |-> db[i].key, perm |-> db[i].perm]
  BY <1>1, MapOfRecords
<1>n. /\ DOMAIN PairedMap(new) = {new[i].id : i \in Live(new)}
      /\ \A i \in Live(new) : PairedMap(new)[new[i].id] =
                              [key |-> new[i].key, perm |-> new[i].perm]
  BY <1>1, MapOfRecords DEF WellFormed
<1> HIDE DEF new, g
<1>4. /\ new[g].id = id /\ new[g].key = db[g].key /\ new[g].perm = perm
      /\ \A j \in Slot : j # g => new[j] = db[j]
      /\ \A j \in Slot : new[j].id = db[j].id
  BY <1>1, <1>2, <1>3 DEF Table, Controller
<1>5. Live(new) = Live(db)
  BY <1>2, <1>4 DEF Live, LivePerm
<1>6. DOMAIN PairedMap(new) = DOMAIN PairedMap(db)
  <2>1. {new[i].id : i \in Live(new)} = {db[i].id : i \in Live(db)}
    BY <1>4, <1>5 DEF Live
  <2> QED BY <2>1, <1>m, <1>n
<1>7. PairedMap(new)[id] = [key |-> PairedMap(db)[id].key, perm |-> perm]
  <2>1. PairedMap(db)[id] = [key |-> db[g].key, perm |-> db[g].perm]
    BY <1>2, <1>m
  <2>2. PairedMap(new)[id] = [key |-> new[g].key, perm |-> new[g].perm]
    BY <1>2, <1>4, <1>5, <1>n
  <2> QED BY <2>1, <2>2, <1>4
<1>8. ASSUME NEW x \in DOMAIN PairedMap(db), x # id
      PROVE  PairedMap(new)[x] = PairedMap(db)[x]
  <2>1. PICK j \in Live(db) : x = db[j].id
    BY <1>m
  <2>2. new[j] = db[j]
    BY <2>1, <1>2, <1>4, <1>8 DEF Live
  <2>3. PairedMap(db)[x] = [key |-> db[j].key, perm |-> db[j].perm]
    BY <2>1, <1>m
  <2>4. PairedMap(new)[x] = [key |-> new[j].key, perm |-> new[j].perm]
    BY <1>5, <2>1, <2>2, <1>n
  <2> QED BY <2>2, <2>3, <2>4
<1>9. /\ PairedMap(new) = [x \in DOMAIN PairedMap(new) |-> PairedMap(new)[x]]
      /\ PairedMap(db) = [x \in DOMAIN PairedMap(db) |-> PairedMap(db)[x]]
  BY DEF PairedMap
<1> QED BY <1>6, <1>7, <1>8, <1>9 DEF new

(* Removing leaves the identifiers in their slots, and the records of      *)
(* other controllers as they are.                                          *)
LEMMA RemoveFrees ==
  ASSUME NEW db, WellFormed(db), NEW id
  PROVE  LET new == Remove(db, id)
         IN  /\ \A j \in Slot : new[j].id = db[j].id /\ new[j].key = db[j].key
             /\ Live(new) = {j \in Live(db) : db[j].id # id}
             /\ \A j \in Live(new) : new[j] = db[j]
<1> DEFINE new == Remove(db, id)
<1>1. db \in Table /\ Orderly(db) /\ WellFormed(new)
  BY RemoveWellFormed DEF WellFormed
<1>2. CASE Holders(db, id) # {}
  <2>1. PICK i \in Live(db) : id = db[i].id
    BY <1>2 DEF Holders
  <2>2. new = [db EXCEPT ![i].perm = "None"]
    BY <2>1, <1>1, RemoveFindsRecord
  <2>3. \A j \in Live(db) : db[j].id = id => j = i
    BY <2>1, <1>1, GetFindsRecord DEF Holders
  <2> HIDE DEF new
  <2>4. /\ \A j \in Slot : new[j].id = db[j].id /\ new[j].key = db[j].key
        /\ Live(new) = {j \in Live(db) : db[j].id # id}
        /\ \A j \in Live(new) : new[j] = db[j]
    BY <2>1, <2>2, <2>3, <1>1 DEF Live, Table, Controller
  <2> QED BY <2>4 DEF new
<1>3. CASE Holders(db, id) = {} /\ Named(db, id) # {}
  <2>1. Named(db, id) \in SUBSET Nat
    BY DEF Named, Slot
  <2>2. PICK f \in Slot : f \in Named(db, id) /\ new = [db EXCEPT ![f].perm = "None"]
    BY <1>3, <2>1, FirstInSet DEF Remove, Named
  <2>3. db[f].perm = "None"
    BY <1>3, <2>2 DEF Named, Holders, Live
  <2>4. \A j \in Live(db) : db[j].id # id
    BY <1>3 DEF Holders
  <2> HIDE DEF new
  <2>5. /\ \A j \in Slot : new[j].id = db[j].id /\ new[j].key = db[j].key
        /\ Live(new) = {j \in Live(db) : db[j].id # id}
        /\ \A j \in Live(new) : new[j] = db[j]
    BY <2>2, <2>3, <2>4, <1>1 DEF Live, Table, Controller
  <2> QED BY <2>5 DEF new
<1>4. CASE Named(db, id) = {}
  BY <1>4 DEF Remove, Named, Live
<1> QED BY <1>2, <1>3, <1>4

LEMMA RemoveChangesMap ==
  ASSUME NEW db, WellFormed(db), NEW id
  PROVE  PairedMap(Remove(db, id)) =
           [x \in DOMAIN PairedMap(db) \ {id} |-> PairedMap(db)[x]]
<1> DEFINE new == Remove(db, id)
<1>1. db \in Table /\ Orderly(db) /\ WellFormed(new)
  BY RemoveWellFormed DEF WellFormed
<1>2. /\ \A j \in Slot : new[j].id = db[j].id /\ new[j].key = db[j].key
      /\ Live(new) = {j \in Live(db) : db[j].id # id}
      /\ \A j \in Live(new) : new[j] = db[j]
  BY RemoveFrees
<1>m. /\ DOMAIN PairedMap(db) = {db[i].id : i \in Live(db)}
      /\ \A i \in Live(db) : PairedMap(db)[db[i].id] =
                             [key |-> db[i].key, perm |-> db[i].perm]
  BY <1>1, MapOfRecords
<1>n. /\ DOMAIN PairedMap(new) = {new[i].id : i \in Live(new)}
      /\ \A i \in Live(new) : PairedMap(new)[new[i].id] =
                              [key |-> new[i].key, perm |-> new[i].perm]
  BY <1>1, MapOfRecords DEF WellFormed
<1> HIDE DEF new
<1>3. DOMAIN PairedMap(new) = DOMAIN PairedMap(db) \ {id}
  <2>1. {new[i].id : i \in Live(new)} = {db[i].id : i \in Live(db)} \ {id}
    BY <1>2
  <2> QED BY <2>1, <1>m, <1>n
<1>4. ASSUME NEW x \in DOMAIN PairedMap(new)
      PROVE  PairedMap(new)[x] = PairedMap(db)[x]
  <2>1. PICK j \in Live(new) : x = new[j].id
    BY <1>n
  <2>2. PairedMap(new)[x] = [key |-> new[j].key, perm |-> new[j].perm]
    BY <2>1, <1>n
  <2>3. PairedMap(db)[x] = [key |-> db[j].key, perm |-> db[j].perm]
    BY <1>2, <2>1, <1>m
  <2> QED BY <1>2, <2>1, <2>2, <2>3
<1>5. PairedMap(new) = [x \in DOMAIN PairedMap(new) |-> PairedMap(new)[x]]
  BY DEF PairedMap
<1> QED BY <1>3, <1>4, <1>5 DEF new

(* An added record makes a free slot live, or, with the permission None,   *)
(* leaves it free; no other slot changes.                                  *)
LEMMA AddFills ==
  ASSUME NEW db, WellFormed(db), NEW id \in ControllerId,
         NEW key \in ControllerKey, NEW perm \in LivePerm,
         CanAdd(db, id), Holders(db, id) = {}
  PROVE  LET new == Add(db, id, key, perm)
         IN  \E f \in Slot : /\ f \notin Live(db)
                             /\ Live(new) = Live(db) \cup {f}
                             /\ new[f].id = id
                             /\ \A j \in Slot : j # f => new[j] = db[j]
<1> DEFINE r == [id |-> id, key |-> key, perm |-> perm]
           new == Add(db, id, key, perm)
<1>1. PICK f \in Slot : db[f].perm = "None" /\ new = [db EXCEPT ![f] = r]
  BY AddTakesFreeSlot DEF WellFormed
<1>2. db \in Table
  BY DEF WellFormed
<1> HIDE DEF new
<1>3. new[f] = r /\ \A j \in Slot : j # f => new[j] = db[j]
  BY <1>1, <1>2 DEF Table
<1>4. f \notin Live(db) /\ Live(new) = Live(db) \cup {f}
  BY <1>1, <1>3 DEF Live, LivePerm
<1> QED BY <1>3, <1>4 DEF new

LEMMA AddNoneFills ==
  ASSUME NEW db, WellFormed(db), NEW id \in ControllerId,
         NEW key \in ControllerKey, CanAdd(db, id), Holders(db, id) = {}
  PROVE  LET new == Add(db, id, key, "None")
         IN  /\ Live(new) = Live(db) /\ PairedMap(new) = PairedMap(db)
             /\ \A j \in Live(db) : new[j] = db[j]
<1> DEFINE r == [id |-> id, key |-> key, perm |-> "None"]
           new == Add(db, id, key, "None")
<1>1. PICK f \in Slot : db[f].perm = "None" /\ new = [db EXCEPT ![f] = r]
  BY AddTakesFreeSlot DEF WellFormed
<1>2. db \in Table /\ Orderly(db) /\ new \in Table /\ Orderly(new)
  BY AddWellFormed DEF WellFormed
<1> HIDE DEF new
<1>3. new[f] = r /\ \A j \in Slot : j # f => new[j] = db[j]
  BY <1>1, <1>2 DEF Table
<1>4. Live(new) = Live(db) /\ \A j \in Live(db) : new[j] = db[j]
  BY <1>1, <1>3 DEF Live
<1>5. PairedMap(new) = PairedMap(db)
  BY <1>2, <1>4, SameRecordsSameMap
<1> QED BY <1>4, <1>5 DEF new

(* An update keeps every identifier in its slot, and the live records live *)
(* unless the permission is None: then it removes the controller.          *)
LEMMA UpdateKeepsRecords ==
  ASSUME NEW db, WellFormed(db), NEW id, NEW perm \in LivePerm,
         Holders(db, id) # {}
  PROVE  LET new == Update(db, id, perm)
         IN  Live(new) = Live(db) /\ \A j \in Slot : new[j].id = db[j].id
<1>1. PICK g \in Live(db) : Update(db, id, perm) = [db EXCEPT ![g].perm = perm]
  BY GetHolder DEF Update, WellFormed
<1> QED BY <1>1 DEF Live, LivePerm, WellFormed, Table, Controller

LEMMA UpdateNoneRemoves ==
  ASSUME NEW db, WellFormed(db), NEW id, Holders(db, id) # {}
  PROVE  Update(db, id, "None") = Remove(db, id)
<1>1. db \in Table /\ Orderly(db)
  BY DEF WellFormed
<1>2. PICK g \in Live(db) : id = db[g].id
  BY DEF Holders
<1>3. Get(db, id) = g /\ Remove(db, id) = [db EXCEPT ![g].perm = "None"]
  BY <1>1, <1>2, GetFindsRecord, RemoveFindsRecord
<1> QED BY <1>3 DEF Update

(* While a slot is free, fewer than MaxPairings controllers are paired.    *)
LEMMA FreeSlotSmallMap ==
  ASSUME NEW db \in Table, Orderly(db), Live(db) # Slot
  PROVE  Cardinality(DOMAIN PairedMap(db)) < MaxPairings
<1> DEFINE D == DOMAIN PairedMap(db)
           f == [i \in Live(db) |-> db[i].id]
<1>1. D = {db[i].id : i \in Live(db)}
  BY MapOfRecords
<1>2. f \in Surjection(Live(db), D)
  BY <1>1 DEF Surjection
<1>3. IsFiniteSet(D) /\ Cardinality(D) <= Cardinality(Live(db))
  BY <1>2, SlotsFinite, FS_Surjection
<1>4. Cardinality(D) \in Nat
  BY <1>3, FS_CardinalityType
<1> QED BY <1>3, <1>4, SlotsFinite, MaxPairingsAssumption
=============================================================================
