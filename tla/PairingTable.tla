---------------------------- MODULE PairingTable ----------------------------
(***************************************************************************)
(* The pairing table of class Hap::Pairings (Hap/HapPairing.h and          *)
(* Hap/Hap.cpp): an array of MaxPairings controller records, scanned from  *)
(* the first slot by every operation.  A record whose permission is "None" *)
(* is free, but keeps the identifier and the key it held: Remove and init  *)
(* only clear the permission.                                              *)
(*                                                                         *)
(* This module has the operations as operators on a table, for the modules *)
(* that own one.  Identifiers are compared whole: HomeKit identifiers are  *)
(* all Controller::IdLen = 36 characters long.                             *)
(*                                                                         *)
(* An operator X_Fault is X with a mistake in it: the properties have to   *)
(* tell it from X.  Nothing else uses these.                               *)
(***************************************************************************)
EXTENDS Naturals, FiniteSets

CONSTANTS MaxPairings,    \* number of slots
          ControllerId,   \* pairing identifiers of controllers
          ControllerKey,  \* long-term public keys of controllers
          NoId, NoKey     \* the zeros of a slot that was never used

ASSUME MaxPairingsAssumption == MaxPairings \in Nat \ {0}
ASSUME NoIdAssumption == NoId \notin ControllerId

Slot == 1 .. MaxPairings

LivePerm == {"Regular", "Admin"}

Controller == [id   : ControllerId \cup {NoId},
               key  : ControllerKey \cup {NoKey},
               perm : LivePerm \cup {"None"}]

(* A table never used: zeroed memory after Pairings::init.                 *)
BlankTable == [i \in Slot |-> [id |-> NoId, key |-> NoKey, perm |-> "None"]]

Live(db) == {i \in Slot : db[i].perm # "None"}

(* The slot at which a scan for a slot of S stops.                         *)
First(S) == CHOOSE i \in S : \A j \in S : i <= j

(* Pairings::Count, without a permission.                                  *)
Count(db) == Cardinality(Live(db))

(* Pairings::Get returns the first live record of an identifier.           *)
Holders(db, id) == {i \in Live(db) : db[i].id = id}
Get(db, id) == First(Holders(db, id))

(* Pairings::Add stops at the first slot that is free or holds the         *)
(* identifier; in the second case it returns true and stores nothing.      *)
AddStops_OnlyFresh(db, id) ==
  {i \in Slot : db[i].id = NoId \/ db[i].id = id}
AddStops(db, id) == {i \in Slot : db[i].perm = "None" \/ db[i].id = id}
CanAdd(db, id) == AddStops(db, id) # {}
Add(db, id, key, perm) ==
  LET i == First(AddStops(db, id))
  IN  IF CanAdd(db, id) /\ db[i].perm = "None"
      THEN [db EXCEPT ![i] = [id |-> id, key |-> key, perm |-> perm]]
      ELSE db

(* Pairings::Update changes the permission of the first live record.       *)
Update(db, id, perm) ==
  IF Holders(db, id) = {} THEN db
  ELSE [db EXCEPT ![Get(db, id)].perm = perm]

(* Pairings::Remove clears the first record with the identifier, free      *)
(* records included.                                                       *)
Named(db, id) == {i \in Slot : db[i].id = id}
Remove_Closing(db, id) ==
  IF Named(db, id) = {} THEN db
  ELSE [i \in Slot |-> IF i < First(Named(db, id)) THEN db[i]
                       ELSE IF i = MaxPairings THEN BlankTable[i] ELSE db[i + 1]]
Remove(db, id) ==
  IF Named(db, id) = {} THEN db
  ELSE [db EXCEPT ![First(Named(db, id))].perm = "None"]

(* Pairings::init, called by the configuration's Pairings::Reset.          *)
Reset(db) == [i \in Slot |-> [db[i] EXCEPT !.perm = "None"]]

(* Pairings::Save writes the live records in slot order: the list is held  *)
(* in the first slots of a table, the k-th live record in slot k.          *)
Rank(db, i) == Cardinality({j \in Live(db) : j <= i})
Ranked(db, k) == {i \in Live(db) : Rank(db, i) = k}
Saved_NotLast(db) ==
  [k \in Slot |-> IF Ranked(db, k) = {} \/ MaxPairings \in Ranked(db, k)
                  THEN BlankTable[k] ELSE db[First(Ranked(db, k))]]
Saved(db) ==
  [k \in Slot |-> IF Ranked(db, k) = {} THEN BlankTable[k]
                  ELSE db[First(Ranked(db, k))]]

(* The pairings member of the file read back: Reset, then Add of each      *)
(* record of the list, which take the slots from the first one on.  Free   *)
(* slots keep what the memory held.                                        *)
Restored(db, list) ==
  [i \in Slot |-> IF i \in Live(list) THEN list[i]
                  ELSE [db[i] EXCEPT !.perm = "None"]]

(* The map of paired controllers a table stands for, see PairingMap.       *)
PairedMap(db) ==
  [id \in {db[i].id : i \in Live(db)} |->
     [key |-> db[Get(db, id)].key, perm |-> db[Get(db, id)].perm]]

(* No slot before a live record, live or free, holds its identifier.       *)
Orderly(db) ==
  \A j \in Live(db) : \A i \in Slot : i < j => db[i].id # db[j].id
=============================================================================
