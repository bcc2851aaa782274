-------------------------- MODULE HapServerProofs --------------------------
(***************************************************************************)
(* Proofs about HapServer, for any number of sessions, slots, controllers  *)
(* and allowed attempts.                                                   *)
(*                                                                         *)
(* No property of the server is inductive alone: that pair-setup adds its  *)
(* controller to an empty table rests on the exchange being closed by      *)
(* every step that adds one, and that a new process knows the same         *)
(* controllers rests on the file being current and the table well formed.  *)
(* IInv is their conjunction, with HeldAreOpen, which the life of sessions *)
(* (Sessions) rests on.                                                    *)
(***************************************************************************)
EXTENDS HapServer, PairingTableProofs

(* A session that a client holds is open.                                  *)
HeldAreOpen == \A s \in Sid : sess[s].client => sess[s].open

IInv ==
  /\ TypeOK
  /\ WellFormed(pairings)
  /\ FileIsCurrent
  /\ FlagMatches
  /\ SetupOnUnpaired
  /\ SetupOwnerOpen
  /\ SecuredHasController
  /\ HeldAreOpen

(* The part of the invariant about the configuration, and the part about   *)
(* the sessions.                                                           *)
ConfigInv ==
  /\ WellFormed(pairings)
  /\ statusFlags \in BOOLEAN
  /\ FileIsCurrent
  /\ FlagMatches
SessionInv ==
  /\ sess \in [Sid -> Session]
  /\ srp_id \in 0 .. sid_max \cup {sid_invalid}
  /\ srp_auth_count \in 0 .. MaxAuthAttempts + 1
  /\ SetupOwnerOpen
  /\ SecuredHasController
  /\ HeldAreOpen

(* The invariant is the two parts, and that pair-setup is in progress only *)
(* on an empty table.                                                      *)
LEMMA Parts == IInv <=> ConfigInv /\ SessionInv /\ SetupOnUnpaired
<1>1. ASSUME WellFormed(pairings), statusFlags \in BOOLEAN, FileIsCurrent
      PROVE  file \in File /\ pairings \in [Slot -> Controller]
  <2>1. WellFormed(Saved(pairings))
    BY <1>1, SavedWellFormed
  <2> QED BY <1>1, <2>1 DEF FileIsCurrent, File, WellFormed, Table
<1> QED BY <1>1 DEF IInv, TypeOK, ConfigInv, SessionInv

(* sid_invalid is no session.                                              *)
LEMMA Sids ==
  /\ 0 .. sid_max \subseteq Sid
  /\ sid_invalid \notin Sid
  /\ sid_invalid \notin 0 .. sid_max
  /\ Sid \subseteq Nat
BY MaxHttpSessionsAssumption DEF Sid, sid_max, sid_invalid

(* Any step that leaves the configuration through config->Update leaves it *)
(* in order: the flag and the file follow the table.                       *)
LEMMA UpdateKeepsConfig ==
  ASSUME NEW db, WellFormed(db), ConfigUpdate(db)
  PROVE  ConfigInv'
<1>1. Count(db) = 0 <=> Live(db) = {}
  BY CountIsZero
<1>2. pairings' = db /\ statusFlags' = (Count(db) = 0)
  BY DEF ConfigUpdate
<1>3. WellFormed(pairings') /\ statusFlags' \in BOOLEAN
  BY <1>2
<1>4. FileIsCurrent'
  BY <1>2 DEF ConfigUpdate, ConfigSave, FileIsCurrent
<1>5. FlagMatches'
  BY <1>1, <1>2 DEF FlagMatches
<1> QED BY <1>3, <1>4, <1>5 DEF ConfigInv

LEMMA KeptConfig ==
  ASSUME ConfigInv, KeepConfig
  PROVE  ConfigInv'
<1>1. pairings' = pairings /\ statusFlags' = statusFlags /\ file' = file
  BY DEF KeepConfig
<1>2. WellFormed(pairings')
  BY <1>1 DEF ConfigInv
<1> QED BY <1>1, <1>2 DEF ConfigInv, FileIsCurrent, FlagMatches

(* Init restores the file of an earlier process: the records it saved, in  *)
(* other slots.                                                            *)
LEMMA RestoredTable ==
  ASSUME ConfigInv
  PROVE  /\ Restored(BlankTable, file.pairings) = Saved(pairings)
         /\ WellFormed(Saved(pairings))
         /\ PairedMap(Saved(pairings)) = PairedMap(pairings)
         /\ Saved(Saved(pairings)) \in Table
<1>1. WellFormed(Saved(pairings))
  BY SavedWellFormed DEF ConfigInv
<1>2. file.pairings = Saved(pairings)
  BY DEF ConfigInv, FileIsCurrent
<1>3. /\ Restored(BlankTable, Saved(pairings)) = Saved(pairings)
      /\ PairedMap(Saved(pairings)) = PairedMap(pairings)
  BY SavedSameMap DEF ConfigInv
<1>4. Saved(Saved(pairings)) \in Table
  BY <1>1, SavedWellFormed DEF WellFormed
<1> QED BY <1>1, <1>2, <1>3, <1>4

LEMMA RestoreInTable ==
  ASSUME ConfigInv, NEW db \in Table
  PROVE  Restore(db) \in Table
<1>1. file.pairings \in Table
  BY SavedWellFormed DEF ConfigInv, FileIsCurrent, WellFormed
<1>2. Restored(db, file.pairings) \in Table
  BY <1>1 DEF Restored, Table, Controller
<1>3. Reset(db) \in Table
  BY ResetWellFormed DEF WellFormed
<1> QED BY <1>2, <1>3 DEF Restore

(* A new process has the controllers of the old one, or none if they are   *)
(* too many for the parser.                                                *)
LEMMA PowerCycleCases ==
  ASSUME ConfigInv, PowerCycle
  PROVE  \/ /\ pairings' = Saved(pairings)
            /\ statusFlags' = statusFlags
         \/ /\ Count(pairings) > MaxRestored
            /\ WellFormed(pairings') /\ Live(pairings') = {}
            /\ statusFlags' = TRUE
<1>1. file = [pairings |-> Saved(pairings), statusFlags |-> statusFlags]
  BY DEF ConfigInv, FileIsCurrent
<1>2. pairings \in Table /\ statusFlags \in BOOLEAN /\ BlankTable \in Table
  BY BlankWellFormed DEF ConfigInv, WellFormed
<1>3. CASE Readable
  <2>1. pairings' = Restored(BlankTable, file.pairings)
        /\ statusFlags' = file.statusFlags
    BY <1>1, <1>2, <1>3 DEF PowerCycle, Restore
  <2> QED BY <1>1, <2>1, RestoredTable
<1>4. CASE ~Readable
  <2>1. Count(file.pairings) = Count(pairings)
    BY <1>1, <1>2, SavedCount
  <2>2. Count(pairings) \in Nat
    BY SlotsFinite DEF Count
  <2>3. Count(pairings) > MaxRestored
    BY <1>4, <2>1, <2>2, MaxRestoredAssumption DEF Readable
  <2>4. pairings' = Reset(BlankTable) /\ statusFlags' = TRUE
    BY <1>4 DEF PowerCycle, Restore
  <2>5. WellFormed(pairings') /\ Live(pairings') = {}
    BY <1>2, <2>4, ResetWellFormed
  <2> QED BY <2>3, <2>4, <2>5
<1> QED BY <1>3, <1>4

(* The number of live records decides whether the restored flag is right.  *)
LEMMA SavedEmpty ==
  ASSUME NEW db, WellFormed(db)
  PROVE  Live(Saved(db)) = {} <=> Live(db) = {}
<1>1. db \in Table
  BY DEF WellFormed
<1> QED BY <1>1, SavedRecords DEF Live
-----------------------------------------------------------------------------
(* What a request leaves of the configuration.                             *)
LEMMA StepKeepsConfig ==
  ASSUME IInv, [Next]_vars
  PROVE  ConfigInv'
<1>1. ConfigInv /\ WellFormed(pairings) /\ SetupOnUnpaired
  BY Parts DEF ConfigInv
<1>2. ASSUME NEW s \in Sid, NEW id \in ControllerId, NEW key \in ControllerKey,
             PairSetup5(s, id, key)
      PROVE  ConfigInv'
  <2>1. Holders(pairings, id) = {}
    BY <1>1, <1>2, Sids DEF PairSetup5, SetupOnUnpaired, srp_active,
                            srp_activeIn, Holders
  <2>2. WellFormed(Add(pairings, id, key, "Admin"))
    BY <1>1, <1>2, <2>1, AddWellFormed DEF PairSetup5, LivePerm
  <2> QED BY <1>2, <2>2, UpdateKeepsConfig DEF PairSetup5
<1>3. ASSUME NEW s \in Sid, NEW id \in ControllerId, NEW key \in ControllerKey,
             NEW perm \in LivePerm \cup {"None"}, PairingAdd(s, id, key, perm)
      PROVE  ConfigInv'
  <2>1. CASE Holders(pairings, id) # {}
    <3>1. WellFormed(Update(pairings, id, perm))
      BY <1>1, <2>1, UpdateWellFormed
    <3> QED BY <1>3, <2>1, <3>1, UpdateKeepsConfig DEF PairingAdd
  <2>2. CASE Holders(pairings, id) = {}
    <3>1. CanAdd(pairings, id) /\ ConfigUpdate(Add(pairings, id, key, perm))
      BY <1>3, <2>2 DEF PairingAdd
    <3>2. WellFormed(Add(pairings, id, key, perm))
      BY <1>1, <2>2, <3>1, AddWellFormed
    <3> QED BY <3>1, <3>2, UpdateKeepsConfig
  <2> QED BY <2>1, <2>2
<1>4. ASSUME NEW s \in Sid, NEW id \in ControllerId, PairingRemove(s, id)
      PROVE  ConfigInv'
  <2>1. WellFormed(Remove(pairings, id))
    BY <1>1, RemoveWellFormed
  <2> QED BY <1>4, <2>1, UpdateKeepsConfig DEF PairingRemove
<1>5. CASE Restart
  <2> DEFINE db == Reset(Restore(pairings))
  <2>1. Restore(pairings) \in Table
    BY <1>1, RestoreInTable DEF WellFormed
  <2>2. WellFormed(db) /\ Live(db) = {}
    BY <2>1, ResetWellFormed
  <2> HIDE DEF db
  <2>3. pairings' = db /\ statusFlags' = TRUE /\ ConfigSave(db, TRUE)
    BY <1>5 DEF Restart, db
  <2> QED BY <2>2, <2>3 DEF ConfigInv, ConfigSave, FileIsCurrent, FlagMatches
<1>6. CASE PowerCycle
  <2>1. file' = [pairings |-> Saved(pairings'), statusFlags |-> statusFlags']
    BY <1>6 DEF PowerCycle, ConfigSave
  <2>2. CASE pairings' = Saved(pairings) /\ statusFlags' = statusFlags
    <3>1. Live(pairings') = {} <=> Live(pairings) = {}
      BY <1>1, <2>2, SavedEmpty
    <3>2. WellFormed(pairings')
      BY <1>1, <2>2, RestoredTable
    <3> QED BY <1>1, <2>1, <2>2, <3>1, <3>2 DEF ConfigInv, FileIsCurrent, FlagMatches
  <2>3. CASE WellFormed(pairings') /\ Live(pairings') = {} /\ statusFlags' = TRUE
    BY <2>1, <2>3 DEF ConfigInv, FileIsCurrent, FlagMatches
  <2> QED BY <1>1, <1>6, <2>2, <2>3, PowerCycleCases
<1>7. ASSUME KeepConfig PROVE ConfigInv'
  BY <1>1, <1>7, KeptConfig
<1>8. ASSUME NEW s \in Sid, Request(s)
      PROVE  ConfigInv'
  <2>1. CASE \/ PairSetup1(s) \/ PairSetupMalformed(s) \/ PairVerify1(s)
             \/ \E proofOk \in BOOLEAN : PairSetup3(s, proofOk)
             \/ \E id \in ControllerId : PairVerify3(s, id)
    BY <1>7, <2>1 DEF PairSetup1, PairSetupMalformed, PairVerify1, PairSetup3,
                      PairVerify3
  <2> QED BY <1>2, <1>3, <1>4, <1>8, <2>1 DEF Request
<1>9. CASE OpenSession \/ (\E s \in Sid : CloseSession(s)) \/ UNCHANGED vars
  BY <1>7, <1>9 DEF OpenSession, CloseSession, KeepConfig, vars
<1> QED BY <1>5, <1>6, <1>8, <1>9 DEF Next

(* Server::Open takes a slot that no session has.                          *)
LEMMA OpenTakesFree ==
  ASSUME OpenedSid # sid_invalid
  PROVE  OpenedSid \in Sid /\ ~sess[OpenedSid].open
<1>1. FreeSids # {} /\ FreeSids \in SUBSET Nat
  BY Sids DEF OpenedSid, FreeSids
<1>2. First(FreeSids) \in FreeSids
  BY <1>1, FirstInSet
<1> QED BY <1>1, <1>2 DEF OpenedSid, FreeSids

(* What a step leaves of the sessions.                                     *)
LEMMA StepKeepsSessions ==
  ASSUME IInv, [Next]_vars
  PROVE  SessionInv'
<1> USE DEF Session, SessKey, SetupOwnerOpen, SecuredHasController, HeldAreOpen, srp_active
<1>1. /\ SessionInv /\ pairings \in Table /\ Orderly(pairings)
      /\ Sid \subseteq Nat /\ 0 .. sid_max \subseteq Sid /\ sid_invalid \notin Sid
  BY Parts, Sids DEF ConfigInv, WellFormed
<1>2. CASE OpenSession
  <2> DEFINE c == OpenedSid <= sid_max
             o == OpenedSid
             k == sess[OpenedSid].key
             new == [client |-> c, open |-> TRUE, secured |-> FALSE, ios |-> 0, key |-> k]
  <2>1. o \in Sid
    BY <1>2, OpenTakesFree DEF OpenSession
  <2>2. sess' = [sess EXCEPT ![o] = new] /\ UNCHANGED <<srp_id, srp_auth_count>>
    BY <1>2 DEF OpenSession, KeepSetup
  <2>3. c \in BOOLEAN /\ k \in SessKey
    BY <1>1, <2>1 DEF SessionInv
  <2> HIDE DEF c, o, k
  <2>4. new \in Session /\ new.open /\ ~new.secured
    BY <2>3
  <2> HIDE DEF new
  <2> QED BY <1>1, <2>1, <2>2, <2>4 DEF SessionInv
<1>3. ASSUME NEW s \in Sid, CloseSession(s)
      PROVE  SessionInv'
  <2> DEFINE new == AfterClose(s)
  <2>1. new \in Session /\ ~new.client /\ ~new.secured
    BY <1>1 DEF AfterClose, Closed, SessionInv
  <2>2. sess' = [sess EXCEPT ![s] = new] /\ srp_auth_count' = srp_auth_count
    BY <1>3 DEF CloseSession
  <2> HIDE DEF new
  <2>3. srp_id' = IF srp_id = s THEN sid_invalid ELSE srp_id
    BY <1>3 DEF CloseSession, srp_activeIn
  <2> QED BY <1>1, <2>1, <2>2, <2>3 DEF SessionInv
<1>4. ASSUME NEW s \in Sid, PairSetup1(s)
      PROVE  SessionInv'
  <2>1. s \in 0 .. sid_max /\ sess[s].open
    BY <1>4 DEF PairSetup1, Served, Sid, sid_max
  <2>2. srp_auth_count' \in 0 .. MaxAuthAttempts + 1
    <3>1. ~(srp_auth_count > MaxAuthAttempts)
      BY <1>4 DEF PairSetup1, PairSetup1Answer
    <3> QED BY <1>1, <1>4, <3>1, MaxAuthAttemptsAssumption
            DEF SessionInv, PairSetup1
  <2> QED BY <1>1, <1>4, <2>1, <2>2 DEF SessionInv, PairSetup1
<1>5. ASSUME NEW s \in Sid, NEW proofOk \in BOOLEAN, PairSetup3(s, proofOk)
      PROVE  SessionInv'
  BY <1>1, <1>5 DEF SessionInv, PairSetup3, KeepSetup
<1>6. ASSUME NEW s \in Sid, PairSetupMalformed(s)
      PROVE  SessionInv'
  BY <1>1, <1>6 DEF SessionInv, PairSetupMalformed
<1>7. ASSUME NEW s \in Sid, NEW id, NEW key, PairSetup5(s, id, key)
      PROVE  SessionInv'
  BY <1>1, <1>7 DEF SessionInv, PairSetup5
<1>8. ASSUME NEW s \in Sid, PairVerify1(s)
      PROVE  SessionInv'
  BY <1>1, <1>8 DEF SessionInv, PairVerify1, KeepSetup
<1>9. ASSUME NEW s \in Sid, NEW id, PairVerify3(s, id)
      PROVE  SessionInv'
  <2> DEFINE found == sess[s].key = "verify" /\ Holders(pairings, id) # {}
             ios == IF found THEN Get(pairings, id) ELSE sess[s].ios
  <2>1. Holders(pairings, id) # {} => Get(pairings, id) \in Slot
    BY <1>1, GetHolder DEF Live
  <2>2. ios \in Slot \cup {0}
    BY <1>1, <2>1 DEF SessionInv
  <2>3. sess[s].open /\ KeepSetup
    BY <1>9 DEF PairVerify3, Served
  <2>4. sess' = [sess EXCEPT ![s].ios = ios, ![s].secured = (ios # 0)]
    BY <1>9 DEF PairVerify3
  <2>5. (ios # 0) \in BOOLEAN
    OBVIOUS
  <2> HIDE DEF ios
  <2>6. sess' \in [Sid -> Session]
    BY <1>1, <2>2, <2>4, <2>5 DEF SessionInv
  <2> QED BY <1>1, <2>2, <2>3, <2>4, <2>6 DEF SessionInv, KeepSetup
<1>10. CASE Restart
  BY <1>1, <1>10 DEF SessionInv, Restart, KeepSetup
<1>11. CASE PowerCycle
  BY <1>1, <1>11, MaxAuthAttemptsAssumption DEF SessionInv, PowerCycle, Closed
<1>12. ASSUME UNCHANGED <<sess, srp_id, srp_auth_count>> PROVE SessionInv'
  BY <1>1, <1>12 DEF SessionInv
<1>13. ASSUME NEW s \in Sid, Request(s)
       PROVE  SessionInv'
  <2>1. ASSUME NEW id, NEW key, NEW perm, PairingAdd(s, id, key, perm)
        PROVE  SessionInv'
    BY <1>12, <2>1 DEF PairingAdd, KeepSetup
  <2>2. ASSUME NEW id, PairingRemove(s, id)
        PROVE  SessionInv'
    BY <1>12, <2>2 DEF PairingRemove, KeepSetup
  <2> QED BY <1>4, <1>5, <1>6, <1>7, <1>8, <1>9, <1>13, <2>1, <2>2 DEF Request
<1>14. CASE UNCHANGED vars
  BY <1>12, <1>14 DEF vars
<1> QED BY <1>2, <1>3, <1>10, <1>11, <1>13, <1>14 DEF Next

(* A pair-setup exchange stays on an empty table: an exchange is opened on *)
(* an empty table only, and what fills the table ends the exchange.        *)
LEMMA StepKeepsSetupOnUnpaired ==
  ASSUME IInv, [Next]_vars
  PROVE  SetupOnUnpaired'
<1> USE DEF SetupOnUnpaired, srp_active
<1>1. ConfigInv /\ SessionInv /\ SetupOnUnpaired
      /\ sid_invalid \notin 0 .. sid_max /\ 0 .. sid_max \subseteq Sid
  BY Parts, Sids
<1>2. ASSUME pairings' = pairings, srp_id' = srp_id \/ srp_id' = sid_invalid
      PROVE  SetupOnUnpaired'
  BY <1>1, <1>2
<1>3. ASSUME NEW s \in Sid, PairSetup1(s)
      PROVE  SetupOnUnpaired'
  <2>1. Count(pairings) = 0
    BY <1>3 DEF PairSetup1, PairSetup1Answer
  <2> QED BY <1>3, <2>1, CountIsZero DEF PairSetup1, KeepConfig
<1>4. ASSUME NEW s \in Sid, NEW id, NEW key, PairSetup5(s, id, key)
      PROVE  SetupOnUnpaired'
  BY <1>4 DEF PairSetup5
<1>5. ASSUME NEW s \in Sid, ByAdmin(s), KeepSetup
      PROVE  SetupOnUnpaired'
  <2>1. sess[s].secured /\ sess[s].ios \in Slot
    BY <1>1, <1>5 DEF ByAdmin, SessionInv, SecuredHasController, Session
  <2>2. sess[s].ios \in Live(pairings)
    BY <1>5, <2>1 DEF ByAdmin, Live
  <2> QED BY <1>1, <1>5, <2>2 DEF KeepSetup
<1>6. CASE Restart
  <2>2. Restore(pairings) \in Table
    BY <1>1, RestoreInTable DEF ConfigInv, WellFormed
  <2>3. Live(pairings') = {}
    BY <1>6, <2>2, ResetWellFormed DEF Restart
  <2> QED BY <2>3
<1>7. CASE PowerCycle
  BY <1>7 DEF PowerCycle
<1>8. ASSUME NEW s \in Sid, Request(s)
      PROVE  SetupOnUnpaired'
  <2>1. CASE \/ PairSetupMalformed(s) \/ PairVerify1(s)
             \/ \E proofOk \in BOOLEAN : PairSetup3(s, proofOk)
             \/ \E id \in ControllerId : PairVerify3(s, id)
    BY <1>2, <2>1 DEF PairSetupMalformed, PairVerify1, PairSetup3,
                      PairVerify3, KeepConfig, KeepSetup
  <2>2. ASSUME NEW id, NEW key, NEW perm, PairingAdd(s, id, key, perm)
        PROVE  SetupOnUnpaired'
    BY <1>5, <2>2 DEF PairingAdd
  <2>3. ASSUME NEW id, PairingRemove(s, id)
        PROVE  SetupOnUnpaired'
    BY <1>5, <2>3 DEF PairingRemove
  <2> QED BY <1>3, <1>4, <1>8, <2>1, <2>2, <2>3 DEF Request
<1>9. CASE OpenSession \/ (\E s \in Sid : CloseSession(s)) \/ UNCHANGED vars
  BY <1>2, <1>9 DEF OpenSession, CloseSession, KeepConfig, KeepSetup, vars
<1> QED BY <1>6, <1>7, <1>8, <1>9 DEF Next

(* The invariant holds on every behaviour of the server.                   *)
THEOREM Invariant == Spec => []IInv
<1>1. Init => IInv
  <2> SUFFICES ASSUME Init PROVE IInv
    OBVIOUS
  <2>1. WellFormed(BlankTable) /\ Live(BlankTable) = {} /\ BlankTable \in Table
    BY BlankWellFormed DEF WellFormed
  <2>2. Saved(BlankTable) = BlankTable
    <3>1. \A k \in Slot : Ranked(BlankTable, k) = {}
      BY <2>1 DEF Ranked
    <3> QED BY <3>1 DEF Saved, BlankTable
  <2>3. ConfigInv
    BY <2>1, <2>2 DEF Init, ConfigInv, FileIsCurrent, FlagMatches
  <2>4. SessionInv /\ SetupOnUnpaired
    BY MaxAuthAttemptsAssumption
       DEF Init, SessionInv, SetupOnUnpaired, SetupOwnerOpen,
           SecuredHasController, HeldAreOpen, srp_active, Closed, Session, SessKey
  <2> QED BY <2>3, <2>4, Parts
<1>2. IInv /\ [Next]_vars => (ConfigInv /\ SessionInv /\ SetupOnUnpaired)'
  BY StepKeepsConfig, StepKeepsSessions, StepKeepsSetupOnUnpaired
<1> QED BY <1>1, <1>2, Parts, PTL DEF Spec
-----------------------------------------------------------------------------
(* Types of the server's state.                                            *)
THEOREM TypeCorrect == Spec => []TypeOK
<1>1. IInv => TypeOK
  BY DEF IInv
<1> QED BY <1>1, Invariant, PTL

(* No pair-setup exchange is open while a controller is paired.            *)
THEOREM SetupNeedsEmptyTable == Spec => []SetupOnUnpaired
<1>1. IInv => SetupOnUnpaired
  BY DEF IInv
<1> QED BY <1>1, Invariant, PTL

(* An open pair-setup exchange belongs to an open session.                 *)
THEOREM SetupHasSession == Spec => []SetupOwnerOpen
<1>1. IInv => SetupOwnerOpen
  BY DEF IInv
<1> QED BY <1>1, Invariant, PTL

(* A secured session is open and points to a record.                       *)
THEOREM SecuredMeansVerified == Spec => []SecuredHasController
<1>1. IInv => SecuredHasController
  BY DEF IInv
<1> QED BY <1>1, Invariant, PTL

(* The advertised flag and the saved file follow the table.                *)
THEOREM FlagFollowsTable == Spec => []FlagMatches
<1>1. IInv => FlagMatches
  BY DEF IInv
<1> QED BY <1>1, Invariant, PTL

(* Between two requests the file holds what the memory holds.              *)
THEOREM FileFollowsTable == Spec => []FileIsCurrent
<1>1. IInv => FileIsCurrent
  BY DEF IInv
<1> QED BY <1>1, Invariant, PTL

(* The scans of the table agree on every behaviour of the server.          *)
THEOREM ScansAgree == Spec => []TableOrderly
<1>1. IInv => TableOrderly
  BY DEF IInv, WellFormed, TableOrderly
<1> QED BY <1>1, Invariant, PTL
-----------------------------------------------------------------------------
(* A new process reads back the map of the process before, or none.        *)
LEMMA PowerCycleSameMap ==
  ASSUME IInv, PowerCycle
  PROVE  \/ PairedMap(pairings)' = PairedMap(pairings)
         \/ Count(pairings) > MaxRestored /\ Live(pairings)' = {}
<1>1. ConfigInv
  BY Parts
<1>2. PairedMap(Saved(pairings)) = PairedMap(pairings)
  BY <1>1, RestoredTable
<1> QED BY <1>1, <1>2, PowerCycleCases

(* Pairings are persistent across restarts of the process, as long as the  *)
(* file can be read.                                                       *)
THEOREM PairingsPersist == Spec => PowerCycleKeepsPairings
<1> DEFINE Kept == \/ PairedMap(pairings)' = PairedMap(pairings)
                   \/ Count(pairings) > MaxRestored /\ Live(pairings)' = {}
<1>1. IInv /\ [Next]_vars => [PowerCycle => Kept]_vars
  BY PowerCycleSameMap
<1> QED BY <1>1, Invariant, PTL DEF Spec, PowerCycleKeepsPairings

(* A session stays secured until it is closed.                             *)
THEOREM SecuredStays == Spec => SecuredUntilClosed
<1> DEFINE Stays == \A s \in Sid : sess[s].secured /\ sess'[s].open
                                     => sess'[s].secured
<1>1. ASSUME IInv, Next
      PROVE  Stays
  <2>1. /\ sess \in [Sid -> Session] /\ SecuredHasController
    BY <1>1 DEF IInv, TypeOK
  <2>2. CASE OpenSession
    <3>1. OpenedSid \in Sid /\ ~sess[OpenedSid].open
      BY <2>2, OpenTakesFree DEF OpenSession
    <3>2. \A s \in Sid : s # OpenedSid => sess'[s] = sess[s]
      BY <2>1, <2>2 DEF OpenSession
    <3> QED BY <2>1, <3>1, <3>2 DEF SecuredHasController
  <2>3. ASSUME NEW s \in Sid, CloseSession(s) PROVE Stays
    BY <2>1, <2>3 DEF CloseSession, AfterClose, Closed
  <2>4. ASSUME NEW s \in Sid, Request(s) PROVE Stays
    <3>1. ASSUME NEW id, PairVerify3(s, id) PROVE Stays
      <4>1. PICK ios \in {sess[s].ios, Get(pairings, id)} :
              /\ ios # sess[s].ios => Holders(pairings, id) # {}
              /\ sess' = [sess EXCEPT ![s].ios = ios, ![s].secured = (ios # 0)]
        BY <3>1 DEF PairVerify3
      <4>2. ios = 0 => ~sess[s].secured
        <5>1. Holders(pairings, id) # {} => Get(pairings, id) # 0
          BY <1>1, GetHolder DEF IInv, WellFormed, Live, Slot
        <5> QED BY <2>1, <4>1, <5>1 DEF SecuredHasController
      <4>3. (ios # 0) \in BOOLEAN
        OBVIOUS
      <4>4. sess'[s].secured = (ios # 0)
        BY <2>1, <4>1, <4>3 DEF Session
      <4>5. \A t \in Sid : t # s => sess'[t] = sess[t]
        BY <2>1, <4>1
      <4> QED BY <4>2, <4>4, <4>5
    <3>2. ASSUME NEW proofOk, PairSetup3(s, proofOk) PROVE Stays
      BY <2>1, <3>2 DEF PairSetup3, Session
    <3>3. CASE PairVerify1(s)
      BY <2>1, <3>3 DEF PairVerify1, Session
    <3>4. ASSUME UNCHANGED sess PROVE Stays
      BY <3>4
    <3>5. CASE PairSetup1(s) \/ PairSetupMalformed(s)
      BY <3>4, <3>5 DEF PairSetup1, PairSetupMalformed
    <3>6. ASSUME NEW id, NEW key, PairSetup5(s, id, key) PROVE Stays
      BY <3>4, <3>6 DEF PairSetup5
    <3>7. ASSUME NEW id, NEW key, NEW perm, PairingAdd(s, id, key, perm)
          PROVE  Stays
      BY <3>4, <3>7 DEF PairingAdd
    <3>8. ASSUME NEW id, PairingRemove(s, id) PROVE Stays
      BY <3>4, <3>8 DEF PairingRemove
    <3> QED BY <2>4, <3>1, <3>2, <3>3, <3>5, <3>6, <3>7, <3>8 DEF Request
  <2>5. CASE Restart
    BY <2>1, <2>5 DEF Restart, Session
  <2>6. CASE PowerCycle
    BY <2>6 DEF PowerCycle, Closed
  <2> QED BY <1>1, <2>2, <2>3, <2>4, <2>5, <2>6 DEF Next
<1>2. IInv /\ [Next]_vars => [Stays]_vars
  BY <1>1
<1> QED BY <1>2, Invariant, PTL DEF Spec, SecuredUntilClosed
-----------------------------------------------------------------------------
(* A session's controller as Authority sees it: the one of the live record *)
(* pointed to.                                                             *)
LEMMA Acting ==
  ASSUME IInv
  PROVE  /\ \A s \in Sid : /\ sess[s].ios \in Slot \cup {0}
                           /\ sess[s].ios \in Live(pairings) =>
                                /\ ActsFor[s] = pairings[sess[s].ios].id
                                /\ ActsFor[s] \in DOMAIN PairedMap(pairings)
                           /\ sess[s].ios \notin Live(pairings) => ActsFor[s] = NoId
         /\ DOMAIN PairedMap(pairings) \subseteq ControllerId
         /\ 0 \notin Slot /\ Live(pairings) \subseteq Slot
<1>1. /\ pairings \in Table /\ Orderly(pairings) /\ Genuine(pairings)
      /\ sess \in [Sid -> Session]
  BY DEF IInv, WellFormed, TypeOK
<1>2. DOMAIN PairedMap(pairings) = {pairings[j].id : j \in Live(pairings)}
  BY <1>1, MapOfRecords
<1>3. DOMAIN PairedMap(pairings) \subseteq ControllerId
  BY <1>1, <1>2 DEF Genuine
<1>4. \A s \in Sid : sess[s].ios \in Slot \cup {0}
  BY <1>1 DEF Session
<1> QED BY <1>2, <1>3, <1>4 DEF ActsFor, Slot, Live

(* The handlers of /pairings run for sessions that may ask for changes.    *)
LEMMA AdminMayChange ==
  ASSUME IInv, NEW s \in Sid, ByAdmin(s)
  PROVE  Auth!MayChange(s) /\ Auth!HasAdmin
<1>1. /\ pairings \in Table /\ Orderly(pairings)
      /\ sess \in [Sid -> Session] /\ SecuredHasController
  BY DEF IInv, WellFormed, TypeOK
<1>2. sess[s].ios \in Slot /\ pairings[sess[s].ios].perm = "Admin"
  BY <1>1 DEF ByAdmin, SecuredHasController, Session
<1>3. sess[s].ios \in Live(pairings)
  BY <1>2 DEF Live
<1>4. ActsFor[s] = pairings[sess[s].ios].id /\ ActsFor[s] \in DOMAIN PairedMap(pairings)
  BY <1>3, Acting
<1>5. PairedMap(pairings)[ActsFor[s]].perm = "Admin"
  <2>1. PICK i \in Live(pairings) : i = sess[s].ios
    BY <1>3
  <2>2. PairedMap(pairings)[pairings[i].id] =
          [key |-> pairings[i].key, perm |-> pairings[i].perm]
    BY <1>1, MapOfRecords
  <2> QED BY <1>2, <1>4, <2>1, <2>2
<1> QED BY <1>4, <1>5 DEF Auth!MayChange, Auth!HasAdmin

(* A step that leaves the sessions' pointers and the identifiers of live   *)
(* records alone leaves them the controllers they act for.                 *)
LEMMA ActingKept ==
  ASSUME \A s \in Sid : sess'[s].ios = sess[s].ios,
         Live(pairings') = Live(pairings),
         \A j \in Live(pairings) : pairings'[j].id = pairings[j].id
  PROVE  ActsFor' = ActsFor /\ Orphans' = Orphans
BY DEF ActsFor, Orphans

(* Adding a controller that has no record is adding it to the map; the     *)
(* sessions that point to the free record taken act for it from then on.   *)
LEMMA AddInMap ==
  ASSUME IInv, NEW id \in ControllerId, NEW key \in ControllerKey,
         NEW perm \in LivePerm, CanAdd(pairings, id), UNCHANGED sess,
         Holders(pairings, id) = {}, pairings' = Add(pairings, id, key, perm)
  PROVE  /\ PairedMap(pairings)' = Auth!Extended(id, key, perm)
         /\ id \notin DOMAIN PairedMap(pairings)
         /\ Auth!Cardinality(DOMAIN PairedMap(pairings)) < MaxPairings
         /\ Auth!Inherited(id)
<1>0. WellFormed(pairings)
  BY DEF IInv
<1>1. PairedMap(pairings') = Auth!Extended(id, key, perm)
  BY <1>0, AddExtendsMap DEF Auth!Extended
<1>2. PICK f \in Slot :
        /\ f \notin Live(pairings)
        /\ Live(pairings') = Live(pairings) \cup {f}
        /\ pairings'[f].id = id
        /\ \A j \in Slot : j # f => pairings'[j] = pairings[j]
  BY <1>0, AddFills
<1>3. Live(pairings) # Slot
  BY <1>2
<1>4. Cardinality(DOMAIN PairedMap(pairings)) < MaxPairings
  BY <1>0, <1>3, FreeSlotSmallMap DEF WellFormed
<1>5. Auth!Cardinality(DOMAIN PairedMap(pairings)) =
        Cardinality(DOMAIN PairedMap(pairings))
  BY DEF Auth!Cardinality, Cardinality
<1>6. Auth!Inherited(id)
  <2> DEFINE heirs == {s \in Sid : sess[s].ios = f}
  <2>1. heirs \in SUBSET Orphans
    BY <1>2, Acting DEF Orphans
  <2>2. \A s \in Sid : ActsFor'[s] = IF s \in heirs THEN id ELSE ActsFor[s]
    BY <1>2, Acting DEF ActsFor
  <2>3. ActsFor' = [s \in Sid |-> IF s \in heirs THEN id ELSE ActsFor[s]]
    BY <2>2 DEF ActsFor
  <2>4. Orphans' = Orphans \ heirs
    BY <1>2 DEF Orphans
  <2> QED BY <2>1, <2>3, <2>4 DEF Auth!Inherited
<1> QED BY <1>1, <1>4, <1>5, <1>6, UnknownNotInMap

(* Removing a controller takes it out of the map and makes orphans of its  *)
(* sessions.                                                               *)
LEMMA RemoveInMap ==
  ASSUME IInv, NEW id \in ControllerId, UNCHANGED sess, Auth!HasAdmin,
         pairings' = Remove(pairings, id)
  PROVE  Auth!RemovePairing(id) /\ Auth!Orphaned({id})
<1>1. WellFormed(pairings)
  BY DEF IInv
<1>2. PairedMap(pairings') =
        [x \in DOMAIN PairedMap(pairings) \ {id} |-> PairedMap(pairings)[x]]
  BY <1>1, RemoveChangesMap
<1>3. /\ \A j \in Slot : pairings'[j].id = pairings[j].id
      /\ Live(pairings') = {j \in Live(pairings) : pairings[j].id # id}
  BY <1>1, RemoveFrees
<1>4. \A s \in Sid : ActsFor'[s] = IF ActsFor[s] \in {id} THEN NoId ELSE ActsFor[s]
  BY <1>3, Acting, NoIdAssumption DEF ActsFor
<1>5. ActsFor' = [s \in Sid |-> IF ActsFor[s] \in {id} THEN NoId ELSE ActsFor[s]]
  BY <1>4 DEF ActsFor
<1>6. Orphans' = Orphans \cup {s \in Sid : ActsFor[s] \in {id}}
  BY <1>3, Acting, NoIdAssumption DEF Orphans
<1> QED BY <1>2, <1>5, <1>6 DEF Auth!RemovePairing, Auth!Orphaned

(* What POST /pairings does to the map is asked for by an administrator.   *)
LEMMA PairingAddAsked ==
  ASSUME IInv, NEW s \in Sid, NEW id \in ControllerId, NEW key \in ControllerKey,
         NEW perm \in LivePerm \cup {"None"}, PairingAdd(s, id, key, perm)
  PROVE  [Auth!Asked(s)]_(Auth!avars)
<1> USE DEF Auth!LivePerm, LivePerm
<1>1. WellFormed(pairings) /\ UNCHANGED sess /\ Auth!MayChange(s) /\ Auth!HasAdmin
  BY AdminMayChange DEF IInv, PairingAdd
<1>2. CASE perm = "None" /\ Holders(pairings, id) # {}
  <2>1. pairings' = Remove(pairings, id)
    BY <1>1, <1>2, UpdateNoneRemoves DEF PairingAdd, ConfigUpdate
  <2>2. Auth!RemovePairing(id) /\ Auth!Orphaned({id})
    BY <1>1, <2>1, RemoveInMap
  <2> QED BY <1>1, <2>2 DEF Auth!Asked
<1>3. CASE perm = "None" /\ Holders(pairings, id) = {}
  <2>1. /\ Live(pairings') = Live(pairings)
        /\ PairedMap(pairings') = PairedMap(pairings)
        /\ \A j \in Live(pairings) : pairings'[j] = pairings[j]
    BY <1>1, <1>3, AddNoneFills DEF PairingAdd, ConfigUpdate
  <2>2. ActsFor' = ActsFor /\ Orphans' = Orphans
    BY <1>1, <2>1, ActingKept
  <2> QED BY <2>1, <2>2 DEF Auth!avars
<1>4. CASE perm \in LivePerm /\ Holders(pairings, id) # {}
  <2>1. pairings' = Update(pairings, id, perm)
    BY <1>4 DEF PairingAdd, ConfigUpdate
  <2>2. PairedMap(pairings') =
          [PairedMap(pairings) EXCEPT ![id] =
             [key |-> PairedMap(pairings)[id].key, perm |-> perm]]
    BY <1>1, <1>4, <2>1, UpdateChangesMap
  <2>3. id \in DOMAIN PairedMap(pairings)
    BY <1>4, UnknownNotInMap
  <2>4. PICK i \in Live(pairings) : id = pairings[i].id
    BY <1>4 DEF Holders
  <2>5. PairedMap(pairings)[id] = [key |-> pairings[i].key, perm |-> pairings[i].perm]
    BY <1>1, <2>4, MapOfRecords DEF WellFormed
  <2>6. [PairedMap(pairings)[id] EXCEPT !.perm = perm] =
          [key |-> PairedMap(pairings)[id].key, perm |-> perm]
    BY <2>5
  <2>7. PairedMap(pairings') =
          [PairedMap(pairings) EXCEPT ![id] =
             [PairedMap(pairings)[id] EXCEPT !.perm = perm]]
    BY <2>2, <2>6
  <2>8. Auth!SetPermission(id, perm)
    BY <1>1, <2>3, <2>7 DEF Auth!SetPermission
  <2>9. /\ Live(pairings') = Live(pairings)
        /\ \A j \in Live(pairings) : pairings'[j].id = pairings[j].id
    BY <1>1, <1>4, <2>1, UpdateKeepsRecords DEF Live
  <2>10. ActsFor' = ActsFor /\ Orphans' = Orphans
    BY <1>1, <2>9, ActingKept
  <2> QED BY <1>1, <1>4, <2>8, <2>10 DEF Auth!Asked
<1>5. CASE perm \in LivePerm /\ Holders(pairings, id) = {}
  <2>1. CanAdd(pairings, id) /\ pairings' = Add(pairings, id, key, perm)
    BY <1>5 DEF PairingAdd, ConfigUpdate
  <2>2. Auth!AddPairing(id, key, perm) /\ Auth!Inherited(id)
    BY <1>1, <1>5, <2>1, AddInMap DEF Auth!AddPairing
  <2> QED BY <1>1, <1>5, <2>2 DEF Auth!Asked
<1> QED BY <1>2, <1>3, <1>4, <1>5

(* A session gets its controller from a pair-verify of that controller.    *)
LEMMA VerifyNames ==
  ASSUME IInv, NEW s \in Sid, NEW id \in ControllerId, PairVerify3(s, id)
  PROVE  Auth!Verify(s, id) \/ UNCHANGED Auth!avars
<1>1. /\ pairings \in Table /\ Orderly(pairings) /\ sess \in [Sid -> Session]
      /\ pairings' = pairings
  BY DEF IInv, WellFormed, TypeOK, PairVerify3, KeepConfig
<1>2. PairedMap(pairings') = PairedMap(pairings)
  BY <1>1 DEF PairedMap, Live, Get, First, Holders
<1>3. CASE sess[s].key = "verify" /\ Holders(pairings, id) # {}
  <2>1. PICK g \in Live(pairings) : g = Get(pairings, id) /\ pairings[g].id = id
    BY <1>1, <1>3, GetHolder
  <2>2. sess' = [sess EXCEPT ![s].ios = g, ![s].secured = (g # 0)]
    BY <1>3, <2>1 DEF PairVerify3
  <2>3. sess'[s].ios = g /\ \A t \in Sid : t # s => sess'[t] = sess[t]
    BY <1>1, <2>2 DEF Session
  <2>4. \A t \in Sid : ActsFor'[t] = IF t = s THEN id ELSE ActsFor[t]
    BY <1>1, <2>1, <2>3 DEF ActsFor
  <2>5. ActsFor' = [ActsFor EXCEPT ![s] = id]
    BY <2>4 DEF ActsFor
  <2>6. Orphans' = Orphans \ {s}
    BY <1>1, <2>1, <2>3 DEF Orphans
  <2>7. id \in DOMAIN PairedMap(pairings)
    BY <1>3, UnknownNotInMap
  <2> QED BY <1>2, <2>5, <2>6, <2>7 DEF Auth!Verify
<1>4. CASE ~(sess[s].key = "verify" /\ Holders(pairings, id) # {})
  <2>1. sess' = [sess EXCEPT ![s].ios = sess[s].ios, ![s].secured = (sess[s].ios # 0)]
    BY <1>4 DEF PairVerify3
  <2>2. \A t \in Sid : sess'[t].ios = sess[t].ios
    BY <1>1, <2>1 DEF Session
  <2>3. ActsFor' = ActsFor /\ Orphans' = Orphans
    BY <1>1, <2>2, ActingKept
  <2> QED BY <1>2, <2>3 DEF Auth!avars
<1> QED BY <1>3, <1>4

(* A session that is opened or closed acts for nobody.                     *)
LEMMA FreshActsForNobody ==
  ASSUME IInv, NEW s \in Sid, NEW new, new.ios = 0,
         sess' = [sess EXCEPT ![s] = new], pairings' = pairings
  PROVE  Auth!EndSession(s)
<1>1. sess'[s] = new /\ \A t \in Sid : t # s => sess'[t] = sess[t]
  BY DEF IInv, TypeOK
<1>2. 0 \notin Live(pairings)
  BY Acting
<1>3. \A t \in Sid : ActsFor'[t] = IF t = s THEN NoId ELSE ActsFor[t]
  BY <1>1, <1>2 DEF ActsFor
<1>4. ActsFor' = [ActsFor EXCEPT ![s] = NoId]
  BY <1>3 DEF ActsFor
<1>5. Orphans' = Orphans \ {s}
  BY <1>1 DEF Orphans
<1>6. PairedMap(pairings') = PairedMap(pairings)
  BY DEF PairedMap, Live, Get, First, Holders
<1> QED BY <1>4, <1>5, <1>6 DEF Auth!EndSession

(* Each step of the server is a step of Authority or leaves it alone.      *)
LEMMA StepHasAuthority ==
  ASSUME IInv, [Next]_vars
  PROVE  [Auth!AuthorityNext]_(Auth!avars)
<1>1. WellFormed(pairings) /\ sess \in [Sid -> Session]
  BY DEF IInv, TypeOK
<1>2. ASSUME NEW s \in Sid, NEW id \in ControllerId, NEW key \in ControllerKey,
             PairSetup5(s, id, key)
      PROVE  Auth!Setup(id, key) /\ Auth!Inherited(id)
  <2>1. Live(pairings) = {}
    BY <1>2, Sids DEF IInv, PairSetup5, SetupOnUnpaired, srp_active, srp_activeIn
  <2>2. PairedMap(pairings) = [x \in {} |-> [key |-> x, perm |-> "None"]]
    BY <2>1, EmptyTableEmptyMap
  <2>3. DOMAIN PairedMap(pairings) = {}
    BY <2>2
  <2>4. PairedMap(pairings)' = Auth!Extended(id, key, "Admin") /\ Auth!Inherited(id)
    BY <1>2, <2>1, AddInMap DEF PairSetup5, ConfigUpdate, Holders, LivePerm
  <2> QED BY <2>3, <2>4 DEF Auth!Setup
<1>3. ASSUME NEW s \in Sid, NEW id \in ControllerId, PairingRemove(s, id)
      PROVE  Auth!Asked(s)
  <2>1. Auth!MayChange(s) /\ Auth!HasAdmin
    BY <1>3, AdminMayChange DEF PairingRemove
  <2>2. Auth!RemovePairing(id) /\ Auth!Orphaned({id})
    BY <1>3, <2>1, RemoveInMap DEF PairingRemove, ConfigUpdate
  <2> QED BY <2>1, <2>2 DEF Auth!Asked
<1>4. CASE Restart
  <2>1. Restore(pairings) \in Table
    BY <1>1, Parts, RestoreInTable DEF IInv, WellFormed
  <2>2. Live(pairings') = {}
    BY <1>4, <2>1, ResetWellFormed DEF Restart
  <2>3. PairedMap(pairings') = [x \in {} |-> [key |-> x, perm |-> "None"]]
    BY <2>2, EmptyTableEmptyMap
  <2>4. \A s \in Sid : sess'[s].ios = sess[s].ios
    BY <1>1, <1>4 DEF Restart, Session
  <2>5. \A s \in Sid : ActsFor'[s] = IF ActsFor[s] \in DOMAIN PairedMap(pairings)
                                     THEN NoId ELSE ActsFor[s]
    BY <2>2, <2>4, Acting DEF ActsFor
  <2>6. ActsFor' = [s \in Sid |-> IF ActsFor[s] \in DOMAIN PairedMap(pairings)
                                  THEN NoId ELSE ActsFor[s]]
    BY <2>5 DEF ActsFor
  <2>7. Orphans' = Orphans \cup {s \in Sid : ActsFor[s] \in DOMAIN PairedMap(pairings)}
    BY <2>2, <2>4, Acting, NoIdAssumption DEF Orphans
  <2>8. Auth!ResetAll /\ Auth!Orphaned(DOMAIN PairedMap(pairings))
    BY <2>3, <2>6, <2>7 DEF Auth!ResetAll, Auth!Nobody, Auth!Orphaned
  <2> QED BY <2>8 DEF Auth!AuthorityNext
<1>5. CASE PowerCycle
  <2>1. PairedMap(pairings)' \in {PairedMap(pairings), Auth!Nobody}
    <3>1. CASE Live(pairings') = {}
      <4>1. PairedMap(pairings') = [x \in {} |-> [key |-> x, perm |-> "None"]]
        BY <3>1, EmptyTableEmptyMap
      <4> QED BY <4>1 DEF Auth!Nobody
    <3> QED BY <1>5, <3>1, PowerCycleSameMap
  <2>2. \A s \in Sid : sess'[s].ios = 0
    BY <1>5 DEF PowerCycle, Closed
  <2>3. 0 \notin Live(pairings')
    BY DEF Live, Slot
  <2>4. ActsFor' = [s \in Sid |-> NoId] /\ Orphans' = {}
    BY <2>2, <2>3 DEF ActsFor, Orphans
  <2>5. Auth!NewProcess
    BY <2>1, <2>4 DEF Auth!NewProcess
  <2> QED BY <2>5 DEF Auth!AuthorityNext
<1>6. ASSUME pairings' = pairings, \A s \in Sid : sess'[s].ios = sess[s].ios
      PROVE  UNCHANGED Auth!avars
  <2>1. PairedMap(pairings') = PairedMap(pairings)
    BY <1>6 DEF PairedMap, Live, Get, First, Holders
  <2>2. ActsFor' = ActsFor /\ Orphans' = Orphans
    BY <1>6, ActingKept
  <2> QED BY <2>1, <2>2 DEF Auth!avars
<1>7. ASSUME NEW s \in Sid, Request(s)
      PROVE  [Auth!AuthorityNext]_(Auth!avars)
  <2>1. CASE \/ PairSetup1(s) \/ PairSetupMalformed(s) \/ PairVerify1(s)
             \/ \E proofOk \in BOOLEAN : PairSetup3(s, proofOk)
    <3>1. pairings' = pairings /\ \A t \in Sid : sess'[t].ios = sess[t].ios
      BY <1>1, <2>1 DEF PairSetup1, PairSetupMalformed, PairVerify1, PairSetup3,
                        KeepConfig, Session
    <3> QED BY <1>6, <3>1
  <2>2. CASE \E id \in ControllerId : PairVerify3(s, id)
    BY <2>2, VerifyNames DEF Auth!AuthorityNext
  <2>3. CASE \E id \in ControllerId, key \in ControllerKey :
               PairSetup5(s, id, key)
    BY <1>2, <2>3 DEF Auth!AuthorityNext
  <2>4. CASE \E id \in ControllerId, key \in ControllerKey,
               perm \in LivePerm \cup {"None"} : PairingAdd(s, id, key, perm)
    BY <2>4, PairingAddAsked DEF Auth!AuthorityNext
  <2>5. CASE \E id \in ControllerId : PairingRemove(s, id)
    BY <1>3, <2>5 DEF Auth!AuthorityNext
  <2> QED BY <1>7, <2>1, <2>2, <2>3, <2>4, <2>5 DEF Request
<1>8. CASE OpenSession
  <2>1. OpenedSid \in Sid
    BY <1>8, OpenTakesFree DEF OpenSession
  <2>2. PICK new : new.ios = 0 /\ sess' = [sess EXCEPT ![OpenedSid] = new]
    BY <1>8 DEF OpenSession
  <2>3. Auth!EndSession(OpenedSid)
    BY <1>8, <2>1, <2>2, FreshActsForNobody DEF OpenSession, KeepConfig
  <2> QED BY <2>1, <2>3 DEF Auth!AuthorityNext
<1>9. ASSUME NEW s \in Sid, CloseSession(s)
      PROVE  Auth!AuthorityNext
  <2>1. AfterClose(s).ios = 0
    BY DEF AfterClose, Closed
  <2>2. Auth!EndSession(s)
    BY <1>9, <2>1, FreshActsForNobody DEF CloseSession, KeepConfig
  <2> QED BY <2>2 DEF Auth!AuthorityNext
<1>10. CASE UNCHANGED vars
  BY <1>6, <1>10 DEF vars
<1> QED BY <1>4, <1>5, <1>7, <1>8, <1>9, <1>10 DEF Next

(* The table is changed by pair-setup on an empty table, by the reset, and *)
(* else only on a session whose own controller is an administrator then:   *)
(* the controller of its last pair-verify, until that one is removed.      *)
THEOREM ImplementsAuthority == Spec => AuthoritySpec
<1>1. Init => Auth!AuthorityInit
  <2>1. SUFFICES ASSUME Init PROVE Auth!AuthorityInit
    OBVIOUS
  <2>2. Live(pairings) = {}
    BY <2>1, BlankWellFormed DEF Init
  <2>3. PairedMap(pairings) = [x \in {} |-> [key |-> x, perm |-> "None"]]
    BY <2>2, EmptyTableEmptyMap
  <2>4. \A s \in Sid : sess[s].ios = 0
    BY <2>1 DEF Init, Closed
  <2>5. ActsFor = [s \in Sid |-> NoId] /\ Orphans = {}
    BY <2>2, <2>4 DEF ActsFor, Orphans
  <2> QED BY <2>3, <2>5 DEF Auth!AuthorityInit, Auth!Init, Auth!Nobody
<1>2. IInv /\ [Next]_vars => [Auth!AuthorityNext]_(Auth!avars)
  BY StepHasAuthority
<1> QED BY <1>1, <1>2, Invariant, PTL DEF Spec, AuthoritySpec, Auth!AuthoritySpec
-----------------------------------------------------------------------------
(* Server::Open opens what Sessions opens, the first slot that is not.     *)
LEMMA OpenOpens ==
  ASSUME IInv, OpenSession
  PROVE  Ses!Next
<1>1. /\ sess \in [Sid -> Session] /\ SecuredHasController /\ HeldAreOpen
  BY DEF IInv, TypeOK
<1>2. FreeSids # {} /\ FreeSids \in SUBSET Nat /\ OpenedSid = First(FreeSids)
  BY Sids DEF OpenSession, OpenedSid, FreeSids
<1>3. OpenedSid \in FreeSids /\ \A t \in FreeSids : OpenedSid <= t
  BY <1>2, FirstInSet
<1>4. OpenedSid \in Sid /\ ~sess[OpenedSid].open /\ ~sess[OpenedSid].secured
  BY <1>1, <1>3 DEF FreeSids, SecuredHasController
<1>o. PICK o \in Sid : o = OpenedSid
  BY <1>4
<1> DEFINE c == o <= sid_max
           new == [client |-> c, open |-> TRUE, secured |-> FALSE, ios |-> 0,
                   key |-> sess[o].key]
<1>5. sess' = [sess EXCEPT ![o] = new]
  BY <1>o DEF OpenSession
<1>6. c = (o # MaxHttpSessions)
  BY <1>o, MaxHttpSessionsAssumption DEF Sid, sid_max
<1>7. new.open /\ ~new.secured /\ new.client = (o # MaxHttpSessions)
  BY <1>6
<1>8. o \in Sid /\ ~sess[o].open /\ ~sess[o].secured /\ \A t \in FreeSids : o <= t
  BY <1>3, <1>4, <1>o
<1> HIDE DEF new, c
<1>9. sess'[o] = new /\ \A s \in Sid : s # o => sess'[s] = sess[s]
  BY <1>1, <1>5, <1>8
<1>10. {s \in Sid : sess'[s].open} = {s \in Sid : sess[s].open} \cup {o}
  BY <1>7, <1>8, <1>9
<1>11. {s \in Sid : sess'[s].secured} = {s \in Sid : sess[s].secured}
  BY <1>7, <1>8, <1>9
<1>12. {s \in Sid : sess'[s].client} = {s \in Sid : sess[s].client} \cup ({o} \ {MaxHttpSessions})
  <2>1. CASE o = MaxHttpSessions
    BY <1>1, <1>7, <1>8, <1>9, <2>1 DEF HeldAreOpen
  <2>2. CASE o # MaxHttpSessions
    BY <1>7, <1>8, <1>9, <2>2
  <2> QED
    BY <2>1, <2>2
<1>13. Ses!Sid = Sid /\ Ses!overflow = MaxHttpSessions
  BY DEF Ses!Sid, Sid, Ses!overflow
<1>14. \A t \in Sid \ {s \in Sid : sess[s].open} : o <= t
  BY <1>8 DEF FreeSids
<1>15. o \notin {s \in Sid : sess[s].open}
  BY <1>8
<1>16. Ses!Open(o)
  BY <1>10, <1>11, <1>12, <1>13, <1>14, <1>15 DEF Ses!Open
<1> QED
  BY <1>8, <1>13, <1>16 DEF Ses!Next

(* A handler that leaves the sessions' states alone is no step of theirs.  *)
LEMMA SessionsKept ==
  ASSUME \A s \in Sid : /\ sess'[s].client = sess[s].client
                        /\ sess'[s].open = sess[s].open
                        /\ sess'[s].secured = sess[s].secured
  PROVE  UNCHANGED Ses!svars
<1>1. /\ {s \in Sid : sess'[s].client} = {s \in Sid : sess[s].client}
      /\ {s \in Sid : sess'[s].open} = {s \in Sid : sess[s].open}
      /\ {s \in Sid : sess'[s].secured} = {s \in Sid : sess[s].secured}
  OBVIOUS
<1> QED
  BY <1>1 DEF Ses!svars

(* Only pair-verify changes what Sessions knows of a session, and only to  *)
(* secure it: a session that is secured has a controller, and keeps one.   *)
LEMMA VerifySecures ==
  ASSUME IInv, NEW s \in Sid, NEW id, PairVerify3(s, id)
  PROVE  [Ses!Next]_(Ses!svars)
<1>1. /\ sess \in [Sid -> Session] /\ SecuredHasController
      /\ pairings \in Table /\ Orderly(pairings)
  BY DEF IInv, TypeOK, WellFormed
<1>2. Holders(pairings, id) # {} => Get(pairings, id) # 0
  BY <1>1, GetHolder DEF Live, Slot
<1>3. PICK ios \in {sess[s].ios, Get(pairings, id)} :
        /\ ios # sess[s].ios => Holders(pairings, id) # {}
        /\ sess' = [sess EXCEPT ![s].ios = ios, ![s].secured = (ios # 0)]
  BY DEF PairVerify3
<1>4. sess[s].secured => ios # 0
  BY <1>1, <1>2, <1>3 DEF SecuredHasController
<1>5. (ios # 0) \in BOOLEAN
  OBVIOUS
<1>6. /\ sess'[s].secured = (ios # 0) /\ sess'[s].open = sess[s].open
      /\ sess'[s].client = sess[s].client
      /\ \A t \in Sid : t # s => sess'[t] = sess[t]
  BY <1>1, <1>3, <1>5 DEF Session
<1>7. CASE ios = 0
  BY <1>1, <1>4, <1>6, <1>7, SessionsKept DEF Session
<1>8. CASE ios # 0
  <2>1. s \in {t \in Sid : sess[t].client}
    BY DEF PairVerify3, Served
  <2>2. {t \in Sid : sess'[t].secured} = {t \in Sid : sess[t].secured} \cup {s}
    BY <1>6, <1>8
  <2>3. /\ {t \in Sid : sess'[t].client} = {t \in Sid : sess[t].client}
        /\ {t \in Sid : sess'[t].open} = {t \in Sid : sess[t].open}
    BY <1>6
  <2>4. Ses!Secure(s)
    BY <2>1, <2>2, <2>3 DEF Ses!Secure
  <2>5. s \in Ses!Sid
    BY DEF Ses!Sid, Sid
  <2> QED
    BY <2>4, <2>5 DEF Ses!Next
<1> QED
  BY <1>7, <1>8

(* Each step of the server is a step of its sessions or leaves them alone. *)
LEMMA StepImplementsSessions ==
  ASSUME IInv, [Next]_vars
  PROVE  [Ses!Next]_(Ses!svars)
<1> DEFINE Implemented == [Ses!Next]_(Ses!svars)
<1>1. sess \in [Sid -> Session] /\ Ses!Sid = Sid
  BY DEF IInv, TypeOK, Ses!Sid, Sid
<1>2. CASE OpenSession
  BY <1>2, OpenOpens
<1>3. ASSUME NEW s \in Sid, CloseSession(s) PROVE Implemented
  <2>1. sess' = [sess EXCEPT ![s] = AfterClose(s)] /\ sess[s].client
    BY <1>3 DEF CloseSession
  <2>2. /\ ~sess'[s].client /\ ~sess'[s].open /\ ~sess'[s].secured
        /\ \A t \in Sid : t # s => sess'[t] = sess[t]
    BY <1>1, <2>1 DEF AfterClose, Closed
  <2>3. {t \in Sid : sess'[t].client} = {t \in Sid : sess[t].client} \ {s}
    BY <2>2
  <2>4. {t \in Sid : sess'[t].open} = {t \in Sid : sess[t].open} \ {s}
    BY <2>2
  <2>5. {t \in Sid : sess'[t].secured} = {t \in Sid : sess[t].secured} \ {s}
    BY <2>2
  <2>6. s \in {t \in Sid : sess[t].client}
    BY <2>1
  <2>7. Ses!Close(s)
    BY <2>3, <2>4, <2>5, <2>6 DEF Ses!Close
  <2> QED
    BY <1>1, <2>7 DEF Ses!Next
<1>4. ASSUME NEW s \in Sid, NEW id, PairVerify3(s, id) PROVE Implemented
  BY <1>4, VerifySecures
<1>5. ASSUME NEW s \in Sid, NEW key,
             \/ sess' = [sess EXCEPT ![s].key = key]
             \/ UNCHANGED sess
      PROVE  Implemented
  <2>1. \A t \in Sid : /\ sess'[t].client = sess[t].client
                       /\ sess'[t].open = sess[t].open
                       /\ sess'[t].secured = sess[t].secured
    BY <1>1, <1>5 DEF Session
  <2> QED
    BY <2>1, SessionsKept
<1>6. ASSUME NEW s \in Sid, Request(s) PROVE Implemented
  <2>1. CASE \/ PairSetup1(s) \/ PairSetupMalformed(s)
             \/ \E id \in ControllerId :
                  \/ PairingRemove(s, id)
                  \/ \E key \in ControllerKey :
                       \/ PairSetup5(s, id, key)
                       \/ \E perm \in LivePerm \cup {"None"} :
                            PairingAdd(s, id, key, perm)
    <3>1. UNCHANGED sess
      BY <2>1 DEF PairSetup1, PairSetupMalformed, PairingRemove, PairSetup5, PairingAdd
    <3> QED
      BY <1>5, <3>1
  <2>2. CASE PairVerify1(s) \/ \E proofOk \in BOOLEAN : PairSetup3(s, proofOk)
    BY <1>5, <2>2 DEF PairVerify1, PairSetup3
  <2>3. CASE \E id \in ControllerId : PairVerify3(s, id)
    BY <1>4, <2>3
  <2> QED
    BY <1>6, <2>1, <2>2, <2>3 DEF Request
<1>7. CASE Restart
  <2>1. sess' = [s \in Sid |-> [sess[s] EXCEPT !.client = FALSE]]
    BY <1>7 DEF Restart
  <2>2. \A s \in Sid : /\ ~sess'[s].client
                       /\ sess'[s].open = sess[s].open
                       /\ sess'[s].secured = sess[s].secured
    BY <1>1, <2>1 DEF Session
  <2>3. {s \in Sid : sess'[s].client} = {}
    BY <2>2
  <2>4. {s \in Sid : sess'[s].open} = {s \in Sid : sess[s].open}
    BY <2>2
  <2>5. {s \in Sid : sess'[s].secured} = {s \in Sid : sess[s].secured}
    BY <2>2
  <2>6. Ses!Restart
    BY <2>3, <2>4, <2>5 DEF Ses!Restart
  <2> QED
    BY <2>6 DEF Ses!Next
<1>8. CASE PowerCycle
  <2>1. sess' = [s \in Sid |-> Closed]
    BY <1>8 DEF PowerCycle
  <2>2. Ses!PowerCycle
    BY <2>1 DEF Ses!PowerCycle, Closed
  <2> QED
    BY <2>2 DEF Ses!Next
<1>9. CASE UNCHANGED vars
  BY <1>9, SessionsKept DEF vars
<1> QED
  BY <1>2, <1>3, <1>6, <1>7, <1>8, <1>9 DEF Next

(* The server's sessions live as Sessions says: no request opens or closes *)
(* one, or takes its secured state away.                                   *)
THEOREM ImplementsSessions == Spec => SessionsSpec
<1>1. Init => Ses!Init
  BY DEF Init, Ses!Init, Closed
<1>2. IInv /\ [Next]_vars => [Ses!Next]_(Ses!svars)
  BY StepImplementsSessions
<1> QED
  BY <1>1, <1>2, Invariant, PTL DEF Spec, SessionsSpec, Ses!Spec
=============================================================================
