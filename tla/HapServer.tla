------------------------------ MODULE HapServer ------------------------------
(***************************************************************************)
(* The HTTP server's session and pairing state (Hap/HapHttp.cpp), with the *)
(* network task that opens and closes its sessions and the configuration   *)
(* update of RpiHap/RpiHap.cpp.                                            *)
(*                                                                         *)
(* All sessions share one pairing table, one SRP exchange (the global srp) *)
(* and one configuration file.  A step is one request handled by           *)
(* Server::Process, or one call of the network task or of main: they are   *)
(* made one after the other by one thread.                                 *)
(*                                                                         *)
(* Cryptography: sess->key is modelled by what the controller at the other *)
(* end of the connection shares with it.  A message encrypted by that      *)
(* controller is accepted iff both ends hold the key of the same protocol. *)
(* Session::Open and Close leave the key: who connects may be the one who  *)
(* shares it.                                                              *)
(***************************************************************************)
EXTENDS PairingTable

CONSTANTS MaxHttpSessions,   \* sessions that can be served
          MaxAuthAttempts,   \* 100 in _pairSetup1
          MaxRestored        \* controllers whose file can be read, see Readable

ASSUME MaxHttpSessionsAssumption == MaxHttpSessions \in Nat \ {0}
ASSUME MaxAuthAttemptsAssumption == MaxAuthAttempts \in Nat
ASSUME MaxRestoredAssumption == MaxRestored \in Nat

(* Server::_sess has one slot more than there are sessions.                *)
Sid == 0 .. MaxHttpSessions
sid_max == MaxHttpSessions - 1
sid_invalid == MaxHttpSessions + 1

VARIABLES
  pairings,        \* the pairing table, Hap::Pairings::_db
  statusFlags,     \* TRUE: Bonjour::NotPaired is set
  file,            \* the configuration file
  sess,            \* Server::_sess, and whether a socket is bound to it
  srp_id,          \* the session that owns the SRP exchange
  srp_auth_count   \* uint8_t counter of _pairSetup1

vars == <<pairings, statusFlags, file, sess, srp_id, srp_auth_count>>

SessKey == {"none", "setup", "verify"}

Session == [client  : BOOLEAN,               \* a TCP client holds this sid
            open    : BOOLEAN,               \* _opened
            secured : BOOLEAN,
            ios     : Slot \cup {0},         \* record pointed to, 0 is null
            key     : SessKey]

Closed == [client |-> FALSE, open |-> FALSE, secured |-> FALSE, ios |-> 0,
           key |-> "none"]

File == [pairings : [Slot -> Controller], statusFlags : BOOLEAN]

TypeOK ==
  /\ pairings \in [Slot -> Controller]
  /\ statusFlags \in BOOLEAN
  /\ file \in File
  /\ sess \in [Sid -> Session]
  /\ srp_id \in 0 .. sid_max \cup {sid_invalid}
  /\ srp_auth_count \in 0 .. MaxAuthAttempts + 1

(* First start, without a file: defaults, saved by Config::Init.           *)
Init ==
  /\ pairings = BlankTable
  /\ statusFlags = TRUE
  /\ file = [pairings |-> BlankTable, statusFlags |-> TRUE]
  /\ sess = [s \in Sid |-> Closed]
  /\ srp_id = sid_invalid
  /\ srp_auth_count = 0
-----------------------------------------------------------------------------
(* Srp::Host::active, for any session and for one.                         *)
srp_active == srp_id # sid_invalid
srp_activeIn(s) == srp_id = s

(* Hap::config->Update as RpiHap.cpp sets it: the flag follows the count   *)
(* of pairings, and everything is saved.                                   *)
ConfigSave(db, flag) == file' = [pairings |-> Saved(db), statusFlags |-> flag]
ConfigUpdate(db) ==
  /\ pairings' = db
  /\ statusFlags' = (Count(db) = 0)
  /\ ConfigSave(db, Count(db) = 0)

KeepConfig == UNCHANGED <<pairings, statusFlags, file>>
KeepSetup == UNCHANGED <<srp_id, srp_auth_count>>

(* Sessions whose requests reach a handler: the overflow session's do not. *)
Served(s) == s <= sid_max /\ sess[s].client /\ sess[s].open
-----------------------------------------------------------------------------
(* The network task.                                                       *)

(* First data of a connection: Server::Open takes the first free slot.  On *)
(* the overflow slot Process returns false at once and the task closes the *)
(* connection, but Server::Close ignores that slot; with no slot left the  *)
(* connection is closed without a session.                                 *)
FreeSids == {s \in Sid : ~sess[s].open}
OpenedSid == IF FreeSids = {} THEN sid_invalid ELSE First(FreeSids)

OpenSession ==
  /\ OpenedSid # sid_invalid
  /\ sess' = [sess EXCEPT ![OpenedSid] =
                [client |-> OpenedSid <= sid_max, open |-> TRUE,
                 secured |-> FALSE, ios |-> 0, key |-> sess[OpenedSid].key]]
  /\ KeepConfig /\ KeepSetup

(* The socket is closed, fails or times out, or Process returned false:    *)
(* Server::Close also cancels an SRP exchange of the session.              *)
AfterClose(s) == [Closed EXCEPT !.key = sess[s].key]
CloseSession_KeepsSetup(s) ==
  /\ sess[s].client
  /\ sess' = [sess EXCEPT ![s] = AfterClose(s)]
  /\ KeepConfig /\ KeepSetup
CloseSession(s) ==
  /\ sess[s].client
  /\ sess' = [sess EXCEPT ![s] = AfterClose(s)]
  /\ srp_id' = IF srp_activeIn(s) THEN sid_invalid ELSE srp_id
  /\ UNCHANGED srp_auth_count
  /\ KeepConfig
-----------------------------------------------------------------------------
(* POST /pair-setup                                                        *)

(* What _pairSetup1 answers to a well-formed M1 of session s.              *)
PairSetup1Answer(s) ==
  IF Count(pairings) # 0 THEN "Unavailable"
  ELSE IF srp_auth_count > MaxAuthAttempts THEN "MaxTries"
  ELSE IF srp_active THEN "Busy"
  ELSE "Ok"

PairSetup1(s) ==
  /\ Served(s)
  /\ PairSetup1Answer(s) = "Ok"
  /\ srp_id' = s
  /\ srp_auth_count' = srp_auth_count + 1
  /\ UNCHANGED sess
  /\ KeepConfig

(* M3 derives the session key before it verifies the proof; a wrong proof  *)
(* leaves the exchange open.                                               *)
PairSetup3(s, proofOk) ==
  /\ Served(s)
  /\ srp_activeIn(s)
  /\ sess' = [sess EXCEPT ![s].key = IF proofOk THEN "setup" ELSE "none"]
  /\ KeepConfig /\ KeepSetup

(* M3 or M5 of the owner without a required item cancels the exchange.     *)
PairSetupMalformed(s) ==
  /\ Served(s)
  /\ srp_activeIn(s)
  /\ srp_id' = sid_invalid
  /\ UNCHANGED <<sess, srp_auth_count>>
  /\ KeepConfig

(* M5 with data that decrypts: the controller becomes an administrator and *)
(* the exchange ends.  Data that does not decrypt, or a table that takes   *)
(* no more records, leaves everything as it was.                           *)
PairSetup5_StaysOpen(s, id, key) ==
  /\ Served(s)
  /\ srp_activeIn(s)
  /\ sess[s].key = "setup"
  /\ CanAdd(pairings, id)
  /\ ConfigUpdate(Add(pairings, id, key, "Admin"))
  /\ UNCHANGED <<sess, srp_id, srp_auth_count>>
PairSetup5(s, id, key) ==
  /\ Served(s)
  /\ srp_activeIn(s)
  /\ sess[s].key = "setup"
  /\ CanAdd(pairings, id)
  /\ ConfigUpdate(Add(pairings, id, key, "Admin"))
  /\ srp_id' = sid_invalid
  /\ UNCHANGED <<sess, srp_auth_count>>
-----------------------------------------------------------------------------
(* POST /pair-verify                                                       *)

PairVerify1(s) ==
  /\ Served(s)
  /\ sess' = [sess EXCEPT ![s].key = "verify"]
  /\ KeepConfig /\ KeepSetup

(* M3 looks the controller up.  Process then takes the session as secured  *)
(* iff it has a controller, be it of this exchange or of an earlier one.   *)
PairVerify3_Restarts(s, id) ==
  /\ Served(s)
  /\ LET found == sess[s].key = "verify" /\ Holders(pairings, id) # {}
         ios == IF found THEN Get(pairings, id) ELSE 0
     IN  sess' = [sess EXCEPT ![s].ios = ios, ![s].secured = (ios # 0)]
  /\ KeepConfig /\ KeepSetup
PairVerify3(s, id) ==
  /\ Served(s)
  /\ LET found == sess[s].key = "verify" /\ Holders(pairings, id) # {}
         ios == IF found THEN Get(pairings, id) ELSE sess[s].ios
     IN  sess' = [sess EXCEPT ![s].ios = ios, ![s].secured = (ios # 0)]
  /\ KeepConfig /\ KeepSetup
-----------------------------------------------------------------------------
(* POST /pairings, on a secured session whose record is an administrator's *)

ByAdmin_AnyPermission(s) ==
  /\ Served(s)
  /\ sess[s].secured
ByAdmin(s) ==
  /\ Served(s)
  /\ sess[s].secured
  /\ pairings[sess[s].ios].perm = "Admin"

(* The permission is a byte that nothing checks: "Regular" stands for all  *)
(* but those of Admin and None.  With None the controller is not paired:   *)
(* an update drops it, a new record is free again.                         *)
PairingAdd(s, id, key, perm) ==
  /\ ByAdmin(s)
  /\ \/ /\ Holders(pairings, id) # {}
        /\ pairings[Get(pairings, id)].key = key
        /\ ConfigUpdate(Update(pairings, id, perm))
     \/ /\ Holders(pairings, id) = {}
        /\ CanAdd(pairings, id)
        /\ ConfigUpdate(Add(pairings, id, key, perm))
  /\ UNCHANGED sess
  /\ KeepSetup

(* The sessions of the removed controller stay as they are.                *)
PairingRemove(s, id) ==
  /\ ByAdmin(s)
  /\ ConfigUpdate(Remove(pairings, id))
  /\ UNCHANGED sess
  /\ KeepSetup
-----------------------------------------------------------------------------
(* main                                                                    *)

(* _restore parses the file with a parser of 100 tokens.  The file has 41  *)
(* of them and 4 per controller, so that it can be read with up to 14      *)
(* controllers, while MaxPairings is 16.  Else Config::Init falls back to  *)
(* the defaults, and saves them.                                           *)
Readable == Count(file.pairings) <= MaxRestored
Restore(db) == IF Readable THEN Restored(db, file.pairings) ELSE Reset(db)

(* The restart button: Tcp::Stop closes the sockets but no session, and    *)
(* the loop comes back with reset = true, so that Config::Init restores    *)
(* the file, resets and saves.                                             *)
Restart ==
  LET db == Reset(Restore(pairings))
  IN  /\ pairings' = db
      /\ statusFlags' = TRUE
      /\ ConfigSave(db, TRUE)
      /\ sess' = [s \in Sid |-> [sess[s] EXCEPT !.client = FALSE]]
      /\ KeepSetup

(* The process ends, for whatever reason, and is started again: Init       *)
(* restores the file into fresh memory.                                    *)
PowerCycle ==
  LET db == Restore(BlankTable)
      flag == Readable => file.statusFlags
  IN  /\ pairings' = db
      /\ statusFlags' = flag
      /\ ConfigSave(db, flag)
      /\ sess' = [s \in Sid |-> Closed]
      /\ srp_id' = sid_invalid
      /\ srp_auth_count' = 0

Request(s) ==
  \/ PairSetup1(s)
  \/ \E proofOk \in BOOLEAN : PairSetup3(s, proofOk)
  \/ PairSetupMalformed(s)
  \/ PairVerify1(s)
  \/ \E id \in ControllerId :
       \/ PairVerify3(s, id)
       \/ PairingRemove(s, id)
       \/ \E key \in ControllerKey :
            \/ PairSetup5(s, id, key)
            \/ \E perm \in LivePerm \cup {"None"} : PairingAdd(s, id, key, perm)

Next ==
  \/ OpenSession
  \/ \E s \in Sid : CloseSession(s) \/ Request(s)
  \/ Restart
  \/ PowerCycle

Spec == Init /\ [][Next]_vars
-----------------------------------------------------------------------------
(* A pair-setup exchange is open only while no controller is paired.       *)
(* _pairSetup3 and _pairSetup5 rely on it: only _pairSetup1 looks at the   *)
(* number of pairings, and requests of other sessions come in between.     *)
SetupOnUnpaired == srp_active => Live(pairings) = {}

(* The exchange belongs to an open session, so that closing that session   *)
(* ends it; an exchange without a session would keep pair-setup busy.      *)
SetupOwnerOpen == srp_active => sess[srp_id].open

(* The handlers of a secured session read through sess->ios unchecked.     *)
SecuredHasController ==
  \A s \in Sid : sess[s].secured => sess[s].open /\ sess[s].ios # 0

(* The advertised flag "not paired" says whether the table is empty: all   *)
(* that change the table call config->Update.                              *)
FlagMatches == statusFlags <=> Live(pairings) = {}

(* Between two requests the file holds what the memory holds, so that no   *)
(* acknowledged change is lost when the process ends.                      *)
FileIsCurrent ==
  file = [pairings |-> Saved(pairings), statusFlags |-> statusFlags]

(* The scans of the table agree (see Pairings), also after a restart put   *)
(* records read from the file in front of left-overs.                      *)
TableOrderly == Orderly(pairings)

(* A process that is started again knows the same controllers, with the    *)
(* same keys and permissions, as long as the file can be read; else it     *)
(* knows none, and never a part of them.                                   *)
PowerCycleKeepsPairings ==
  [][PowerCycle => \/ PairedMap(pairings)' = PairedMap(pairings)
                   \/ Count(pairings) > MaxRestored /\ Live(pairings)' = {}]_vars

(* Only closing ends the secured state: a failed pair-verify on a secured  *)
(* session does not fall back to plain text.                               *)
SecuredUntilClosed ==
  [][\A s \in Sid : sess[s].secured /\ sess'[s].open => sess'[s].secured]_vars

(* The controller whose record the session points to, while it is paired.  *)
ActsFor ==
  [s \in Sid |-> IF sess[s].ios \in Live(pairings) THEN pairings[sess[s].ios].id
                 ELSE NoId]
Orphans == {s \in Sid : sess[s].ios # 0 /\ sess[s].ios \notin Live(pairings)}

(* The table is changed by pair-setup on an empty table, by the reset, and *)
(* else only on a session whose own controller is an administrator at that *)
(* moment.  That is the controller of its last pair-verify, and stays so   *)
(* while others are added and removed; only after the controller itself is *)
(* removed, the session acts for the next one that gets its record.        *)
Auth == INSTANCE Authority WITH paired <- PairedMap(pairings),
                                asker <- ActsFor, orphans <- Orphans
AuthoritySpec == Auth!AuthoritySpec

(* Its sessions live as the network task sees them, and as Sessions says:  *)
(* a request, whatever it does, opens and closes none, secures only its    *)
(* own, and no step but closing takes the secured state away.              *)
Ses == INSTANCE Sessions WITH held <- {s \in Sid : sess[s].client},
                              open <- {s \in Sid : sess[s].open},
                              secured <- {s \in Sid : sess[s].secured}
SessionsSpec == Ses!Spec
-----------------------------------------------------------------------------
(* Hap/HapPairing.h:11: "pairings DB, persistent across reboots".          *)
PairingsArePersistent ==
  [][PowerCycle => PairedMap(pairings)' = PairedMap(pairings)]_vars
=============================================================================
