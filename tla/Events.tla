-------------------------------- MODULE Events --------------------------------
(***************************************************************************)
(* Event notifications (Hap/HapDb.h).  A characteristic has, per session,  *)
(* the flags _v, notification enabled, and _e, notification pending.  The  *)
(* sessions' requests and polls are made by the network task; the          *)
(* accessory changes values of its own accord (a button, a sensor).        *)
(*                                                                         *)
(* Here all calls of the database are made one after the other, as the     *)
(* comment of class Db demands ("all access to Db object must be           *)
(* externally serialized").  EventsThreads has the threads of RpiHap.      *)
(*                                                                         *)
(* seen is a history variable: the value of a characteristic the           *)
(* controller of a session has last been told, wrote or read.  When it     *)
(* enables the notification it is taken to know the value.                 *)
(***************************************************************************)
EXTENDS Naturals, FiniteSets

CONSTANTS NSession,   \* sessions 0 .. NSession - 1
          NChar,      \* characteristics, in the order of the database
          Value,
          Room        \* entries that fit the buffer of one event message

ASSUME NSessionAssumption == NSession \in Nat
ASSUME NCharAssumption == NChar \in Nat
ASSUME RoomAssumption == Room \in Nat

Session == 0 .. NSession - 1
Char == 1 .. NChar

VARIABLES value,     \* of each characteristic
          ev,        \* per characteristic, the sessions with _v set
          pending,   \* per characteristic, the sessions with _e set
          open,      \* sessions that are open and secured
          seen

vars == <<value, ev, pending, open, seen>>

TypeOK ==
  /\ value \in [Char -> Value]
  /\ ev \in [Char -> SUBSET Session]
  /\ pending \in [Char -> SUBSET Session]
  /\ open \in SUBSET Session
  /\ seen \in [Char -> [Session -> Value]]

Init ==
  /\ value \in [Char -> Value]
  /\ ev = [c \in Char |-> {}]
  /\ pending = [c \in Char |-> {}]
  /\ open = {}
  /\ seen = [c \in Char |-> [s \in Session |-> value[c]]]
-----------------------------------------------------------------------------
(* Db::Open and Db::Close reset both flags of the session everywhere.      *)
Without(flags, s) == [c \in Char |-> flags[c] \ {s}]

Open(s) ==
  /\ s \notin open
  /\ open' = open \cup {s}
  /\ ev' = Without(ev, s)
  /\ pending' = Without(pending, s)
  /\ UNCHANGED <<value, seen>>

Close_KeepsPending(s) ==
  /\ s \in open
  /\ open' = open \ {s}
  /\ ev' = Without(ev, s)
  /\ UNCHANGED <<value, pending, seen>>
Close(s) ==
  /\ s \in open
  /\ open' = open \ {s}
  /\ ev' = Without(ev, s)
  /\ pending' = Without(pending, s)
  /\ UNCHANGED <<value, seen>>
-----------------------------------------------------------------------------
(* EventNotifications::SetEvent, whose first parameter is not used: all    *)
(* sessions that have the notification enabled, but the one that is named. *)
SetEvent(flags, enabled, except) == flags \cup (enabled \ except)

(* Characteristic::Simple::Value: an event only if the value changes.      *)
Marked_IfSame(flags, enabled, old, new, except) ==
  IF old = new THEN SetEvent(flags, enabled, except) ELSE flags
Marked(flags, enabled, old, new, except) ==
  IF old # new THEN SetEvent(flags, enabled, except) ELSE flags

(* A change made by the accessory.                                         *)
DeviceSet(c, v) ==
  /\ value' = [value EXCEPT ![c] = v]
  /\ pending' = [pending EXCEPT ![c] = Marked(@, ev[c], value[c], v, {})]
  /\ UNCHANGED <<ev, open, seen>>

(* Characteristic::Simple::Write, an element of a PUT: the notification is *)
(* enabled or disabled first, then the value is set, unless the write      *)
(* handler refuses it.  Disabling marks the other sessions.                *)
WriteEv(s, c, on) ==
  IF on THEN ev[c] \cup {s} ELSE ev[c] \ {s}

WriteBoth(s, c, enabled, flags, v) ==
  /\ ev' = [ev EXCEPT ![c] = enabled]
  /\ value' = [value EXCEPT ![c] = v]
  /\ pending' = [pending EXCEPT ![c] = Marked(flags, enabled, value[c], v, {s})]

(* "ev" without "value", or with a value that is refused.                  *)
WriteOnlyEv(s, c, on) ==
  /\ s \in open
  /\ ev' = [ev EXCEPT ![c] = WriteEv(s, c, on)]
  /\ pending' = [pending EXCEPT ![c] =
                   IF on THEN @ ELSE SetEvent(@, WriteEv(s, c, on), {})]
  /\ seen' = IF on /\ s \notin ev[c] THEN [seen EXCEPT ![c][s] = value[c]] ELSE seen
  /\ UNCHANGED <<value, open>>

WriteValue(s, c, v) ==
  /\ s \in open
  /\ WriteBoth(s, c, ev[c], pending[c], v)
  /\ seen' = [seen EXCEPT ![c][s] = v]
  /\ UNCHANGED open

WriteValueAndEv(s, c, on, v) ==
  /\ s \in open
  /\ WriteBoth(s, c, WriteEv(s, c, on),
               IF on THEN pending[c]
               ELSE SetEvent(pending[c], WriteEv(s, c, on), {}), v)
  /\ seen' = [seen EXCEPT ![c][s] = v]
  /\ UNCHANGED open

(* GET of some characteristics; the flags stay as they are.                *)
Read(s, chars) ==
  /\ s \in open
  /\ seen' = [c \in Char |-> IF c \in chars THEN [seen[c] EXCEPT ![s] = value[c]]
                             ELSE seen[c]]
  /\ UNCHANGED <<value, ev, pending, open>>
-----------------------------------------------------------------------------
(* Db::getEvents clears the flag of each characteristic it comes to and    *)
(* ends at the first entry that does not fit: then Poll sends nothing.     *)
Due(s) == {c \in Char : s \in pending[c]}
Reached(s) == {c \in Due(s) : Cardinality({d \in Due(s) : d < c}) <= Room}
Fits(s) == Cardinality(Due(s)) <= Room

Poll_AllCleared(s) ==
  /\ s \in open
  /\ Due(s) # {}
  /\ pending' = [c \in Char |-> IF c \in Reached(s) THEN {} ELSE pending[c]]
  /\ seen' = [c \in Char |-> IF Fits(s) /\ c \in Due(s)
                             THEN [seen[c] EXCEPT ![s] = value[c]] ELSE seen[c]]
  /\ UNCHANGED <<value, ev, open>>
Poll(s) ==
  /\ s \in open
  /\ Due(s) # {}
  /\ pending' = [c \in Char |-> IF c \in Reached(s) THEN pending[c] \ {s}
                                ELSE pending[c]]
  /\ seen' = [c \in Char |-> IF Fits(s) /\ c \in Due(s)
                             THEN [seen[c] EXCEPT ![s] = value[c]] ELSE seen[c]]
  /\ UNCHANGED <<value, ev, open>>

Request(s) ==
  \/ \E chars \in SUBSET Char : Read(s, chars)
  \/ \E c \in Char :
    \/ \E on \in BOOLEAN : WriteOnlyEv(s, c, on)
    \/ \E v \in Value : \/ WriteValue(s, c, v)
                        \/ \E on \in BOOLEAN : WriteValueAndEv(s, c, on, v)

Network == \E s \in Session : Open(s) \/ Close(s) \/ Request(s) \/ Poll(s)

Next ==
  \/ Network
  \/ \E c \in Char, v \in Value : DeviceSet(c, v)

Spec == Init /\ [][Next]_vars

(* The network task polls every session whenever select times out (see     *)
(* TcpServer): the traffic of the clients is supposed to pause again and   *)
(* again.                                                                  *)
FairSpec == Spec /\ \A s \in Session : WF_vars(Poll(s))
-----------------------------------------------------------------------------
(* A session that has the notification enabled knows the value of the      *)
(* characteristic, or is going to be told: no change is lost between the   *)
(* writes of other sessions, of the accessory, its own and the polls.      *)
SubscriberIsCurrent ==
  \A c \in Char : \A s \in open \cap ev[c] :
    s \in pending[c] \/ seen[c][s] = value[c]

(* Flags belong to the connection they were set on: the next connection    *)
(* that gets the session starts without any.                               *)
FlagsOfOpenSessions ==
  \A c \in Char : ev[c] \subseteq open /\ pending[c] \subseteq open

(* A session that has the notification enabled gets to know the value,     *)
(* however often it changes.                                               *)
SubscriberCatchesUp ==
  \A c \in Char, s \in Session :
    (s \in open /\ s \in ev[c] /\ seen[c][s] # value[c])
      ~> (s \notin open \/ s \notin ev[c] \/ seen[c][s] = value[c])
=============================================================================
