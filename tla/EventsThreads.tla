---------------------------- MODULE EventsThreads ----------------------------
(***************************************************************************)
(* Event notifications with the two threads of RpiHap/RpiHap.cpp: the      *)
(* thread of the light bulb sets values ("TODO: sync this thread with      *)
(* onWrites which are in TCP thread context") while the network task       *)
(* serves requests and polls.  Neither takes a lock.                       *)
(*                                                                         *)
(* Both run Characteristic::Simple::Value, here in the steps that touch    *)
(* shared memory: read the old value; store the new one; then SetEvent,    *)
(* which looks at _v of one session after the other and sets its _e.  A    *)
(* poll looks at _e, clears it, and reads the value it sends.              *)
(***************************************************************************)
EXTENDS Events

ASSUME SomeSessionAssumption == NSession # 0

VARIABLES at,     \* where each thread is, and with which arguments
          clean   \* history, per characteristic: its last change ran alone

tvars == <<vars, at, clean>>

Thread == {"network", "device"}
NoOne == NSession    \* the sid_invalid of a change the accessory makes

Idle == [pc |-> "idle"]
SetValue == [pc : {"read", "store", "look", "mark"}, c : Char, v : Value, old : Value,
             s : Session, except : Session \cup {NoOne}]
Polling == [pc : {"test", "clear", "send"}, c : Char, s : Session, was : BOOLEAN]

TTypeOK ==
  /\ TypeOK
  /\ at \in [Thread -> {Idle} \cup SetValue \cup Polling]
  /\ clean \in [Char -> BOOLEAN]

TInit ==
  /\ Init
  /\ at = [t \in Thread |-> Idle]
  /\ clean = [c \in Char |-> TRUE]

(* A step of a thread while the other one is at work on c spoils the       *)
(* change.                                                                 *)
Other(t) == CHOOSE o \in Thread : o # t
Touches(t, c) ==
  clean' = [clean EXCEPT ![c] = @ /\ (at[Other(t)] = Idle \/ at[Other(t)].c # c)]
Alone(t) == at[Other(t)] = Idle
-----------------------------------------------------------------------------
(* Value(v, except), begun by a change of the accessory or a PUT.          *)
Call(t, c, v, except) ==
  /\ at[t] = Idle
  /\ at' = [at EXCEPT ![t] = [pc |-> "read", c |-> c, v |-> v, old |-> v, s |-> 0,
                              except |-> except]]
  /\ clean' = [clean EXCEPT ![c] = (@ \/ v # value[c]) /\ Alone(t)]
  /\ UNCHANGED vars

DeviceChange(c, v) == Call("device", c, v, NoOne)
Put(s, c, v) == s \in open /\ Call("network", c, v, s)

ReadOld(t) ==
  /\ at[t].pc = "read"
  /\ at' = [at EXCEPT ![t].old = value[at[t].c], ![t].pc = "store"]
  /\ Touches(t, at[t].c)
  /\ UNCHANGED vars

Knows(s, c, v) == IF s \in Session THEN [seen EXCEPT ![c][s] = v] ELSE seen

Store(t) ==
  LET c == at[t].c IN
  /\ at[t].pc = "store"
  /\ value' = [value EXCEPT ![c] = at[t].v]
  /\ seen' = Knows(at[t].except, c, at[t].v)
  /\ at' = [at EXCEPT ![t] = IF at[t].old # at[t].v THEN [@ EXCEPT !.pc = "look"] ELSE Idle]
  /\ Touches(t, c)
  /\ UNCHANGED <<ev, pending, open>>

Following_Skips(t) ==
  IF at[t].s + 2 < NSession THEN [at[t] EXCEPT !.pc = "look", !.s = @ + 1] ELSE Idle
Following(t) ==
  IF at[t].s + 1 < NSession THEN [at[t] EXCEPT !.pc = "look", !.s = @ + 1] ELSE Idle

Look(t) ==
  LET s == at[t].s IN
  /\ at[t].pc = "look"
  /\ at' = [at EXCEPT ![t] = IF s # at[t].except /\ s \in ev[at[t].c]
                             THEN [@ EXCEPT !.pc = "mark"] ELSE Following(t)]
  /\ Touches(t, at[t].c)
  /\ UNCHANGED vars

Mark(t) ==
  /\ at[t].pc = "mark"
  /\ pending' = [pending EXCEPT ![at[t].c] = @ \cup {at[t].s}]
  /\ at' = [at EXCEPT ![t] = Following(t)]
  /\ Touches(t, at[t].c)
  /\ UNCHANGED <<value, ev, open, seen>>
-----------------------------------------------------------------------------
(* A poll of one characteristic, by the network task.  An entry of every   *)
(* characteristic fits the message.                                        *)
PollTest(s, c) ==
  /\ s \in open /\ at["network"] = Idle
  /\ at' = [at EXCEPT !["network"] = [pc |-> "clear", c |-> c, s |-> s,
                                      was |-> s \in pending[c]]]
  /\ Touches("network", c)
  /\ UNCHANGED vars

PollClear ==
  LET c == at["network"].c IN
  /\ at["network"].pc = "clear"
  /\ pending' = [pending EXCEPT ![c] = @ \ {at["network"].s}]
  /\ at' = [at EXCEPT !["network"] = IF @.was THEN [@ EXCEPT !.pc = "send"] ELSE Idle]
  /\ Touches("network", c)
  /\ UNCHANGED <<value, ev, open, seen>>

PollSend ==
  LET c == at["network"].c IN
  /\ at["network"].pc = "send"
  /\ seen' = Knows(at["network"].s, c, value[c])
  /\ at' = [at EXCEPT !["network"] = Idle]
  /\ Touches("network", c)
  /\ UNCHANGED <<value, ev, pending, open>>

(* The other calls of the network task, each taken as one step.            *)
NetworkCall(c) ==
  /\ at["network"] = Idle
  /\ \E s \in Session :
       \/ Open(s) \/ Close(s)
       \/ Read(s, {c})
       \/ \E on \in BOOLEAN : WriteOnlyEv(s, c, on)
  /\ clean' = [d \in Char |-> clean[d] /\ (Alone("network") \/ at["device"].c # d)]
  /\ UNCHANGED at

ValueStep(t) == ReadOld(t) \/ Store(t) \/ Look(t) \/ Mark(t)

TNext ==
  \/ \E c \in Char, v \in Value :
       DeviceChange(c, v) \/ \E s \in Session : Put(s, c, v)
  \/ \E t \in Thread : ValueStep(t)
  \/ \E s \in Session, c \in Char : PollTest(s, c)
  \/ PollClear \/ PollSend
  \/ \E c \in Char : NetworkCall(c)

TSpec == TInit /\ [][TNext]_tvars
-----------------------------------------------------------------------------
Done(c) == \A t \in Thread : at[t] = Idle \/ at[t].c # c
CurrentOf(c) ==
  \A s \in open \cap ev[c] : s \in pending[c] \/ seen[c][s] = value[c]

(* Hap/HapDb.h:1600 demands that "all access to Db object must be          *)
(* externally serialized"; it is not, and a change that meets a step of    *)
(* the other thread can be lost to a subscriber.  What that costs is       *)
(* bounded: once Value() has changed a characteristic without a step of    *)
(* the other thread in between, every subscriber of it is current again or *)
(* is going to be told, however the changes and polls before it were       *)
(* interleaved.                                                            *)
CurrentAfterCleanChange == \A c \in Char : clean[c] /\ Done(c) => CurrentOf(c)
=============================================================================
