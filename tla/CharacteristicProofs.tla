------------------------ MODULE CharacteristicProofs ------------------------
(***************************************************************************)
(* Proofs about the characteristics: Events, Db, EventsThreads, LightBulb. *)
(*                                                                         *)
(* First Events, for every number of sessions, characteristics and values. *)
(* Then Db, for every tree whose ids lead back to where they come from,    *)
(* and for any numbers of sessions, characteristics and elements: requests,*)
(* worked off element by element, do to the characteristics what Events    *)
(* says, so no change is lost to a subscriber; and the answers to a PUT    *)
(* and a GET are true.                                                     *)
(*                                                                         *)
(* Last EventsThreads and LightBulb, for every number of sessions and      *)
(* characteristics and every scale.  A change that runs alone makes up for *)
(* what unlocked ones lost: while it runs, what the invariant CleanInv     *)
(* says of it depends on where it is.                                      *)
(***************************************************************************)
EXTENDS Db, LightBulb, FiniteSetTheorems, TLAPS

Invariant == TypeOK /\ FlagsOfOpenSessions /\ SubscriberIsCurrent

(* The event message has room for an entry of every characteristic.        *)
RoomForAll == NChar <= Room

(* Then a message always fits.                                             *)
LEMMA AlwaysFits ==
  ASSUME RoomForAll, NEW s
  PROVE  Fits(s)
<1>1. IsFiniteSet(1 .. NChar) /\ Cardinality(1 .. NChar) = NChar
  <2>1. NChar \in Int
    BY NCharAssumption
  <2>2. (IF 1 > NChar THEN 0 ELSE NChar - 1 + 1) = NChar
    BY NCharAssumption
  <2> QED
    BY <2>1, <2>2, FS_Interval
<1>2. Due(s) \in SUBSET (1 .. NChar)
  BY DEF Due, Char
<1>3. IsFiniteSet(Due(s)) /\ Cardinality(Due(s)) <= Cardinality(1 .. NChar)
  BY <1>1, <1>2, FS_Subset
<1>4. Cardinality(Due(s)) \in Nat
  BY <1>3, FS_CardinalityType
<1> QED
  BY <1>1, <1>3, <1>4, RoomAssumption, NCharAssumption DEF Fits, RoomForAll
-----------------------------------------------------------------------------
(* The flags after a change keep their type, and gain only sessions that   *)
(* have the notification enabled; those that do not gain it are excepted,  *)
(* or the value is the old one.                                            *)
LEMMA MarkedFlags ==
  ASSUME NEW flags \in SUBSET Session, NEW enabled \in SUBSET Session,
         NEW old, NEW new, NEW except
  PROVE  /\ Marked(flags, enabled, old, new, except) \in SUBSET Session
         /\ flags \subseteq Marked(flags, enabled, old, new, except)
         /\ Marked(flags, enabled, old, new, except) \subseteq flags \cup enabled
         /\ old # new => enabled \ except \subseteq Marked(flags, enabled, old, new, except)
BY DEF Marked, SetEvent

LEMMA TypeStep == TypeOK /\ [Next]_vars => TypeOK'
<1> SUFFICES ASSUME TypeOK, [Next]_vars PROVE TypeOK'
  OBVIOUS
<1> USE DEF TypeOK
<1>1. ASSUME NEW s \in Session, Open(s) PROVE TypeOK'
  BY <1>1 DEF Open, Without
<1>2. ASSUME NEW s \in Session, Close(s) PROVE TypeOK'
  BY <1>2 DEF Close, Without
<1>3. ASSUME NEW s \in Session, NEW chars \in SUBSET Char, Read(s, chars) PROVE TypeOK'
  BY <1>3 DEF Read
<1>4. ASSUME NEW s \in Session, NEW c \in Char, NEW on \in BOOLEAN, WriteOnlyEv(s, c, on)
      PROVE  TypeOK'
  BY <1>4 DEF WriteOnlyEv, WriteEv, SetEvent
<1>5. ASSUME NEW s \in Session, NEW c \in Char, NEW v \in Value, WriteValue(s, c, v)
      PROVE  TypeOK'
  <2>1. Marked(pending[c], ev[c], value[c], v, {s}) \in SUBSET Session
    BY MarkedFlags
  <2> QED
    BY <1>5, <2>1 DEF WriteValue, WriteBoth
<1>6. ASSUME NEW s \in Session, NEW c \in Char, NEW on \in BOOLEAN, NEW v \in Value,
             WriteValueAndEv(s, c, on, v)
      PROVE  TypeOK'
  <2> DEFINE flags == IF on THEN pending[c]
                      ELSE SetEvent(pending[c], WriteEv(s, c, on), {})
  <2>1. WriteEv(s, c, on) \in SUBSET Session
    BY DEF WriteEv
  <2>2. flags \in SUBSET Session
    BY <2>1 DEF SetEvent
  <2>3. Marked(flags, WriteEv(s, c, on), value[c], v, {s}) \in SUBSET Session
    BY <2>1, <2>2, MarkedFlags
  <2> QED
    BY <1>6, <2>1, <2>3 DEF WriteValueAndEv, WriteBoth
<1>7. ASSUME NEW s \in Session, Poll(s) PROVE TypeOK'
  BY <1>7 DEF Poll
<1>8. ASSUME NEW c \in Char, NEW v \in Value, DeviceSet(c, v) PROVE TypeOK'
  <2>1. Marked(pending[c], ev[c], value[c], v, {}) \in SUBSET Session
    BY MarkedFlags
  <2> QED
    BY <1>8, <2>1 DEF DeviceSet
<1>9. CASE UNCHANGED vars
  BY <1>9 DEF vars
<1> QED
  BY <1>1, <1>2, <1>3, <1>4, <1>5, <1>6, <1>7, <1>8, <1>9 DEF Next, Network, Request

LEMMA FlagsStep ==
  TypeOK /\ FlagsOfOpenSessions /\ [Next]_vars => FlagsOfOpenSessions'
<1> SUFFICES ASSUME TypeOK, FlagsOfOpenSessions, [Next]_vars
             PROVE  FlagsOfOpenSessions'
  OBVIOUS
<1> USE DEF TypeOK, FlagsOfOpenSessions
<1>1. ASSUME NEW s \in Session, Open(s) PROVE FlagsOfOpenSessions'
  BY <1>1 DEF Open, Without
<1>2. ASSUME NEW s \in Session, Close(s) PROVE FlagsOfOpenSessions'
  BY <1>2 DEF Close, Without
<1>3. ASSUME NEW s \in Session, NEW chars \in SUBSET Char, Read(s, chars) PROVE FlagsOfOpenSessions'
  BY <1>3 DEF Read
<1>4. ASSUME NEW s \in Session, NEW c \in Char, NEW on \in BOOLEAN, WriteOnlyEv(s, c, on)
      PROVE  FlagsOfOpenSessions'
  BY <1>4 DEF WriteOnlyEv, WriteEv, SetEvent
<1>5. ASSUME NEW s \in Session, NEW c \in Char, NEW v \in Value, WriteValue(s, c, v)
      PROVE  FlagsOfOpenSessions'
  <2>1. Marked(pending[c], ev[c], value[c], v, {s}) \subseteq pending[c] \cup ev[c]
    BY MarkedFlags
  <2> QED
    BY <1>5, <2>1 DEF WriteValue, WriteBoth
<1>6. ASSUME NEW s \in Session, NEW c \in Char, NEW on \in BOOLEAN, NEW v \in Value,
             WriteValueAndEv(s, c, on, v)
      PROVE  FlagsOfOpenSessions'
  <2> DEFINE flags == IF on THEN pending[c]
                      ELSE SetEvent(pending[c], WriteEv(s, c, on), {})
  <2>1. WriteEv(s, c, on) \in SUBSET Session /\ WriteEv(s, c, on) \subseteq open
    BY <1>6 DEF WriteEv, WriteValueAndEv
  <2>2. flags \in SUBSET Session /\ flags \subseteq open
    BY <2>1 DEF SetEvent
  <2>3. Marked(flags, WriteEv(s, c, on), value[c], v, {s})
          \subseteq flags \cup WriteEv(s, c, on)
    BY <2>1, <2>2, MarkedFlags
  <2> QED
    BY <1>6, <2>1, <2>2, <2>3 DEF WriteValueAndEv, WriteBoth
<1>7. ASSUME NEW s \in Session, Poll(s) PROVE FlagsOfOpenSessions'
  BY <1>7 DEF Poll
<1>8. ASSUME NEW c \in Char, NEW v \in Value, DeviceSet(c, v) PROVE FlagsOfOpenSessions'
  <2>1. Marked(pending[c], ev[c], value[c], v, {}) \subseteq pending[c] \cup ev[c]
    BY MarkedFlags
  <2> QED
    BY <1>8, <2>1 DEF DeviceSet
<1>9. CASE UNCHANGED vars
  BY <1>9 DEF vars
<1> QED
  BY <1>1, <1>2, <1>3, <1>4, <1>5, <1>6, <1>7, <1>8, <1>9 DEF Next, Network, Request
-----------------------------------------------------------------------------
(* What SubscriberIsCurrent says of one characteristic and session.        *)
Current(c, s) ==
  s \in open /\ s \in ev[c] => s \in pending[c] \/ seen[c][s] = value[c]

LEMMA CurrentStep ==
  RoomForAll /\ TypeOK /\ SubscriberIsCurrent /\ [Next]_vars => SubscriberIsCurrent'
<1> SUFFICES ASSUME RoomForAll, TypeOK, SubscriberIsCurrent, [Next]_vars
             PROVE  SubscriberIsCurrent'
  OBVIOUS
<1>t. TypeOK'
  BY TypeStep
<1> SUFFICES ASSUME NEW d \in Char, NEW t \in Session PROVE Current(d, t)'
  BY <1>t DEF SubscriberIsCurrent, Current, TypeOK
<1>0. Current(d, t)
  BY DEF SubscriberIsCurrent, Current
<1> USE DEF TypeOK
<1>1. ASSUME NEW s \in Session, Open(s) PROVE Current(d, t)'
  BY <1>0, <1>1 DEF Open, Without, Current
<1>2. ASSUME NEW s \in Session, Close(s) PROVE Current(d, t)'
  BY <1>0, <1>2 DEF Close, Without, Current
<1>3. ASSUME NEW s \in Session, NEW chars \in SUBSET Char, Read(s, chars) PROVE Current(d, t)'
  BY <1>0, <1>3 DEF Read, Current
<1>4. ASSUME NEW s \in Session, NEW c \in Char, NEW on \in BOOLEAN, WriteOnlyEv(s, c, on)
      PROVE  Current(d, t)'
  BY <1>0, <1>4 DEF WriteOnlyEv, WriteEv, SetEvent, Current
<1>5. ASSUME NEW s \in Session, NEW c \in Char, NEW v \in Value, WriteValue(s, c, v)
      PROVE  Current(d, t)'
  <2> DEFINE new == Marked(pending[c], ev[c], value[c], v, {s})
  <2>1. pending[c] \subseteq new /\ (value[c] # v => ev[c] \ {s} \subseteq new)
    BY MarkedFlags
  <2> HIDE DEF new
  <2>2. /\ ev' = [ev EXCEPT ![c] = ev[c]]
        /\ value' = [value EXCEPT ![c] = v]
        /\ pending' = [pending EXCEPT ![c] = new]
        /\ seen' = [seen EXCEPT ![c][s] = v]
        /\ open' = open
    BY <1>5 DEF WriteValue, WriteBoth, new
  <2> QED
    BY <1>0, <2>1, <2>2 DEF Current
<1>6. ASSUME NEW s \in Session, NEW c \in Char, NEW on \in BOOLEAN, NEW v \in Value,
             WriteValueAndEv(s, c, on, v)
      PROVE  Current(d, t)'
  <2> DEFINE enabled == WriteEv(s, c, on)
             flags == IF on THEN pending[c] ELSE SetEvent(pending[c], enabled, {})
             new == Marked(flags, enabled, value[c], v, {s})
  <2>1. enabled \in SUBSET Session /\ enabled \ {s} = ev[c] \ {s}
    BY DEF WriteEv
  <2>2. flags \in SUBSET Session /\ pending[c] \subseteq flags
    BY <2>1 DEF SetEvent
  <2>3. flags \subseteq new /\ (value[c] # v => enabled \ {s} \subseteq new)
    BY <2>1, <2>2, MarkedFlags
  <2>4. /\ ev' = [ev EXCEPT ![c] = enabled]
        /\ value' = [value EXCEPT ![c] = v]
        /\ pending' = [pending EXCEPT ![c] = new]
        /\ seen' = [seen EXCEPT ![c][s] = v]
        /\ open' = open
    BY <1>6 DEF WriteValueAndEv, WriteBoth
  <2> HIDE DEF new, flags, enabled
  <2> QED
    BY <1>0, <2>1, <2>2, <2>3, <2>4 DEF Current
<1>7. ASSUME NEW s \in Session, Poll(s) PROVE Current(d, t)'
  <2>1. Fits(s)
    BY AlwaysFits
  <2>2. pending'[d] = pending[d] \/ pending'[d] = pending[d] \ {s}
    BY <1>7 DEF Poll
  <2>3. seen'[d] = IF s \in pending[d] THEN [seen[d] EXCEPT ![s] = value[d]] ELSE seen[d]
    BY <1>7, <2>1 DEF Poll, Due
  <2>4. UNCHANGED <<value, ev, open>>
    BY <1>7 DEF Poll
  <2> QED
    BY <1>0, <2>2, <2>3, <2>4 DEF Current
<1>8. ASSUME NEW c \in Char, NEW v \in Value, DeviceSet(c, v) PROVE Current(d, t)'
  <2> DEFINE new == Marked(pending[c], ev[c], value[c], v, {})
  <2>1. pending[c] \subseteq new /\ (value[c] # v => ev[c] \ {} \subseteq new)
    BY MarkedFlags
  <2> HIDE DEF new
  <2>2. /\ value' = [value EXCEPT ![c] = v]
        /\ pending' = [pending EXCEPT ![c] = new]
        /\ UNCHANGED <<ev, open, seen>>
    BY <1>8 DEF DeviceSet, new
  <2> QED
    BY <1>0, <2>1, <2>2 DEF Current
<1>9. CASE UNCHANGED vars
  BY <1>0, <1>9 DEF vars, Current
<1> QED
  BY <1>1, <1>2, <1>3, <1>4, <1>5, <1>6, <1>7, <1>8, <1>9 DEF Next, Network, Request
-----------------------------------------------------------------------------
LEMMA InitInvariant == Init => Invariant
BY DEF Init, Invariant, TypeOK, FlagsOfOpenSessions, SubscriberIsCurrent

(* The variables keep their types.                                         *)
THEOREM TypeCorrect == Spec => []TypeOK
<1>1. Init => TypeOK
  BY InitInvariant DEF Invariant
<1> QED
  BY <1>1, TypeStep, PTL DEF Spec

(* However many sessions there are, the flags of a session are those its   *)
(* present connection has set: Db::Open and Db::Close reset both.          *)
THEOREM FlagsAreOfOpenSessions == Spec => []FlagsOfOpenSessions
<1>1. Init => FlagsOfOpenSessions
  BY InitInvariant DEF Invariant
<1> QED
  BY <1>1, FlagsStep, TypeCorrect, PTL DEF Spec

(* When an event message has room for all characteristics, every session   *)
(* that has a notification enabled knows the value or is going to be told, *)
(* for any numbers of sessions, characteristics and values.                *)
THEOREM NoChangeIsLost == RoomForAll => (Spec => []SubscriberIsCurrent)
<1> SUFFICES ASSUME RoomForAll PROVE Spec => []SubscriberIsCurrent
  OBVIOUS
<1>1. Init => SubscriberIsCurrent
  BY InitInvariant DEF Invariant
<1>2. TypeOK /\ SubscriberIsCurrent /\ [Next]_vars => SubscriberIsCurrent'
  BY CurrentStep
<1> QED
  BY <1>1, <1>2, TypeCorrect, PTL DEF Spec
-----------------------------------------------------------------------------
(* No count of a request is larger than the number of its elements.        *)
Counted ==
  /\ rq \in PutRequest => rq.err <= rq.n /\ rq.met <= rq.n /\ rq.stored <= rq.n
  /\ rq \in GetRequest => rq.err <= rq.n /\ rq.blamed <= rq.n

RqOK == rq \in {NoRequest} \cup PutRequest \cup GetRequest

(* What a GET has found so far.  Nobody sets the status of its rd_prm back *)
(* to Success, so once it is something else an element has failed that is  *)
(* not blamed without reason.                                              *)
ReadSoFar ==
  rq \in GetRequest =>
    /\ \A c \in rq.got : Readable(c)
    /\ rq.status = "Success" => rq.err = 0 /\ rq.blamed = 0
    /\ rq.status # "Success" => rq.blamed < rq.err

DbInvariant == RqOK /\ Counted /\ PutAnswerIsTrue /\ ReadSoFar

LEMMA OneIsCount == ASSUME NEW condition PROVE One(condition) \in {0, 1}
BY DEF One

LEMMA Shapes ==
  ASSUME RqOK
  PROVE  /\ rq.op = "PUT" => rq \in PutRequest
         /\ rq.op = "GET" => rq \in GetRequest
BY DEF RqOK, PutRequest, GetRequest, NoRequest

(* A step of Db is one of Events, or leaves its variables alone.           *)
LEMMA StepImplements ==
  ASSUME Identified, RqOK, [DbNext]_dvars
  PROVE  [Next]_vars
<1>1. ASSUME NEW c \in Char \cup {NoChar}, NEW v \in Value \cup {Absent, Bad},
             NEW e, NEW fits, PutElement(c, v, e, fits)
      PROVE  [Next]_vars
  <2>1. rq.s \in Session /\ Target[c] = c
    BY <1>1, Shapes DEF PutElement, PutRequest, Identified
  <2>2. Apply(rq.s, c, v, e)
    BY <1>1, <2>1 DEF PutElement
  <2>3. c # NoChar => c \in Char
    OBVIOUS
  <2>4. CASE UNCHANGED vars
    BY <2>4
  <2>5. CASE c # NoChar /\ WriteOnlyEv(rq.s, c, e = "on")
    BY <2>1, <2>3, <2>5 DEF Next, Network, Request
  <2>6. CASE c # NoChar /\ Stores(c, v, e) /\ WriteValue(rq.s, c, v)
    BY <2>1, <2>3, <2>6 DEF Next, Network, Request, Stores
  <2>7. CASE c # NoChar /\ Stores(c, v, e) /\ WriteValueAndEv(rq.s, c, e = "on", v)
    BY <2>1, <2>3, <2>7 DEF Next, Network, Request, Stores
  <2> QED
    BY <2>2, <2>4, <2>5, <2>6, <2>7 DEF Apply
<1>2. ASSUME NEW s \in Session,
             \/ StartPut(s) \/ StartGet(s) \/ GetAccessories(s)
             \/ Between(Open(s)) \/ Between(Close(s)) \/ Between(Poll(s))
      PROVE  [Next]_vars
  BY <1>2 DEF StartPut, StartGet, GetAccessories, Between, Next, Network, Request
<1>3. ASSUME NEW c \in Char, NEW v \in Possible[c], Between(DeviceSet(c, v))
      PROVE  [Next]_vars
  BY <1>3, PossibleAssumption DEF Between, Next
<1>4. CASE PutEnd \/ GetMalformed
  BY <1>4 DEF PutEnd, GetMalformed
<1>5. CASE GetEnd
  BY <1>5, Shapes DEF GetEnd, GetRequest, Next, Network, Request
<1>6. ASSUME NEW c, NEW fits, GetElement(c, fits) PROVE [Next]_vars
  BY <1>6 DEF GetElement
<1>7. CASE Element
  <2>1. PICK c \in Char \cup {NoChar}, fits \in BOOLEAN :
          \/ GetElement(c, fits)
          \/ \E v \in (IF c = NoChar THEN {} ELSE Possible[c]) \cup {Absent, Bad},
                e \in {"on", "off", Absent} : PutElement(c, v, e, fits)
    BY <1>7 DEF Element
  <2>2. (IF c = NoChar THEN {} ELSE Possible[c]) \subseteq Value
    BY PossibleAssumption
  <2> QED
    BY <1>1, <1>6, <2>1, <2>2
<1>8. CASE UNCHANGED dvars
  BY <1>8 DEF dvars
<1> QED
  BY <1>2, <1>3, <1>4, <1>5, <1>7, <1>8 DEF DbNext, Work, End

(* An element that PutStatus reports as written has all it asked for, and  *)
(* one that it reports as failed has stored no value.                      *)
LEMMA StatusIsTrue ==
  ASSUME TypeOK, NEW s \in Session, NEW c \in Char \cup {NoChar},
         NEW v \in Value \cup {Absent, Bad}, NEW e \in {"on", "off", Absent},
         Apply(s, c, v, e)
  PROVE  /\ PutStatus(c, v, e) = "Success" => IsMet(s, c, v, e)
         /\ PutStatus(c, v, e) # "Success" => ~(c # NoChar /\ Stores(c, v, e))
<1>1. CASE c = NoChar
  BY <1>1 DEF PutStatus
<1>2. CASE c # NoChar
  <2>1. c \in Char
    BY <1>2
  <2>2. PutStatus(c, v, e) # "Success" => ~Stores(c, v, e)
    BY <2>1, <1>2, HandledAssumption, BadAssumption
    DEF PutStatus, Stores, EvStatus, Can, Absent, Bad
  <2>3. ASSUME PutStatus(c, v, e) = "Success" PROVE IsMet(s, c, v, e)
    <3>1. v # Bad /\ (v \in Value => Can(c, "PairedWrite"))
      BY <2>3, <1>2, BadAssumption DEF PutStatus, Absent, Bad
    <3>2. EvStatus(c, e) = "Success"
      BY <2>3, <3>1, <1>2, BadAssumption DEF PutStatus, Absent, Bad
    <3>3. /\ v \in Value => Stores(c, v, e)
          /\ e # Absent => Subscribes(c, e)
      BY <3>1, <3>2 DEF Stores, EvStatus, Subscribes
    <3>4. e # Absent => e \in {"on", "off"}
      OBVIOUS
    <3>5. CASE ~Subscribes(c, e) /\ ~Stores(c, v, e)
      BY <3>1, <3>3, <3>5, <1>2 DEF IsMet
    <3>6. CASE Subscribes(c, e) /\ ~Stores(c, v, e)
      <4>1. WriteOnlyEv(s, c, e = "on")
        BY <3>6, <1>2 DEF Apply
      <4>2. ev'[c] = WriteEv(s, c, e = "on")
        BY <4>1, <2>1 DEF WriteOnlyEv, TypeOK
      <4> QED
        BY <4>2, <3>1, <3>3, <3>6, <1>2 DEF IsMet, WriteEv, Subscribes
    <3>7. CASE ~Subscribes(c, e) /\ Stores(c, v, e)
      <4>1. WriteValue(s, c, v)
        BY <3>7, <1>2 DEF Apply
      <4>2. value'[c] = v
        BY <4>1, <2>1 DEF WriteValue, WriteBoth, TypeOK
      <4> QED
        BY <4>2, <3>1, <3>3, <3>7, <1>2 DEF IsMet
    <3>8. CASE Subscribes(c, e) /\ Stores(c, v, e)
      <4>1. WriteValueAndEv(s, c, e = "on", v)
        BY <3>8, <1>2 DEF Apply
      <4>2. value'[c] = v /\ ev'[c] = WriteEv(s, c, e = "on")
        BY <4>1, <2>1 DEF WriteValueAndEv, WriteBoth, TypeOK
      <4> QED
        BY <4>2, <3>1, <1>2 DEF IsMet, WriteEv
    <3> QED
      BY <3>5, <3>6, <3>7, <3>8
  <2> QED
    BY <2>2, <2>3
<1> QED
  BY <1>1, <1>2

LEMMA PutElementStep ==
  ASSUME Identified, TypeOK, DbInvariant,
         NEW c \in Char \cup {NoChar}, NEW v \in Value \cup {Absent, Bad},
         NEW e \in {"on", "off", Absent}, NEW fits \in BOOLEAN,
         PutElement(c, v, e, fits)
  PROVE  DbInvariant'
<1> USE DEF DbInvariant
<1>1. CASE ~fits
  BY <1>1, Shapes DEF PutElement, RqOK, Counted, PutAnswerIsTrue, ReadSoFar, NoRequest, PutRequest, GetRequest
<1>2. CASE fits
  <2> DEFINE err == One(PutStatus(c, v, e) # "Success")
             met == One(IsMet(rq.s, c, v, e))
             stored == One(c # NoChar /\ Stores(c, v, e))
  <2>1. rq \in PutRequest /\ rq.n < MaxElements /\ Target[c] = c
    BY <1>2, Shapes DEF PutElement, Identified
  <2>2. err \in {0, 1} /\ met \in {0, 1} /\ stored \in {0, 1}
    BY OneIsCount
  <2>3. 1 - err <= met /\ stored <= 1 - err
    <3>1. rq.s \in Session /\ Apply(rq.s, c, v, e)
      BY <2>1, <1>2 DEF PutElement, PutRequest
    <3> QED
      BY <3>1, StatusIsTrue DEF One
  <2>4. rq' = [rq EXCEPT !.n = @ + 1, !.err = @ + err, !.met = @ + met,
                         !.stored = @ + stored]
    BY <2>1, <1>2 DEF PutElement
  <2> HIDE DEF err, met, stored
  <2>5. /\ rq.n \in Nat /\ rq.err \in Nat /\ rq.met \in Nat /\ rq.stored \in Nat
        /\ rq.n <= MaxElements /\ rq.err <= rq.n /\ rq.met <= rq.n /\ rq.stored <= rq.n
        /\ rq.n - rq.err <= rq.met /\ rq.stored <= rq.n - rq.err
    BY <2>1, MaxElementsAssumption DEF PutRequest, Counted, Count, PutAnswerIsTrue
  <2>6. /\ rq'.n = rq.n + 1 /\ rq'.err = rq.err + err
        /\ rq'.met = rq.met + met /\ rq'.stored = rq.stored + stored
    BY <2>1, <2>4 DEF PutRequest
  <2>7. rq' \in PutRequest
    <3>1. /\ rq.n + 1 \in Count /\ rq.err + err \in Count
          /\ rq.met + met \in Count /\ rq.stored + stored \in Count
      BY <2>1, <2>2, <2>5, MaxElementsAssumption DEF Count, PutRequest
    <3> QED
      BY <2>1, <2>4, <3>1 DEF PutRequest
  <2>8. RqOK'
    BY <2>7 DEF RqOK
  <2>9. rq' \notin GetRequest
    BY <2>7 DEF PutRequest, GetRequest
  <2>10. Counted'
    BY <2>2, <2>5, <2>6, <2>7, <2>9 DEF Counted
  <2>11. /\ rq'.n - rq'.err <= rq'.met
         /\ rq'.stored <= rq'.n - rq'.err
    BY <2>2, <2>3, <2>5, <2>6
  <2>12. PutAnswerIsTrue'
    <3>1. rq'.n \in Nat /\ rq'.err \in Nat /\ rq'.met \in Nat /\ rq'.stored \in Nat
      BY <2>7, MaxElementsAssumption DEF PutRequest, Count
    <3> QED
      BY <2>10, <2>11, <2>7, <3>1 DEF PutAnswerIsTrue, Answer, Counted
  <2>13. ReadSoFar'
    BY <2>9 DEF ReadSoFar
  <2> QED
    BY <2>8, <2>10, <2>12, <2>13
<1> QED
  BY <1>1, <1>2

LEMMA InvariantStep ==
  ASSUME Identified, TypeOK, DbInvariant, [DbNext]_dvars
  PROVE  DbInvariant'
<1> USE DEF DbInvariant
<1>0. ASSUME rq' = NoRequest PROVE DbInvariant'
  BY <1>0 DEF RqOK, Counted, PutAnswerIsTrue, ReadSoFar, NoRequest, PutRequest, GetRequest
<1>1. ASSUME rq' = rq PROVE DbInvariant'
  BY <1>1 DEF RqOK, Counted, PutAnswerIsTrue, ReadSoFar, Answer
<1>2. ASSUME NEW s \in Session, StartPut(s) PROVE DbInvariant'
  BY <1>2, MaxElementsAssumption
  DEF StartPut, RqOK, Counted, PutAnswerIsTrue, ReadSoFar, Answer, PutRequest, GetRequest, Count
<1>3. ASSUME NEW s \in Session, StartGet(s) PROVE DbInvariant'
  BY <1>3, MaxElementsAssumption
  DEF StartGet, RqOK, Counted, PutAnswerIsTrue, ReadSoFar, PutRequest, GetRequest, Count
<1>4. ASSUME NEW c \in Char \cup {NoChar}, NEW fits, GetElement(c, fits)
      PROVE  DbInvariant'
  <2>1. CASE ~fits
    BY <1>0, <1>4, <2>1 DEF GetElement
  <2>2. CASE fits
    <3> DEFINE status == GetStatus(c, rq.status)
               err == One(status # "Success")
               blamed == One(Readable(c) /\ status # "Success")
    <3>1. rq \in GetRequest /\ rq.n < MaxElements /\ Target[c] = c
      BY <1>4, Shapes DEF GetElement, Identified
    <3>2. err \in {0, 1} /\ blamed \in {0, 1}
      BY OneIsCount
    <3>3. /\ status \in {"Success", "CannotRead", "ResourceNotExist"}
          /\ status = "Success" => c \in Char /\ Readable(c) /\ rq.status = "Success"
          /\ status # "Success" /\ Readable(c) => status = rq.status
      BY <3>1 DEF GetStatus, GetRequest, Readable
    <3>4. rq' = [rq EXCEPT !.n = @ + 1, !.status = status, !.err = @ + err,
                           !.got = IF status = "Success" THEN @ \cup {c} ELSE @,
                           !.blamed = @ + blamed]
      BY <1>4, <2>2, <3>1 DEF GetElement
    <3>8. /\ err = One(status # "Success")
          /\ blamed = One(Readable(c) /\ status # "Success")
      OBVIOUS
    <3> HIDE DEF status, err, blamed
    <3>5. /\ rq.n \in Nat /\ rq.err \in Nat /\ rq.blamed \in Nat
          /\ rq.err <= rq.n /\ rq.blamed <= rq.n
      BY <3>1, MaxElementsAssumption DEF GetRequest, Counted, Count
    <3>6. rq' \in GetRequest
      <4>1. /\ rq.n + 1 \in Count /\ rq.err + err \in Count
            /\ rq.blamed + blamed \in Count
        BY <3>1, <3>2, <3>5, MaxElementsAssumption DEF Count, GetRequest
      <4>2. (IF status = "Success" THEN rq.got \cup {c} ELSE rq.got) \in SUBSET Char
        BY <3>1, <3>3 DEF GetRequest
      <4> QED
        BY <3>1, <3>3, <3>4, <4>1, <4>2 DEF GetRequest
    <3>7. rq'.n = rq.n + 1 /\ rq'.err = rq.err + err /\ rq'.blamed = rq.blamed + blamed
      BY <3>1, <3>4 DEF GetRequest
    <3>9. ReadSoFar'
      <4>1. CASE status = "Success"
        <5>1. rq'.status = "Success" /\ rq'.got = rq.got \cup {c}
          BY <3>1, <3>4, <4>1 DEF GetRequest
        <5>2. rq.err = 0 /\ rq.blamed = 0 /\ \A d \in rq.got : Readable(d)
          BY <3>1, <3>3, <4>1 DEF ReadSoFar
        <5>3. err = 0 /\ blamed = 0
          BY <3>8, <4>1 DEF One
        <5> QED
          BY <3>3, <3>7, <4>1, <5>1, <5>2, <5>3 DEF ReadSoFar
      <4>2. CASE status # "Success"
        <5>1. rq'.status # "Success" /\ rq'.got = rq.got
          BY <3>1, <3>4, <4>2 DEF GetRequest
        <5>2. \A d \in rq.got : Readable(d)
          BY <3>1 DEF ReadSoFar
        <5>3. err = 1 /\ (blamed = 1 => rq.status # "Success")
          BY <3>3, <3>8, <4>2 DEF One
        <5>4. rq.blamed + blamed < rq.err + err
          BY <3>1, <3>2, <3>5, <5>3 DEF ReadSoFar
        <5> QED
          BY <3>7, <5>1, <5>2, <5>4 DEF ReadSoFar
      <4> QED
        BY <4>1, <4>2
    <3> QED
      BY <3>2, <3>5, <3>6, <3>7, <3>9 DEF RqOK, Counted, PutAnswerIsTrue, GetRequest, PutRequest
  <2> QED
    BY <2>1, <2>2
<1>5. CASE Element
  <2>1. PICK c \in Char \cup {NoChar}, fits \in BOOLEAN :
          \/ GetElement(c, fits)
          \/ \E v \in (IF c = NoChar THEN {} ELSE Possible[c]) \cup {Absent, Bad},
                e \in {"on", "off", Absent} : PutElement(c, v, e, fits)
    BY <1>5 DEF Element
  <2>2. (IF c = NoChar THEN {} ELSE Possible[c]) \subseteq Value
    BY PossibleAssumption
  <2> QED
    BY <1>4, <2>1, <2>2, PutElementStep
<1>6. CASE End \/ GetMalformed
  BY <1>0, <1>6 DEF End, PutEnd, GetEnd, GetMalformed
<1>7. ASSUME NEW s \in Session,
             \/ GetAccessories(s)
             \/ Between(Open(s)) \/ Between(Close(s)) \/ Between(Poll(s))
      PROVE  DbInvariant'
  BY <1>1, <1>7 DEF GetAccessories, Between
<1>8. ASSUME NEW c \in Char, NEW v \in Possible[c], Between(DeviceSet(c, v))
      PROVE  DbInvariant'
  BY <1>1, <1>8 DEF Between
<1>9. CASE UNCHANGED dvars
  BY <1>1, <1>9 DEF dvars
<1> QED
  BY <1>2, <1>3, <1>5, <1>6, <1>7, <1>8, <1>9 DEF DbNext, Work

LEMMA DbInit_Invariant == DbInit => Init /\ DbInvariant
BY DEF DbInit, DbInvariant, RqOK, Counted, PutAnswerIsTrue, ReadSoFar, NoRequest, PutRequest, GetRequest

LEMMA DbAlways == Identified => (DbSpec => [](TypeOK /\ DbInvariant))
<1> SUFFICES ASSUME Identified PROVE DbSpec => [](TypeOK /\ DbInvariant)
  OBVIOUS
<1>1. DbInit => TypeOK /\ DbInvariant
  BY DbInit_Invariant, InitInvariant DEF Invariant
<1>2. TypeOK /\ DbInvariant /\ [DbNext]_dvars => (TypeOK /\ DbInvariant)'
  BY InvariantStep, StepImplements, TypeStep DEF DbInvariant
<1> QED
  BY <1>1, <1>2, PTL DEF DbSpec

(* Requests keep to what Events says of the flags and the values, and the  *)
(* variables to their types.                                               *)
THEOREM DbTypeCorrect == Identified => (DbSpec => []DbTypeOK)
<1>1. TypeOK /\ DbInvariant => DbTypeOK
  BY DEF DbTypeOK, DbInvariant, RqOK
<1> QED
  BY <1>1, DbAlways, PTL

(* Db implements Events: PUT and GET, element by element, are its writes   *)
(* and reads.                                                              *)
THEOREM DbImplementsEvents == Identified => (DbSpec => Spec)
<1> SUFFICES ASSUME Identified PROVE DbSpec => Spec
  OBVIOUS
<1>1. DbInit => Init
  BY DbInit_Invariant
<1>2. DbInvariant /\ [DbNext]_dvars => [Next]_vars
  BY StepImplements DEF DbInvariant
<1> QED
  BY <1>1, <1>2, DbAlways, PTL DEF DbSpec, Spec

(* So no change is lost to a subscriber between the elements of requests.  *)
THEOREM NoChangeIsLostByRequests ==
  Identified /\ RoomForAll => (DbSpec => []SubscriberIsCurrent)
BY DbImplementsEvents, NoChangeIsLost, PTL

(* The answer to a GET tells only what can be read, and blames an id that  *)
(* could be read only when another one of the request has failed: what is  *)
(* left in the rd_prm of Db::Read by one id never fails a request alone.   *)
THEOREM GetAnswersAreTrue == Identified => (DbSpec => []GetAnswerIsTrue)
<1>1. TypeOK /\ DbInvariant => GetAnswerIsTrue
  <2> SUFFICES ASSUME DbInvariant, rq.op = "GET" PROVE GetAnswerIsTrue
    BY DEF GetAnswerIsTrue
  <2>1. rq \in GetRequest
    BY Shapes DEF DbInvariant
  <2>2. /\ rq.n \in Nat /\ rq.err \in Nat /\ rq.blamed \in Nat
        /\ rq.status \in {"Success", "CannotRead", "ResourceNotExist"}
    BY <2>1, MaxElementsAssumption DEF GetRequest, Count
  <2>3. Answer(rq) = "AllDone" => rq.err = 0
    BY DEF Answer
  <2> QED
    BY <2>1, <2>2, <2>3 DEF DbInvariant, ReadSoFar, GetAnswerIsTrue
<1> QED
  BY <1>1, DbAlways, PTL

(* The answer to a PUT is true of each of its elements.                    *)
THEOREM PutAnswersAreTrue == Identified => (DbSpec => []PutAnswerIsTrue)
<1>1. TypeOK /\ DbInvariant => PutAnswerIsTrue
  BY DEF DbInvariant
<1> QED
  BY <1>1, DbAlways, PTL

-----------------------------------------------------------------------------
(* Two threads at once.                                                    *)

On(t, c) == at[t] # Idle /\ at[t].c = c
Known(s, c) == s \in pending[c] \/ seen[c][s] = value[c]

(* What thread t has done so far for the subscribers of c.                 *)
Progress(t, c) ==
  /\ at[t].pc \in {"read", "store"} => at[t].s = 0
  /\ at[t].pc = "read" => at[t].v # value[c] \/ CurrentOf(c)
  /\ at[t].pc = "store" => at[t].old = value[c] /\ (at[t].v # value[c] \/ CurrentOf(c))
  /\ at[t].pc \in {"look", "mark"} =>
       /\ value[c] = at[t].v
       /\ \A s \in open \cap ev[c] : (s < at[t].s \/ s = at[t].except) => Known(s, c)
  /\ at[t].pc = "clear" =>
       CurrentOf(c) /\ (at[t].s \in pending[c] => at[t].was)
  /\ at[t].pc = "send" => \A s \in open \cap ev[c] : s # at[t].s => Known(s, c)

CleanAt(c) ==
  /\ ~(On("network", c) /\ On("device", c))
  /\ \A t \in Thread : On(t, c) => Progress(t, c)
  /\ Done(c) => CurrentOf(c)
CleanInv == \A c \in Char : clean[c] => CleanAt(c)

Changing == {"read", "store", "look", "mark"}

LEMMA TwoThreads ==
  /\ Thread = {"network", "device"}
  /\ Other("network") = "device" /\ Other("device") = "network"
BY DEF Thread, Other

LEMMA Numbering == NSession \in Nat /\ Session = 0 .. NSession - 1 /\ NoOne \notin Session
                   /\ 0 \in Session
BY NSessionAssumption, SomeSessionAssumption DEF Session, NoOne

(* Where a thread can be.                                                  *)
LEMMA Places ==
  ASSUME TTypeOK, NEW t \in Thread
  PROVE  /\ at[t] = Idle \/ at[t] \in SetValue \/ at[t] \in Polling
         /\ at[t].pc \in Changing <=> at[t] \in SetValue
         /\ at[t].pc \in {"test", "clear", "send"} <=> at[t] \in Polling
         /\ at[t].pc = "idle" <=> at[t] = Idle
         /\ at[t] \in SetValue => at[t].c \in Char /\ at[t].v \in Value /\ at[t].s \in Session
                                  /\ at[t].except \in Session \cup {NoOne} /\ at[t].old \in Value
         /\ at[t] \in Polling => at[t].c \in Char /\ at[t].s \in Session /\ at[t].was \in BOOLEAN
<1>1. at[t] = Idle \/ at[t] \in SetValue \/ at[t] \in Polling
  BY DEF TTypeOK
<1>2. Idle.pc = "idle"
  BY DEF Idle
<1> QED
  BY <1>1, <1>2 DEF SetValue, Polling, Changing

LEMMA InitClean == TInit => TTypeOK /\ CleanInv
<1> SUFFICES ASSUME TInit PROVE TTypeOK /\ CleanInv
  OBVIOUS
<1>1. TypeOK /\ at = [t \in Thread |-> Idle] /\ clean = [c \in Char |-> TRUE]
  BY DEF TInit, Init, TypeOK
<1>2. TTypeOK
  BY <1>1 DEF TTypeOK
<1>3. \A c \in Char : CurrentOf(c)
  BY DEF TInit, Init, CurrentOf
<1>4. \A t \in Thread, c \in Char : ~On(t, c)
  BY <1>1 DEF On
<1> QED
  BY <1>2, <1>3, <1>4, TwoThreads DEF CleanInv, CleanAt
-----------------------------------------------------------------------------
(* A step of thread t on c.  If the change is still clean, the other       *)
(* thread is elsewhere, and t has only to account for itself.              *)
LEMMA ThreadStep ==
  ASSUME TTypeOK, CleanInv, NEW t \in Thread, NEW c \in Char, NEW X,
         at' = [at EXCEPT ![t] = X], X = Idle \/ X.c = c, at[t] = Idle \/ at[t].c = c,
         Touches(t, c), open' = open,
         \A d \in Char : d # c => /\ value'[d] = value[d] /\ seen'[d] = seen[d]
                                  /\ ev'[d] = ev[d] /\ pending'[d] = pending[d],
         CleanAt(c) /\ ~On(Other(t), c) => /\ X = Idle => CurrentOf(c)'
                                           /\ X # Idle => Progress(t, c)'
  PROVE  CleanInv'
<1> DEFINE u == Other(t)
<1>1. u \in Thread /\ u # t /\ Thread = {t, u}
  BY TwoThreads
<1>2. at'[t] = X /\ at'[u] = at[u]
  BY <1>1 DEF TTypeOK
<1>3. \A d \in Char : On(u, d)' <=> On(u, d)
  BY <1>2 DEF On
<1>4. /\ \A d \in Char : d # c => (clean'[d] <=> clean[d])
      /\ clean'[c] => clean[c] /\ ~On(u, c)
  BY DEF Touches, TTypeOK, On
<1> SUFFICES ASSUME NEW d \in Char, clean'[d] PROVE CleanAt(d)'
  BY DEF CleanInv
<1>5. CASE d # c
  <2>1. CleanAt(d)
    BY <1>4, <1>5 DEF CleanInv
  <2>2. ~On(t, d) /\ ~On(t, d)'
    BY <1>2, <1>5 DEF On
  <2>3. CurrentOf(d)' <=> CurrentOf(d)
    BY <1>5 DEF CurrentOf
  <2>4. On(u, d) => (Progress(u, d)' <=> Progress(u, d))
    BY <1>2, <1>5, <2>3 DEF Progress, Known
  <2>5. Done(d)' => Done(d)
    BY <1>1, <1>2, <2>2 DEF Done, On
  <2>6. ~(On("network", d) /\ On("device", d))'
    BY <1>1, <2>2, TwoThreads
  <2>7. \A w \in Thread : On(w, d)' => Progress(w, d)'
    BY <1>1, <1>3, <2>1, <2>2, <2>4 DEF CleanAt
  <2> QED
    BY <2>1, <2>3, <2>5, <2>6, <2>7 DEF CleanAt
<1>6. CASE d = c
  <2>1. CleanAt(c) /\ ~On(u, c)
    BY <1>4, <1>6 DEF CleanInv
  <2>2. ~On(u, c)'
    BY <1>3, <2>1
  <2>3. X = Idle => CurrentOf(c)'
    BY <2>1
  <2>4. X # Idle => Progress(t, c)'
    BY <2>1
  <2>5. On(t, c)' => X # Idle
    BY <1>2 DEF On
  <2>6. Done(c)' => X = Idle
    BY <1>2 DEF Done
  <2>7. ~(On("network", c) /\ On("device", c))'
    BY <1>1, <2>2, TwoThreads
  <2>8. \A w \in Thread : On(w, c)' => Progress(w, c)'
    BY <1>1, <2>2, <2>4, <2>5
  <2>9. Done(c)' => CurrentOf(c)'
    BY <2>3, <2>6
  <2> QED
    BY <1>6, <2>7, <2>8, <2>9 DEF CleanAt
<1> QED
  BY <1>5, <1>6

LEMMA TouchesType ==
  ASSUME TTypeOK, NEW t \in Thread, NEW c \in Char, Touches(t, c)
  PROVE  clean' \in [Char -> BOOLEAN]
BY DEF Touches, TTypeOK

(* A change begins.                                                        *)
LEMMA CallKeeps ==
  ASSUME TTypeOK, CleanInv, NEW t \in Thread, NEW c \in Char, NEW v \in Value,
         NEW except \in Session \cup {NoOne}, Call(t, c, v, except)
  PROVE  TTypeOK' /\ CleanInv'
<1> DEFINE X == [pc |-> "read", c |-> c, v |-> v, old |-> v, s |-> 0, except |-> except]
           u == Other(t)
<1>1. u \in Thread /\ u # t /\ Thread = {t, u}
  BY TwoThreads
<1>2. /\ at[t] = Idle /\ at' = [at EXCEPT ![t] = X] /\ UNCHANGED vars
      /\ clean' = [clean EXCEPT ![c] = (@ \/ v # value[c]) /\ Alone(t)]
  BY DEF Call
<1>3. X \in SetValue
  BY Numbering DEF SetValue
<1>4. TTypeOK'
  <2>1. TypeOK'
    BY <1>2 DEF TTypeOK, TypeOK, vars
  <2>2. at' \in [Thread -> {Idle} \cup SetValue \cup Polling]
    BY <1>2, <1>3 DEF TTypeOK
  <2>3. clean' \in [Char -> BOOLEAN]
    BY <1>2 DEF TTypeOK
  <2> QED
    BY <2>1, <2>2, <2>3 DEF TTypeOK
<1>5. X # Idle /\ X.c = c /\ X.pc = "read" /\ X.v = v /\ X.s = 0
  BY DEF Idle
<1>6. at'[t] = X /\ at'[u] = at[u]
  BY <1>1, <1>2 DEF TTypeOK
<1>7. \A d \in Char : CurrentOf(d)' <=> CurrentOf(d)
  BY <1>2 DEF vars, CurrentOf
<1> HIDE DEF X
<1> SUFFICES ASSUME NEW d \in Char, clean'[d] PROVE CleanAt(d)'
  BY <1>4 DEF CleanInv
<1>8. CASE d # c
  <2>1. clean[d]
    BY <1>2, <1>8 DEF TTypeOK
  <2>2. CleanAt(d)
    BY <2>1 DEF CleanInv
  <2>3. ~On(t, d) /\ ~On(t, d)' /\ (On(u, d)' <=> On(u, d))
    BY <1>2, <1>5, <1>6, <1>8 DEF On
  <2>4. On(u, d) => (Progress(u, d)' <=> Progress(u, d))
    BY <1>2, <1>6, <1>7 DEF Progress, Known, vars
  <2>5. Done(d)' => Done(d)
    BY <1>1, <1>2, <1>6 DEF Done
  <2>6. ~(On("network", d) /\ On("device", d))'
    BY <1>1, <2>3, TwoThreads
  <2>7. \A w \in Thread : On(w, d)' => Progress(w, d)'
    BY <1>1, <2>2, <2>3, <2>4 DEF CleanAt
  <2> QED
    BY <1>7, <2>2, <2>5, <2>6, <2>7 DEF CleanAt
<1>9. CASE d = c
  <2>1. (clean[c] \/ v # value[c]) /\ at[u] = Idle
    BY <1>2, <1>9 DEF TTypeOK, Alone
  <2>2. ~On(u, c)'
    BY <1>6, <2>1 DEF On
  <2>3. Done(c)
    BY <1>1, <1>2, <2>1 DEF Done
  <2>4. v # value[c] \/ CurrentOf(c)
    BY <2>1, <2>3 DEF CleanInv, CleanAt
  <2>5. Progress(t, c)'
    BY <1>2, <1>5, <1>6, <1>7, <2>4 DEF Progress, vars
  <2>6. ~Done(c)'
    BY <1>5, <1>6 DEF Done
  <2> QED
    BY <1>1, <1>9, <2>2, <2>5, <2>6, TwoThreads DEF CleanAt
<1> QED
  BY <1>8, <1>9
-----------------------------------------------------------------------------
(* The steps of Value().                                                   *)
LEMMA ReadOldKeeps ==
  ASSUME TTypeOK, CleanInv, NEW t \in Thread, ReadOld(t)
  PROVE  TTypeOK' /\ CleanInv'
<1>0. PICK c \in Char : c = at[t].c
  BY Places DEF ReadOld, Changing
<1> DEFINE X == [at[t] EXCEPT !.old = value[c], !.pc = "store"]
<1>1. at[t] \in SetValue /\ at[t].pc = "read" /\ at[t] # Idle
  BY Places DEF ReadOld, Changing
<1>2. value[c] \in Value
  BY <1>1 DEF TTypeOK, TypeOK
<1>3. X \in SetValue /\ X.c = c /\ X.pc = "store" /\ X.old = value[c]
      /\ X.v = at[t].v /\ X.s = at[t].s /\ X.except = at[t].except
  BY <1>0, <1>1, <1>2 DEF SetValue
<1>4. at' = [at EXCEPT ![t] = X] /\ Touches(t, c) /\ UNCHANGED vars
  BY <1>0 DEF ReadOld
<1> HIDE DEF X
<1>5. at'[t] = X
  BY <1>4 DEF TTypeOK
<1>6. TTypeOK'
  <2>1. TypeOK'
    BY <1>4 DEF TTypeOK, TypeOK, vars
  <2>2. at' \in [Thread -> {Idle} \cup SetValue \cup Polling]
    BY <1>3, <1>4 DEF TTypeOK
  <2>3. clean' \in [Char -> BOOLEAN]
    BY <1>1, <1>4, TouchesType
  <2> QED
    BY <2>1, <2>2, <2>3 DEF TTypeOK
<1>7. ASSUME CleanAt(c) PROVE X # Idle /\ Progress(t, c)'
  <2>1. Progress(t, c)
    BY <1>0, <1>1, <1>7 DEF CleanAt, On
  <2>2. CurrentOf(c)' <=> CurrentOf(c)
    BY <1>4 DEF CurrentOf, vars
  <2>3. X # Idle
    BY <1>3 DEF Idle
  <2>4. at[t].s = 0 /\ (at[t].v # value[c] \/ CurrentOf(c))
    BY <1>1, <2>1 DEF Progress
  <2>5. value' = value
    BY <1>4 DEF vars
  <2>6. Progress(t, c)'
    BY <1>3, <1>5, <2>2, <2>4, <2>5 DEF Progress
  <2> QED
    BY <2>3, <2>6
<1>8. CleanInv'
  BY <1>0, <1>3, <1>4, <1>7, ThreadStep DEF vars
<1> QED
  BY <1>6, <1>8

LEMMA StoreKeeps ==
  ASSUME TTypeOK, CleanInv, NEW t \in Thread, Store(t)
  PROVE  TTypeOK' /\ CleanInv'
<1>1. PICK c \in Char : c = at[t].c
  BY Places DEF Store, Changing
<1>2. at[t] \in SetValue /\ at[t].pc = "store" /\ at[t] # Idle
  BY Places DEF Store, Changing
<1> DEFINE v == at[t].v
           X == IF at[t].old # v THEN [at[t] EXCEPT !.pc = "look"] ELSE Idle
<1>3. /\ value' = [value EXCEPT ![c] = v] /\ seen' = Knows(at[t].except, c, v)
      /\ at' = [at EXCEPT ![t] = X] /\ Touches(t, c) /\ UNCHANGED <<ev, pending, open>>
  BY <1>1 DEF Store
<1>4. v \in Value /\ at[t].s \in Session /\ at[t].except \in Session \cup {NoOne}
  BY <1>2, Places
<1>5. /\ X \in SetValue \cup {Idle} /\ (X = Idle \/ X.c = c)
      /\ X = Idle <=> at[t].old = v
      /\ X # Idle => /\ X.pc = "look" /\ X.v = v /\ X.s = at[t].s
                     /\ X.except = at[t].except
  <2>1. CASE at[t].old # v
    BY <1>1, <1>2, <2>1 DEF SetValue, Idle
  <2>2. CASE at[t].old = v
    BY <2>2
  <2> QED
    BY <2>1, <2>2
<1> HIDE DEF X, v
<1>6. value'[c] = v /\ \A d \in Char : d # c => value'[d] = value[d]
  BY <1>1, <1>3 DEF TTypeOK, TypeOK
<1>7. /\ seen' \in [Char -> [Session -> Value]]
      /\ \A d \in Char : d # c => seen'[d] = seen[d]
      /\ \A s \in Session : seen'[c][s] = IF s = at[t].except THEN v ELSE seen[c][s]
  <2>1. seen \in [Char -> [Session -> Value]]
    BY DEF TTypeOK, TypeOK
  <2>2. CASE at[t].except \in Session
    <3>1. seen' = [seen EXCEPT ![c][at[t].except] = v]
      BY <1>3, <2>2 DEF Knows
    <3> QED
      BY <1>1, <1>4, <2>1, <2>2, <3>1
  <2>3. CASE at[t].except \notin Session
    BY <1>3, <2>1, <2>3 DEF Knows
  <2> QED
    BY <2>2, <2>3
<1>8. at'[t] = X
  BY <1>3 DEF TTypeOK
<1>9. TTypeOK'
  <2>1. TypeOK'
    BY <1>3, <1>4, <1>7 DEF TTypeOK, TypeOK
  <2>2. at' \in [Thread -> {Idle} \cup SetValue \cup Polling]
    BY <1>3, <1>5 DEF TTypeOK
  <2>3. clean' \in [Char -> BOOLEAN]
    BY <1>1, <1>3, TouchesType
  <2> QED
    BY <2>1, <2>2, <2>3 DEF TTypeOK
<1>10. ASSUME CleanAt(c)
       PROVE  (X = Idle => CurrentOf(c)') /\ (X # Idle => Progress(t, c)')
  <2>1. Progress(t, c)
    BY <1>1, <1>2, <1>10 DEF CleanAt, On
  <2>2. at[t].s = 0 /\ at[t].old = value[c] /\ (v # value[c] \/ CurrentOf(c))
    BY <1>2, <2>1 DEF Progress, v
  <2>3. ASSUME X = Idle PROVE CurrentOf(c)'
    <3>1. v = value[c] /\ CurrentOf(c)
      BY <1>5, <2>2, <2>3
    <3>2. \A s \in Session : seen[c][s] = value[c] => seen'[c][s] = value'[c]
      BY <1>6, <1>7, <3>1
    <3>3. open \subseteq Session
      BY DEF TTypeOK, TypeOK
    <3> QED
      BY <1>3, <3>1, <3>2, <3>3 DEF CurrentOf
  <2>4. ASSUME X # Idle PROVE Progress(t, c)'
    <3>1. X.pc = "look" /\ X.v = v /\ X.s = 0 /\ X.except = at[t].except
      BY <1>5, <2>2, <2>4
    <3>2. \A s \in Session : ~(s < 0)
      BY Numbering
    <3>3. open \subseteq Session
      BY DEF TTypeOK, TypeOK
    <3>4. \A s \in Session : s = at[t].except => Known(s, c)'
      BY <1>6, <1>7 DEF Known
    <3>5. \A s \in open' \cap ev'[c] : (s < X.s \/ s = X.except) => Known(s, c)'
      BY <1>3, <3>1, <3>2, <3>3, <3>4
    <3> QED
      BY <1>6, <1>8, <3>1, <3>5 DEF Progress
  <2> QED
    BY <2>3, <2>4
<1>11. CleanInv'
  BY <1>1, <1>3, <1>5, <1>6, <1>7, <1>10, ThreadStep
<1> QED
  BY <1>9, <1>11

(* The turn of a session ends: those up to it are done with.               *)
LEMMA FollowingTurn ==
  ASSUME TTypeOK, NEW t \in Thread, at[t] \in SetValue
  PROVE  /\ Following(t) \in SetValue \cup {Idle}
         /\ Following(t) = Idle => \A s \in Session : s < at[t].s \/ s = at[t].s
         /\ Following(t) # Idle =>
              /\ Following(t).pc = "look" /\ Following(t).v = at[t].v
              /\ Following(t).c = at[t].c /\ Following(t).except = at[t].except
              /\ \A s \in Session : s < Following(t).s => s < at[t].s \/ s = at[t].s
<1>1. at[t].s \in Session
  BY Places
<1>2. CASE at[t].s + 1 < NSession
  <2> DEFINE next == at[t].s + 1
             X == [at[t] EXCEPT !.pc = "look", !.s = next]
  <2>1. next \in Session /\ \A s \in Session : s < next => s < at[t].s \/ s = at[t].s
    BY <1>1, <1>2, Numbering
  <2>2. Following(t) = X
    BY <1>2 DEF Following
  <2> HIDE DEF next
  <2>3. /\ X \in SetValue /\ X.pc = "look" /\ X.v = at[t].v /\ X.c = at[t].c
        /\ X.except = at[t].except /\ X.s = next
    BY <2>1 DEF SetValue
  <2>4. X # Idle
    BY <2>3 DEF Idle
  <2> QED
    BY <2>1, <2>2, <2>3, <2>4
<1>3. CASE ~(at[t].s + 1 < NSession)
  <2>1. Following(t) = Idle
    BY <1>3 DEF Following
  <2>2. \A s \in Session : s < at[t].s \/ s = at[t].s
    BY <1>1, <1>3, Numbering
  <2> QED
    BY <2>1, <2>2
<1> QED
  BY <1>2, <1>3

(* Look and Mark leave the value; the session whose turn it was is told.   *)
LEMMA TurnKeeps ==
  ASSUME TTypeOK, CleanInv, NEW t \in Thread, NEW c \in Char, c = at[t].c,
         at[t] \in SetValue, at[t].pc \in {"look", "mark"},
         at' = [at EXCEPT ![t] = Following(t)], Touches(t, c),
         UNCHANGED <<value, ev, open, seen>>, pending' \in [Char -> SUBSET Session],
         \A d \in Char : pending[d] \subseteq pending'[d] /\ (d # c => pending'[d] = pending[d]),
         \A s \in open \cap ev[c] : Progress(t, c) /\ s = at[t].s => Known(s, c)'
  PROVE  TTypeOK' /\ CleanInv'
<1> DEFINE X == Following(t)
<1>1. /\ X \in SetValue \cup {Idle}
      /\ X = Idle => \A s \in Session : s < at[t].s \/ s = at[t].s
      /\ X # Idle => /\ X.pc = "look" /\ X.v = at[t].v /\ X.c = c
                     /\ X.except = at[t].except
                     /\ \A s \in Session : s < X.s => s < at[t].s \/ s = at[t].s
  BY FollowingTurn
<1> HIDE DEF X
<1>2. at'[t] = X /\ at[t] # Idle
  <2>1. at[t] # Idle
    BY Places DEF Changing
  <2> QED
    BY <2>1 DEF TTypeOK, X
<1>3. TTypeOK'
  <2>1. TypeOK'
    BY DEF TTypeOK, TypeOK
  <2>2. at' \in [Thread -> {Idle} \cup SetValue \cup Polling]
    BY <1>1 DEF TTypeOK, X
  <2>3. clean' \in [Char -> BOOLEAN]
    BY TouchesType
  <2> QED
    BY <2>1, <2>2, <2>3 DEF TTypeOK
<1>4. ASSUME CleanAt(c)
      PROVE  (X = Idle => CurrentOf(c)') /\ (X # Idle => Progress(t, c)')
  <2>1. Progress(t, c)
    BY <1>2, <1>4 DEF CleanAt, On
  <2>2. /\ value[c] = at[t].v
        /\ \A s \in open \cap ev[c] : (s < at[t].s \/ s = at[t].except) => Known(s, c)
    BY <2>1 DEF Progress
  <2>3. \A s \in open \cap ev[c] : Known(s, c) => Known(s, c)'
    BY DEF Known
  <2>4. \A s \in open \cap ev[c] :
          (s < at[t].s \/ s = at[t].s \/ s = at[t].except) => Known(s, c)'
    BY <2>1, <2>2, <2>3
  <2>5. open \subseteq Session
    BY DEF TTypeOK, TypeOK
  <2>6. ASSUME X = Idle PROVE CurrentOf(c)'
    <3>1. \A s \in open' \cap ev'[c] : Known(s, c)'
      BY <1>1, <2>4, <2>5, <2>6
    <3> QED
      BY <3>1 DEF CurrentOf, Known
  <2>7. ASSUME X # Idle PROVE Progress(t, c)'
    <3>1. \A s \in open' \cap ev'[c] : (s < X.s \/ s = X.except) => Known(s, c)'
      BY <1>1, <2>4, <2>5, <2>7
    <3> QED
      BY <1>1, <1>2, <2>2, <2>7, <3>1 DEF Progress
  <2> QED
    BY <2>6, <2>7
<1>5. CleanInv'
  <2>1. at' = [at EXCEPT ![t] = X] /\ (X = Idle \/ X.c = c)
    BY <1>1 DEF X
  <2> QED
    BY <1>4, <2>1, ThreadStep
<1> QED
  BY <1>3, <1>5

LEMMA LookKeeps ==
  ASSUME TTypeOK, CleanInv, NEW t \in Thread, Look(t)
  PROVE  TTypeOK' /\ CleanInv'
<1>1. at[t] \in SetValue /\ at[t].pc = "look" /\ at[t] # Idle
  BY Places DEF Look, Changing
<1>2. PICK c \in Char : c = at[t].c
  BY <1>1, Places
<1>3. Touches(t, c) /\ UNCHANGED vars
  BY <1>2 DEF Look
<1>4. CASE at[t].s # at[t].except /\ at[t].s \in ev[c]
  <2> DEFINE X == [at[t] EXCEPT !.pc = "mark"]
  <2>1. at' = [at EXCEPT ![t] = X]
    BY <1>2, <1>4 DEF Look
  <2>2. /\ X \in SetValue /\ X.pc = "mark" /\ X.c = c /\ X.v = at[t].v
        /\ X.s = at[t].s /\ X.except = at[t].except
    BY <1>1, <1>2 DEF SetValue
  <2> HIDE DEF X
  <2>3. X # Idle
    BY <2>2 DEF Idle
  <2>4. at'[t] = X
    BY <2>1 DEF TTypeOK
  <2>5. TTypeOK'
    <3>1. TypeOK'
      BY <1>3 DEF TTypeOK, TypeOK, vars
    <3>2. at' \in [Thread -> {Idle} \cup SetValue \cup Polling]
      BY <2>1, <2>2 DEF TTypeOK
    <3>3. clean' \in [Char -> BOOLEAN]
      BY <1>3, TouchesType
    <3> QED
      BY <3>1, <3>2, <3>3 DEF TTypeOK
  <2>6. ASSUME CleanAt(c) PROVE Progress(t, c)'
    <3>1. Progress(t, c)
      BY <1>1, <1>2, <2>6 DEF CleanAt, On
    <3>2. /\ value[c] = at[t].v
          /\ \A s \in open \cap ev[c] : (s < at[t].s \/ s = at[t].except) => Known(s, c)
      BY <1>1, <3>1 DEF Progress
    <3>3. \A s : Known(s, c)' <=> Known(s, c)
      BY <1>3 DEF Known, vars
    <3>4. value' = value /\ open' = open /\ ev' = ev
      BY <1>3 DEF vars
    <3>5. value'[c] = X.v
      BY <2>2, <3>2, <3>4
    <3>6. \A s \in open' \cap ev'[c] : (s < X.s \/ s = X.except) => Known(s, c)'
      BY <2>2, <3>2, <3>3, <3>4
    <3> QED
      BY <2>2, <2>4, <3>5, <3>6 DEF Progress
  <2>7. CleanInv'
    BY <1>2, <1>3, <2>1, <2>2, <2>3, <2>6, ThreadStep DEF vars
  <2> QED
    BY <2>5, <2>7
<1>5. CASE ~(at[t].s # at[t].except /\ at[t].s \in ev[c])
  <2>1. at' = [at EXCEPT ![t] = Following(t)]
    BY <1>2, <1>5 DEF Look
  <2>2. ASSUME NEW s \in open \cap ev[c], Progress(t, c), s = at[t].s PROVE Known(s, c)'
    <3>1. s = at[t].except
      BY <1>5, <2>2
    <3>2. Known(s, c)
      BY <1>1, <2>2, <3>1 DEF Progress
    <3> QED
      BY <1>3, <3>2 DEF Known, vars
  <2>3. pending' \in [Char -> SUBSET Session]
    BY <1>3 DEF vars, TTypeOK, TypeOK
  <2> QED
    BY <1>1, <1>2, <1>3, <2>1, <2>2, <2>3, TurnKeeps DEF vars
<1> QED
  BY <1>4, <1>5

LEMMA MarkKeeps ==
  ASSUME TTypeOK, CleanInv, NEW t \in Thread, Mark(t)
  PROVE  TTypeOK' /\ CleanInv'
<1>1. at[t] \in SetValue /\ at[t].pc = "mark"
  BY Places DEF Mark, Changing
<1>2. PICK c \in Char : c = at[t].c
  BY <1>1, Places
<1>3. /\ pending' = [pending EXCEPT ![c] = @ \cup {at[t].s}]
      /\ at' = [at EXCEPT ![t] = Following(t)] /\ Touches(t, c)
      /\ UNCHANGED <<value, ev, open, seen>>
  BY <1>2 DEF Mark
<1>4. at[t].s \in Session
  BY <1>1, Places
<1>5. /\ pending' \in [Char -> SUBSET Session]
      /\ \A d \in Char : pending[d] \subseteq pending'[d] /\ (d # c => pending'[d] = pending[d])
      /\ at[t].s \in pending'[c]
  BY <1>3, <1>4 DEF TTypeOK, TypeOK
<1>6. \A s \in open \cap ev[c] : Progress(t, c) /\ s = at[t].s => Known(s, c)'
  BY <1>5 DEF Known
<1> QED
  BY <1>1, <1>2, <1>3, <1>5, <1>6, TurnKeeps
-----------------------------------------------------------------------------
(* A poll.                                                                 *)
LEMMA PollTestKeeps ==
  ASSUME TTypeOK, CleanInv, NEW s \in Session, NEW c \in Char, PollTest(s, c)
  PROVE  TTypeOK' /\ CleanInv'
<1> DEFINE was == s \in pending[c]
           X == [pc |-> "clear", c |-> c, s |-> s, was |-> was]
           t == "network"
<1>1. /\ s \in open /\ at[t] = Idle /\ at' = [at EXCEPT ![t] = X]
      /\ Touches(t, c) /\ UNCHANGED vars
  BY DEF PollTest
<1>2. was \in BOOLEAN /\ t \in Thread
  BY TwoThreads
<1> HIDE DEF was
<1>3. X \in Polling /\ X.pc = "clear" /\ X.c = c /\ X.s = s /\ X.was = was
  BY <1>2 DEF Polling
<1> HIDE DEF X
<1>4. X # Idle
  BY <1>3 DEF Idle
<1>5. at'[t] = X
  BY <1>1, <1>2 DEF TTypeOK
<1>6. TTypeOK'
  <2>1. TypeOK'
    BY <1>1 DEF TTypeOK, TypeOK, vars
  <2>2. at' \in [Thread -> {Idle} \cup SetValue \cup Polling]
    BY <1>1, <1>3 DEF TTypeOK
  <2>3. clean' \in [Char -> BOOLEAN]
    BY <1>1, <1>2, TouchesType
  <2> QED
    BY <2>1, <2>2, <2>3 DEF TTypeOK
<1>7. ASSUME CleanAt(c), ~On(Other(t), c) PROVE Progress(t, c)'
  <2>1. Done(c)
    BY <1>1, <1>7, TwoThreads DEF Done, On
  <2>2. CurrentOf(c)
    BY <1>7, <2>1 DEF CleanAt
  <2>3. CurrentOf(c)'
    BY <1>1, <2>2 DEF CurrentOf, vars
  <2>4. X.s \in pending'[c] => X.was
    BY <1>1, <1>3 DEF vars, was
  <2> QED
    BY <1>3, <1>5, <2>3, <2>4 DEF Progress
<1>8. CleanInv'
  BY <1>1, <1>2, <1>3, <1>4, <1>7, ThreadStep DEF vars
<1> QED
  BY <1>6, <1>8

LEMMA PollClearKeeps ==
  ASSUME TTypeOK, CleanInv, PollClear
  PROVE  TTypeOK' /\ CleanInv'
<1> DEFINE t == "network"
           X == IF at[t].was THEN [at[t] EXCEPT !.pc = "send"] ELSE Idle
<1>0. t \in Thread
  BY TwoThreads
<1>1. at[t] \in Polling /\ at[t].pc = "clear" /\ at[t] # Idle
  BY <1>0, Places DEF PollClear
<1>2. at[t].c \in Char /\ at[t].s \in Session /\ at[t].was \in BOOLEAN
  BY <1>0, <1>1, Places
<1>3. PICK c \in Char, s \in Session : c = at[t].c /\ s = at[t].s
  BY <1>2
<1>4. /\ pending' = [pending EXCEPT ![c] = @ \ {s}]
      /\ at' = [at EXCEPT ![t] = X] /\ Touches(t, c)
      /\ UNCHANGED <<value, ev, open, seen>>
  BY <1>3 DEF PollClear
<1>5. /\ X \in Polling \cup {Idle}
      /\ X = Idle <=> ~at[t].was
      /\ X # Idle => X.pc = "send" /\ X.c = c /\ X.s = s
  <2>1. CASE at[t].was
    <3>1. /\ [at[t] EXCEPT !.pc = "send"] \in Polling
          /\ [at[t] EXCEPT !.pc = "send"].pc = "send"
          /\ [at[t] EXCEPT !.pc = "send"].c = c
          /\ [at[t] EXCEPT !.pc = "send"].s = s
      BY <1>1, <1>3 DEF Polling
    <3>2. [at[t] EXCEPT !.pc = "send"] # Idle
      BY <3>1 DEF Idle
    <3> QED
      BY <2>1, <3>1, <3>2
  <2>2. CASE ~at[t].was
    BY <2>2
  <2> QED
    BY <2>1, <2>2
<1> HIDE DEF X
<1>6. at'[t] = X
  BY <1>0, <1>4 DEF TTypeOK
<1>7. /\ pending' \in [Char -> SUBSET Session]
      /\ pending'[c] = pending[c] \ {s}
      /\ \A d \in Char : d # c => pending'[d] = pending[d]
  BY <1>4 DEF TTypeOK, TypeOK
<1>8. TTypeOK'
  <2>1. TypeOK'
    BY <1>4, <1>7 DEF TTypeOK, TypeOK
  <2>2. at' \in [Thread -> {Idle} \cup SetValue \cup Polling]
    BY <1>4, <1>5 DEF TTypeOK
  <2>3. clean' \in [Char -> BOOLEAN]
    BY <1>0, <1>4, TouchesType
  <2> QED
    BY <2>1, <2>2, <2>3 DEF TTypeOK
<1>9. ASSUME CleanAt(c)
      PROVE  (X = Idle => CurrentOf(c)') /\ (X # Idle => Progress(t, c)')
  <2>1. Progress(t, c)
    BY <1>0, <1>1, <1>3, <1>9 DEF CleanAt, On
  <2>2. CurrentOf(c) /\ (s \in pending[c] => at[t].was)
    BY <1>1, <1>3, <2>1 DEF Progress
  <2>3. \A r \in open' \cap ev'[c] : r # s => Known(r, c)'
    BY <1>4, <1>7, <2>2 DEF CurrentOf, Known
  <2>4. ASSUME X = Idle PROVE CurrentOf(c)'
    <3>1. pending'[c] = pending[c]
      BY <1>5, <1>7, <2>2, <2>4
    <3> QED
      BY <1>4, <2>2, <3>1 DEF CurrentOf
  <2>5. ASSUME X # Idle PROVE Progress(t, c)'
    BY <1>5, <1>6, <2>3, <2>5 DEF Progress
  <2> QED
    BY <2>4, <2>5
<1>10. CleanInv'
  BY <1>0, <1>3, <1>4, <1>5, <1>7, <1>9, ThreadStep
<1> QED
  BY <1>8, <1>10

LEMMA PollSendKeeps ==
  ASSUME TTypeOK, CleanInv, PollSend
  PROVE  TTypeOK' /\ CleanInv'
<1> DEFINE t == "network"
<1>0. t \in Thread
  BY TwoThreads
<1>1. at[t] \in Polling /\ at[t].pc = "send" /\ at[t] # Idle
  BY <1>0, Places DEF PollSend
<1>2. at[t].c \in Char /\ at[t].s \in Session
  BY <1>0, <1>1, Places
<1>3. PICK c \in Char, s \in Session : c = at[t].c /\ s = at[t].s
  BY <1>2
<1>4. /\ seen' = [seen EXCEPT ![c][s] = value[c]]
      /\ at' = [at EXCEPT ![t] = Idle] /\ Touches(t, c)
      /\ UNCHANGED <<value, ev, pending, open>>
  BY <1>3 DEF PollSend, Knows
<1>5. value[c] \in Value
  BY DEF TTypeOK, TypeOK
<1>6. /\ seen' \in [Char -> [Session -> Value]]
      /\ \A d \in Char : d # c => seen'[d] = seen[d]
      /\ seen'[c][s] = value[c]
      /\ \A r \in Session : r # s => seen'[c][r] = seen[c][r]
  BY <1>4, <1>5 DEF TTypeOK, TypeOK
<1>7. TTypeOK'
  <2>1. TypeOK'
    BY <1>4, <1>6 DEF TTypeOK, TypeOK
  <2>2. at' \in [Thread -> {Idle} \cup SetValue \cup Polling]
    BY <1>4 DEF TTypeOK
  <2>3. clean' \in [Char -> BOOLEAN]
    BY <1>0, <1>4, TouchesType
  <2> QED
    BY <2>1, <2>2, <2>3 DEF TTypeOK
<1>8. ASSUME CleanAt(c) PROVE CurrentOf(c)'
  <2>1. Progress(t, c)
    BY <1>0, <1>1, <1>3, <1>8 DEF CleanAt, On
  <2>2. \A r \in open \cap ev[c] : r # s => Known(r, c)
    BY <1>1, <1>3, <2>1 DEF Progress
  <2>3. open \subseteq Session
    BY DEF TTypeOK, TypeOK
  <2> QED
    BY <1>4, <1>6, <2>2, <2>3 DEF CurrentOf, Known
<1>9. CleanInv'
  BY <1>0, <1>3, <1>4, <1>6, <1>8, ThreadStep
<1> QED
  BY <1>7, <1>9
-----------------------------------------------------------------------------
(* The other calls of the network task keep what subscribers know.         *)
LEMMA CallsKeepCurrent ==
  ASSUME TypeOK, NEW c \in Char, NEW s \in Session, NEW d \in Char, CurrentOf(d),
         Open(s) \/ Close(s) \/ Read(s, {c}) \/ \E on \in BOOLEAN : WriteOnlyEv(s, c, on)
  PROVE  CurrentOf(d)'
<1> USE DEF TypeOK, CurrentOf
<1>1. CASE Open(s)
  BY <1>1 DEF Open, Without
<1>2. CASE Close(s)
  BY <1>2 DEF Close, Without
<1>3. CASE Read(s, {c})
  <2>1. /\ UNCHANGED <<value, ev, pending, open>>
        /\ seen' = [e \in Char |-> IF e \in {c} THEN [seen[e] EXCEPT ![s] = value[e]]
                                   ELSE seen[e]]
    BY <1>3 DEF Read
  <2>2. ASSUME NEW r \in Session, seen[d][r] = value[d] \/ (r = s /\ d = c)
        PROVE  seen'[d][r] = value[d]
    BY <2>1, <2>2
  <2>3. ASSUME NEW r \in open \cap ev[d] PROVE r \in pending'[d] \/ seen'[d][r] = value'[d]
    BY <2>1, <2>2
  <2> QED
    BY <2>1, <2>3
<1>4. ASSUME NEW on \in BOOLEAN, WriteOnlyEv(s, c, on) PROVE CurrentOf(d)'
  <2>1. /\ ev' = [ev EXCEPT ![c] = WriteEv(s, c, on)]
        /\ seen' = IF on /\ s \notin ev[c] THEN [seen EXCEPT ![c][s] = value[c]] ELSE seen
        /\ UNCHANGED <<value, open>>
    BY <1>4 DEF WriteOnlyEv
  <2>2. pending[d] \subseteq pending'[d]
    BY <1>4 DEF WriteOnlyEv, SetEvent
  <2>3. \A r \in Session : seen[d][r] = value[d] => seen'[d][r] = value'[d]
    BY <2>1
  <2>4. CASE d # c
    BY <2>1, <2>2, <2>3, <2>4
  <2>5. CASE d = c
    <3>1. \A r \in ev'[c] : r \in ev[c] \/ (r = s /\ on)
      BY <2>1 DEF WriteEv
    <3>2. on /\ s \notin ev[c] => seen'[c][s] = value'[c]
      BY <2>1
    <3> QED
      BY <2>1, <2>2, <2>3, <2>5, <3>1, <3>2
  <2> QED
    BY <2>4, <2>5
<1> QED
  BY <1>1, <1>2, <1>3, <1>4

LEMMA NetworkCallKeeps ==
  ASSUME TTypeOK, CleanInv, NEW c \in Char, NetworkCall(c)
  PROVE  TTypeOK' /\ CleanInv'
<1>1. PICK s \in Session :
        Open(s) \/ Close(s) \/ Read(s, {c}) \/ \E on \in BOOLEAN : WriteOnlyEv(s, c, on)
  BY DEF NetworkCall
<1>2. /\ at["network"] = Idle /\ at' = at
      /\ clean' = [d \in Char |-> clean[d] /\ (Alone("network") \/ at["device"].c # d)]
  BY DEF NetworkCall
<1>3. TypeOK'
  <2> USE DEF TTypeOK, TypeOK
  <2>1. CASE Open(s) \/ Close(s)
    BY <2>1 DEF Open, Close, Without
  <2>2. CASE Read(s, {c})
    BY <2>2 DEF Read
  <2>3. ASSUME NEW on \in BOOLEAN, WriteOnlyEv(s, c, on) PROVE TypeOK'
    BY <2>3 DEF WriteOnlyEv, WriteEv, SetEvent
  <2> QED
    BY <1>1, <2>1, <2>2, <2>3
<1>4. TTypeOK'
  BY <1>2, <1>3 DEF TTypeOK
<1>5. ASSUME NEW d \in Char, clean'[d] PROVE CleanAt(d)'
  <2>1. clean[d] /\ ~On("device", d) /\ ~On("network", d)
    BY <1>2, <1>5, TwoThreads DEF Alone, On
  <2>2. Done(d)
    BY <2>1, TwoThreads DEF Done, On
  <2>3. CurrentOf(d)
    BY <2>1, <2>2 DEF CleanInv, CleanAt
  <2>4. CurrentOf(d)'
    BY <1>1, <2>3, CallsKeepCurrent DEF TTypeOK
  <2>5. \A t \in Thread : ~On(t, d)'
    BY <1>2, <2>1, TwoThreads DEF On
  <2> QED
    BY <2>4, <2>5, TwoThreads DEF CleanAt
<1> QED
  BY <1>4, <1>5 DEF CleanInv

LEMMA ThreadsKeep == TTypeOK /\ CleanInv /\ [TNext]_tvars => TTypeOK' /\ CleanInv'
<1> SUFFICES ASSUME TTypeOK, CleanInv, [TNext]_tvars PROVE TTypeOK' /\ CleanInv'
  OBVIOUS
<1>1. ASSUME NEW c \in Char, NEW v \in Value, DeviceChange(c, v)
      PROVE  TTypeOK' /\ CleanInv'
  BY <1>1, CallKeeps, TwoThreads DEF DeviceChange
<1>2. ASSUME NEW c \in Char, NEW v \in Value, NEW s \in Session, Put(s, c, v)
      PROVE  TTypeOK' /\ CleanInv'
  BY <1>2, CallKeeps, TwoThreads DEF Put
<1>3. ASSUME NEW t \in Thread, ValueStep(t) PROVE TTypeOK' /\ CleanInv'
  BY <1>3, ReadOldKeeps, StoreKeeps, LookKeeps, MarkKeeps DEF ValueStep
<1>4. ASSUME NEW s \in Session, NEW c \in Char, PollTest(s, c) PROVE TTypeOK' /\ CleanInv'
  BY <1>4, PollTestKeeps
<1>5. CASE PollClear
  BY <1>5, PollClearKeeps
<1>6. CASE PollSend
  BY <1>6, PollSendKeeps
<1>7. ASSUME NEW c \in Char, NetworkCall(c) PROVE TTypeOK' /\ CleanInv'
  BY <1>7, NetworkCallKeeps
<1>8. CASE UNCHANGED tvars
  <2>1. UNCHANGED <<value, ev, pending, open, seen, at, clean>>
    BY <1>8 DEF tvars, vars
  <2>2. TTypeOK'
    BY <2>1 DEF TTypeOK, TypeOK
  <2>3. CleanInv'
    BY <2>1 DEF CleanInv, CleanAt, On, Progress, Known, CurrentOf, Done
  <2> QED
    BY <2>2, <2>3
<1> QED
  BY <1>1, <1>2, <1>3, <1>4, <1>5, <1>6, <1>7, <1>8 DEF TNext

LEMMA CleanMeansCurrent == CleanInv => CurrentAfterCleanChange
BY DEF CleanInv, CleanAt, CurrentAfterCleanChange

(* The two threads, whatever the device and the network task change: the   *)
(* state keeps its types.                                                  *)
THEOREM ThreadsTypeCorrect == TSpec => []TTypeOK
BY InitClean, ThreadsKeep, PTL DEF TSpec

(* Once Value() has changed a characteristic without a step of the other   *)
(* thread in between, every subscriber of it is current, or marked to be   *)
(* told: nothing an earlier, unlocked interleaving lost stays lost.        *)
THEOREM CleanChangeMakesCurrent == TSpec => []CurrentAfterCleanChange
BY InitClean, ThreadsKeep, CleanMeansCurrent, PTL DEF TSpec
-----------------------------------------------------------------------------
(* The light bulb.                                                         *)

(* Only the network task polls, and both threads are at the bulb.  What is *)
(* "on" stays a Boolean.                                                   *)
AtBulb ==
  /\ at["device"] \notin Polling
  /\ \A t \in Thread : at[t] # Idle => at[t].c = Bulb
OnIsBoolean ==
  what = "On" =>
    /\ value[Bulb] <= 1
    /\ \A t \in Thread : at[t] \in SetValue => at[t].v <= 1

(* The lamp of a change that runs alone: the thread sets it afterwards to  *)
(* the value it asked for; the write handler has set it before.            *)
Stored(t) == at[t].pc \in {"look", "mark"}
DeviceOwes ==
  /\ at["network"] \notin SetValue
  /\ at["device"] = Idle => value[Bulb] = owes
  /\ at["device"] # Idle => at["device"].v = owes
  /\ at["device"] # Idle /\ Stored("device") => value[Bulb] = owes
NetworkShows ==
  /\ at["network"] \notin SetValue => lamp \in {value[Bulb], Shown(value[Bulb])}
  /\ at["network"] \in SetValue =>
       /\ lamp = Shown(at["network"].v)
       /\ Stored("network") => value[Bulb] = at["network"].v
LampInv ==
  /\ owes = None => at["device"] = Idle
  /\ lone => IF owes = None THEN NetworkShows ELSE DeviceOwes

BulbInv == LTypeOK /\ CleanInv /\ AtBulb /\ OnIsBoolean /\ LampInv

LEMMA Scale ==
  /\ Bulb \in Char /\ Value \subseteq Nat /\ None \notin Value /\ 0 \in Value /\ 1 \in Value
  /\ Top \in Nat /\ Turn \in Nat /\ Turn > 0 /\ Step \in Nat /\ Step <= Turn
  /\ \A v \in Value, w \in Nat : w <= v => w \in Value
  /\ \A w \in Nat : w <= Top => w \in Value
  /\ \A w \in Nat : w < Turn => w \in Value
<1>1. PICK max \in Nat \ {0} : Value = 0 .. max /\ Top <= max /\ Turn <= max + 1
  BY ValueAssumption
<1>2. Bulb \in Char
  BY BulbAssumption, NCharAssumption DEF Bulb, Char
<1> QED
  BY <1>1, <1>2, ScaleAssumption DEF None

LEMMA ShownIsValue ==
  ASSUME NEW v \in Value
  PROVE  Shown(v) \in Value
<1>1. v \in Nat /\ Top + 1 \in Nat \ {0} /\ Turn \in Nat \ {0}
  BY Scale
<1>2. v % (Top + 1) \in Nat /\ v % (Top + 1) <= Top
  BY <1>1, Scale
<1>3. v % Turn \in Nat /\ v % Turn < Turn
  BY <1>1
<1> QED
  BY <1>2, <1>3, Scale DEF Shown

(* What the joystick asks for.                                             *)
LEMMA MovedValue ==
  ASSUME NEW v \in Value, what \in Quantity, what = "On" => v <= 1, NEW up \in BOOLEAN
  PROVE  /\ Moved(v, up) \in Value
         /\ InRange(Moved(v, up)) \/ Moved(v, up) <= v
         /\ what = "On" => Moved(v, up) <= 1
<1>1. v \in Nat
  BY Scale
<1>2. CASE what = "On"
  <2>1. Moved(v, up) = 1 - v /\ v \in 0 .. 1
    BY <1>1, <1>2 DEF Moved
  <2>2. 1 - v \in Value /\ 1 - v <= 1
    BY <2>1, Scale
  <2> QED
    BY <1>2, <2>1, <2>2 DEF InRange
<1>3. CASE what = "Hue"
  <2>1. Moved(v, up) = Turned(v, up)
    BY <1>3 DEF Moved
  <2>2. Turned(v, up) \in Nat /\ (Turned(v, up) < Turn \/ Turned(v, up) <= v)
    BY <1>1, Scale DEF Turned
  <2>3. Turned(v, up) \in Value
    BY <2>2, Scale
  <2> QED
    BY <1>3, <2>1, <2>2, <2>3 DEF InRange
<1>4. CASE what \notin {"On", "Hue"}
  <2>1. Moved(v, up) = Percent(v, up)
    BY <1>4 DEF Moved
  <2>2. Percent(v, up) \in Nat /\ (Percent(v, up) <= Top \/ Percent(v, up) <= v)
    BY <1>1, Scale DEF Percent
  <2>3. Percent(v, up) \in Value
    BY <2>2, Scale
  <2> QED
    BY <1>4, <2>1, <2>2, <2>3 DEF InRange
<1> QED
  BY <1>2, <1>3, <1>4

LEMMA InitBulb == LInit => BulbInv
<1> SUFFICES ASSUME LInit PROVE BulbInv
  OBVIOUS
<1>1. TTypeOK /\ CleanInv
  BY InitClean DEF LInit
<1>2. at = [t \in Thread |-> Idle] /\ Idle \notin SetValue /\ Idle \notin Polling
  BY DEF LInit, TInit, Idle, SetValue, Polling
<1>3. value[Bulb] \in Value
  BY <1>1, Scale DEF TTypeOK, TypeOK
<1>4. LTypeOK
  BY <1>1, <1>3 DEF LInit, LTypeOK
<1>5. at["network"] = Idle /\ at["device"] = Idle
  BY <1>2, TwoThreads
<1>6. AtBulb
  BY <1>2, <1>5 DEF AtBulb
<1>7. OnIsBoolean
  BY <1>2 DEF LInit, OnIsBoolean, InRange
<1>8. LampInv
  BY <1>2, <1>5 DEF LInit, LampInv, NetworkShows
<1> QED
  BY <1>1, <1>4, <1>6, <1>7, <1>8 DEF BulbInv

LEMMA BulbImpliesLamp == BulbInv => LampShowsValue
<1> SUFFICES ASSUME BulbInv, lone, Quiet, at["network"] = Idle
             PROVE  lamp \in {value[Bulb], Shown(value[Bulb])}
  BY DEF LampShowsValue
<1>1. Idle \notin SetValue
  BY DEF Idle, SetValue
<1> QED
  BY <1>1 DEF BulbInv, LampInv, NetworkShows, Quiet
-----------------------------------------------------------------------------
(* What a step of a thread does to the value, and to where it is.          *)
LEMMA ValueStepEffect ==
  ASSUME TTypeOK, NEW t \in Thread, ValueStep(t), at[t].c = Bulb
  PROVE  /\ at[t] \in SetValue
         /\ \A u \in Thread : u # t => at'[u] = at[u]
         /\ \/ at'[t] = Idle /\ at[t].pc # "read"
            \/ /\ at'[t] \in SetValue /\ at'[t].c = Bulb /\ at'[t].v = at[t].v
               /\ at[t].pc = "read" => at'[t].pc = "store"
         /\ value'[Bulb] = IF at[t].pc = "store" THEN at[t].v ELSE value[Bulb]
<1>1. at[t] \in SetValue
  BY Places DEF ValueStep, ReadOld, Store, Look, Mark, Changing
<1>2. Bulb \in Char
  BY Scale
<1>3. CASE ReadOld(t)
  <2> DEFINE X == [at[t] EXCEPT !.old = value[Bulb], !.pc = "store"]
  <2>1. at' = [at EXCEPT ![t] = X] /\ value' = value /\ at[t].pc = "read"
    BY <1>3 DEF ReadOld, vars
  <2>2. value[Bulb] \in Value
    BY <1>2 DEF TTypeOK, TypeOK
  <2>3. X \in SetValue /\ X.c = Bulb /\ X.v = at[t].v /\ X.pc = "store"
    BY <1>1, <2>2 DEF SetValue
  <2> HIDE DEF X
  <2> QED
    BY <1>1, <2>1, <2>3 DEF TTypeOK
<1>4. CASE Store(t)
  <2> DEFINE X == IF at[t].old # at[t].v THEN [at[t] EXCEPT !.pc = "look"] ELSE Idle
  <2>1. at' = [at EXCEPT ![t] = X] /\ value' = [value EXCEPT ![Bulb] = at[t].v]
        /\ at[t].pc = "store"
    BY <1>4 DEF Store
  <2>2. /\ [at[t] EXCEPT !.pc = "look"] \in SetValue
        /\ [at[t] EXCEPT !.pc = "look"].c = Bulb
        /\ [at[t] EXCEPT !.pc = "look"].v = at[t].v
    BY <1>1 DEF SetValue
  <2>3. X = Idle \/ (X \in SetValue /\ X.c = Bulb /\ X.v = at[t].v)
    BY <2>2
  <2> HIDE DEF X
  <2>4. at'[t] = X /\ \A u \in Thread : u # t => at'[u] = at[u]
    BY <2>1 DEF TTypeOK
  <2>5. value'[Bulb] = at[t].v
    BY <1>2, <2>1 DEF TTypeOK, TypeOK
  <2> QED
    BY <1>1, <2>1, <2>3, <2>4, <2>5
<1>5. CASE Look(t)
  <2>1. value' = value /\ at[t].pc = "look"
    BY <1>5 DEF Look, vars
  <2>2. PICK X : at' = [at EXCEPT ![t] = X] /\ X \in {[at[t] EXCEPT !.pc = "mark"], Following(t)}
    BY <1>5 DEF Look
  <2>3. X = Idle \/ (X \in SetValue /\ X.c = Bulb /\ X.v = at[t].v)
    <3>1. CASE X = [at[t] EXCEPT !.pc = "mark"]
      BY <1>1, <3>1 DEF SetValue
    <3>2. CASE X = Following(t)
      BY <1>1, <3>2, FollowingTurn
    <3> QED
      BY <2>2, <3>1, <3>2
  <2>4. at'[t] = X /\ \A u \in Thread : u # t => at'[u] = at[u]
    BY <2>2 DEF TTypeOK
  <2> QED
    BY <1>1, <2>1, <2>3, <2>4
<1>6. CASE Mark(t)
  <2>1. value' = value /\ at[t].pc = "mark" /\ at' = [at EXCEPT ![t] = Following(t)]
    BY <1>6 DEF Mark
  <2>2. at'[t] = Following(t) /\ \A u \in Thread : u # t => at'[u] = at[u]
    BY <2>1 DEF TTypeOK
  <2>3. Following(t) = Idle \/ (Following(t) \in SetValue /\ Following(t).c = Bulb
                                /\ Following(t).v = at[t].v)
    BY <1>1, FollowingTurn
  <2> QED
    BY <1>1, <2>1, <2>2, <2>3
<1> QED
  BY <1>3, <1>4, <1>5, <1>6 DEF ValueStep

LEMMA InValueKeeps ==
  ASSUME BulbInv, TTypeOK', CleanInv', InValue
  PROVE  BulbInv'
<1>1. PICK t \in Thread : ValueStep(t)
  BY DEF InValue
<1>2. what' = what /\ lamp' = lamp /\ owes' = owes /\ lone' = lone
  BY DEF InValue
<1>3. TTypeOK /\ AtBulb /\ OnIsBoolean /\ LampInv
  BY DEF BulbInv, LTypeOK
<1>4. at[t] # Idle /\ at[t].c = Bulb /\ at[t] \in SetValue
  <2>1. at[t] # Idle
    BY <1>1, <1>3, Places DEF ValueStep, ReadOld, Store, Look, Mark
  <2>2. at[t].c = Bulb
    BY <1>3, <2>1 DEF AtBulb
  <2> QED
    BY <1>1, <1>3, <2>1, <2>2, ValueStepEffect
<1>5. /\ \A u \in Thread : u # t => at'[u] = at[u]
      /\ \/ at'[t] = Idle /\ at[t].pc # "read"
         \/ /\ at'[t] \in SetValue /\ at'[t].c = Bulb /\ at'[t].v = at[t].v
            /\ at[t].pc = "read" => at'[t].pc = "store"
      /\ value'[Bulb] = IF at[t].pc = "store" THEN at[t].v ELSE value[Bulb]
  BY <1>1, <1>3, <1>4, ValueStepEffect
<1>6. /\ Idle \notin SetValue /\ Idle \notin Polling
      /\ \A x \in SetValue : x \notin Polling
  BY DEF Idle, SetValue, Polling
<1>7. LTypeOK'
  BY <1>2 DEF BulbInv, LTypeOK
<1>8. AtBulb'
  BY <1>3, <1>5, <1>6, TwoThreads DEF AtBulb
<1>9. OnIsBoolean'
  BY <1>2, <1>3, <1>4, <1>5, <1>6 DEF OnIsBoolean
<1>10. at[t].pc \in {"read", "store", "look", "mark"}
  BY <1>4 DEF SetValue
<1>11. LampInv'
  <2>1. owes' = None => at'["device"] = Idle
    BY <1>2, <1>3, <1>4, <1>5, TwoThreads DEF LampInv
  <2>2. ASSUME lone', owes' # None PROVE DeviceOwes'
    <3>1. DeviceOwes
      BY <1>2, <1>3, <2>2 DEF LampInv
    <3>2. t = "device" /\ at'["network"] = at["network"]
      BY <1>4, <1>5, <3>1, TwoThreads DEF DeviceOwes
    <3>3. at[t].v = owes
      BY <1>4, <3>1, <3>2 DEF DeviceOwes
    <3>4. at[t].pc # "read" => value'[Bulb] = owes
      BY <1>4, <1>5, <1>10, <3>1, <3>2, <3>3 DEF DeviceOwes, Stored
    <3>5. at'["network"] \notin SetValue
      BY <3>1, <3>2 DEF DeviceOwes
    <3>6. CASE at'[t] = Idle
      <4>1. value'[Bulb] = owes
        BY <1>5, <1>6, <3>4, <3>6
      <4> QED
        BY <1>2, <3>2, <3>5, <3>6, <4>1 DEF DeviceOwes
    <3>7. CASE at'[t] \in SetValue
      <4>1. at'[t].v = owes /\ (at'[t].pc \in {"look", "mark"} => value'[Bulb] = owes)
        BY <1>5, <1>6, <3>3, <3>4, <3>7
      <4> QED
        BY <1>2, <1>6, <3>2, <3>5, <3>7, <4>1 DEF DeviceOwes, Stored
    <3> QED
      BY <1>5, <3>6, <3>7
  <2>3. ASSUME lone', owes' = None PROVE NetworkShows'
    <3>1. NetworkShows /\ at["device"] = Idle
      BY <1>2, <1>3, <2>3 DEF LampInv
    <3>2. t = "network"
      BY <1>4, <3>1, TwoThreads
    <3>3. lamp = Shown(at[t].v)
      BY <1>4, <3>1, <3>2 DEF NetworkShows
    <3>4. at[t].pc # "read" => value'[Bulb] = at[t].v
      BY <1>4, <1>5, <1>10, <3>1, <3>2 DEF NetworkShows, Stored
    <3>5. \A v : Shown(v)' = Shown(v)
      BY <1>2 DEF Shown
    <3>6. CASE at'[t] = Idle
      <4>1. value'[Bulb] = at[t].v
        BY <1>5, <1>6, <3>4, <3>6
      <4>2. lamp' = Shown(at[t].v)
        BY <1>2, <3>3
      <4>3. Shown(value[Bulb])' = Shown(at[t].v)
        BY <1>2, <4>1 DEF Shown
      <4> QED
        BY <1>6, <3>2, <3>6, <4>2, <4>3 DEF NetworkShows
    <3>7. CASE at'[t] \in SetValue
      <4>1. at'[t].v = at[t].v /\ (at[t].pc = "read" => at'[t].pc = "store")
        BY <1>5, <1>6, <3>7
      <4>2. lamp' = Shown(at["network"].v)'
        BY <1>2, <3>2, <3>3, <4>1 DEF Shown
      <4>3. Stored("network")' => value'[Bulb] = at'["network"].v
        BY <3>2, <3>4, <4>1 DEF Stored
      <4> QED
        BY <3>2, <3>7, <4>2, <4>3 DEF NetworkShows
    <3> QED
      BY <1>5, <3>6, <3>7
  <2> QED
    BY <2>1, <2>2, <2>3 DEF LampInv
<1> QED
  BY <1>7, <1>8, <1>9, <1>11 DEF BulbInv

LEMMA WrittenKeeps ==
  ASSUME BulbInv, TTypeOK', CleanInv', NEW s \in Session, NEW v \in Value, Written(s, v)
  PROVE  BulbInv'
<1> DEFINE X == [pc |-> "read", c |-> Bulb, v |-> v, old |-> v, s |-> 0, except |-> s]
<1>1. TTypeOK /\ AtBulb /\ OnIsBoolean /\ LampInv
  BY DEF BulbInv, LTypeOK
<1>2. /\ what = "On" => v <= 1
      /\ at["network"] = Idle /\ at' = [at EXCEPT !["network"] = X]
      /\ UNCHANGED <<vars, what, owes>>
      /\ lamp' = Shown(v) /\ (lone' <=> Quiet) /\ lone' \in BOOLEAN
  BY DEF Written, Put, Call, Quiet
<1>3. X \in SetValue /\ X.pc = "read" /\ X.c = Bulb /\ X.v = v
  BY Numbering, Scale DEF SetValue
<1> HIDE DEF X
<1>4. at'["network"] = X /\ at'["device"] = at["device"] /\ X \notin Polling /\ X # Idle
  BY <1>1, <1>2, <1>3, TwoThreads DEF TTypeOK, Idle, SetValue, Polling
<1>5. LTypeOK'
  BY <1>2, ShownIsValue DEF BulbInv, LTypeOK
<1>6. AtBulb'
  BY <1>1, <1>3, <1>4, TwoThreads DEF AtBulb
<1>7. OnIsBoolean'
  BY <1>1, <1>2, <1>3, <1>4, TwoThreads DEF OnIsBoolean, vars
<1>8. LampInv'
  <2>1. owes' = None => at'["device"] = Idle
    BY <1>1, <1>2, <1>4 DEF LampInv
  <2>2. lone' => owes' = None
    BY <1>2 DEF Quiet
  <2>3. NetworkShows'
    <3>1. lamp' = Shown(at["network"].v)'
      BY <1>2, <1>3, <1>4 DEF Shown
    <3>2. ~Stored("network")'
      BY <1>3, <1>4 DEF Stored
    <3> QED
      BY <1>3, <1>4, <3>1, <3>2 DEF NetworkShows
  <2> QED
    BY <2>1, <2>2, <2>3 DEF LampInv
<1> QED
  BY <1>5, <1>6, <1>7, <1>8 DEF BulbInv

LEMMA JoystickKeeps ==
  ASSUME BulbInv, TTypeOK', CleanInv', NEW up \in BOOLEAN, Joystick(up)
  PROVE  BulbInv'
<1> DEFINE v == Moved(value[Bulb], up)
           X == [pc |-> "read", c |-> Bulb, v |-> v, old |-> v, s |-> 0, except |-> NoOne]
<1>1. TTypeOK /\ AtBulb /\ OnIsBoolean /\ LampInv /\ what \in Quantity
  BY DEF BulbInv, LTypeOK
<1>2. value[Bulb] \in Value
  BY <1>1, Scale DEF TTypeOK, TypeOK
<1>3. v \in Value /\ (what = "On" => v <= 1)
  BY <1>1, <1>2, MovedValue DEF OnIsBoolean
<1> HIDE DEF v
<1>4. /\ at["device"] = Idle /\ at' = [at EXCEPT !["device"] = X]
      /\ UNCHANGED <<vars, what, lamp>> /\ owes' = v
      /\ lone' = Alone("device")
  BY DEF Joystick, DeviceChange, Call, v
<1>5. X \in SetValue /\ X.pc = "read" /\ X.c = Bulb /\ X.v = v
  BY <1>3, Numbering, Scale DEF SetValue
<1> HIDE DEF X
<1>6. /\ at'["device"] = X /\ at'["network"] = at["network"]
      /\ X \notin Polling /\ X # Idle /\ Idle \notin SetValue
  BY <1>1, <1>4, <1>5, TwoThreads DEF TTypeOK, Idle, SetValue, Polling
<1>7. LTypeOK'
  <2>1. lone' \in BOOLEAN
    BY <1>4 DEF Alone
  <2> QED
    BY <1>3, <1>4, <2>1 DEF BulbInv, LTypeOK
<1>8. AtBulb'
  BY <1>1, <1>5, <1>6, TwoThreads DEF AtBulb
<1>9. OnIsBoolean'
  BY <1>1, <1>3, <1>4, <1>5, <1>6, TwoThreads DEF OnIsBoolean, vars
<1>10. LampInv'
  <2>1. owes' # None
    BY <1>3, <1>4, Scale
  <2>2. lone' => at["network"] = Idle
    BY <1>4, TwoThreads DEF Alone
  <2>3. at["network"] = Idle => DeviceOwes'
    BY <1>4, <1>5, <1>6 DEF DeviceOwes, Stored
  <2> QED
    BY <2>1, <2>2, <2>3 DEF LampInv
<1> QED
  BY <1>7, <1>8, <1>9, <1>10 DEF BulbInv

LEMMA SetLampKeeps ==
  ASSUME BulbInv, TTypeOK', CleanInv', SetLamp
  PROVE  BulbInv'
<1>1. TTypeOK /\ AtBulb /\ OnIsBoolean /\ LampInv
  BY DEF BulbInv, LTypeOK
<1>2. /\ owes # None /\ at["device"] = Idle /\ lamp' = owes /\ owes' = None
      /\ lone' = (lone /\ Alone("device")) /\ at' = at /\ value' = value /\ what' = what
  BY DEF SetLamp, tvars, vars
<1>3. LTypeOK'
  BY <1>2 DEF BulbInv, LTypeOK, Alone
<1>4. AtBulb' /\ OnIsBoolean'
  BY <1>1, <1>2 DEF AtBulb, OnIsBoolean
<1>5. LampInv'
  <2>1. lone' => lone /\ at["network"] = Idle
    BY <1>2, TwoThreads DEF Alone
  <2>2. lone => value[Bulb] = owes
    BY <1>1, <1>2 DEF LampInv, DeviceOwes
  <2>3. Idle \notin SetValue
    BY DEF Idle, SetValue
  <2>4. lone' => NetworkShows'
    BY <1>2, <2>1, <2>2, <2>3 DEF NetworkShows
  <2> QED
    BY <1>2, <2>4 DEF LampInv
<1> QED
  BY <1>3, <1>4, <1>5 DEF BulbInv

(* A poll or another call: the network task is where it sets no value.     *)
SetsNothing ==
  /\ value' = value /\ at'["device"] = at["device"]
  /\ at["network"] \notin SetValue
  /\ at'["network"] = Idle \/ (at'["network"] \in Polling /\ at'["network"].c = Bulb)

LEMMA OthersKeep ==
  ASSUME BulbInv, TTypeOK', CleanInv', Others
  PROVE  BulbInv'
<1>1. TTypeOK /\ AtBulb /\ OnIsBoolean /\ LampInv
  BY DEF BulbInv, LTypeOK
<1>2. what' = what /\ lamp' = lamp /\ owes' = owes /\ lone' = lone
  BY DEF Others
<1>3. Idle \notin SetValue /\ Idle \notin Polling /\ \A x \in SetValue : x \notin Polling
  BY DEF Idle, SetValue, Polling
<1>4. SetsNothing
  <2>1. ASSUME NEW s \in Session, PollTest(s, Bulb)
        PROVE  SetsNothing
    <3> DEFINE X == [pc |-> "clear", c |-> Bulb, s |-> s, was |-> s \in pending[Bulb]]
    <3>1. at["network"] = Idle /\ at' = [at EXCEPT !["network"] = X] /\ value' = value
      BY <2>1 DEF PollTest, vars
    <3>2. X \in Polling /\ X.c = Bulb
      BY Scale DEF Polling
    <3> HIDE DEF X
    <3> QED
      BY <1>1, <1>3, <3>1, <3>2, TwoThreads DEF TTypeOK, SetsNothing
  <2>2. CASE PollClear
    <3>1. at["network"] \in Polling /\ at["network"].c = Bulb
      BY <1>1, <2>2, Places, TwoThreads DEF PollClear, AtBulb, Idle
    <3>2. PICK X \in {[at["network"] EXCEPT !.pc = "send"], Idle} :
            at' = [at EXCEPT !["network"] = X] /\ value' = value
      BY <2>2 DEF PollClear
    <3>3. X = Idle \/ (X \in Polling /\ X.c = Bulb)
      BY <3>1 DEF Polling
    <3> QED
      BY <1>1, <1>3, <3>1, <3>2, <3>3, TwoThreads DEF TTypeOK, SetsNothing
  <2>3. CASE PollSend
    <3>1. at["network"] \in Polling
      BY <1>1, <2>3, Places, TwoThreads DEF PollSend
    <3>2. at' = [at EXCEPT !["network"] = Idle] /\ value' = value
      BY <2>3 DEF PollSend
    <3> QED
      BY <1>1, <1>3, <3>1, <3>2, TwoThreads DEF TTypeOK, SetsNothing
  <2>4. CASE NetworkCall(Bulb)
    <3>1. at["network"] = Idle /\ at' = at
      BY <2>4 DEF NetworkCall
    <3>2. value' = value
      BY <2>4 DEF NetworkCall, Open, Close, Read, WriteOnlyEv
    <3> QED
      BY <1>3, <3>1, <3>2 DEF SetsNothing
  <2> QED
    BY <2>1, <2>2, <2>3, <2>4 DEF Others
<1>5. LTypeOK'
  BY <1>2 DEF BulbInv, LTypeOK
<1>6. at'["network"] \notin SetValue
  BY <1>3, <1>4 DEF SetsNothing
<1>7. AtBulb'
  BY <1>1, <1>3, <1>4, TwoThreads DEF AtBulb, SetsNothing
<1>8. OnIsBoolean'
  BY <1>1, <1>2, <1>4, <1>6, TwoThreads DEF OnIsBoolean, SetsNothing
<1>9. LampInv'
  <2>1. DeviceOwes => DeviceOwes'
    BY <1>2, <1>4, <1>6 DEF DeviceOwes, Stored, SetsNothing
  <2>2. NetworkShows => NetworkShows'
    <3>1. Shown(value[Bulb])' = Shown(value[Bulb])
      BY <1>2, <1>4 DEF Shown, SetsNothing
    <3> QED
      BY <1>2, <1>4, <1>6, <3>1 DEF NetworkShows, SetsNothing
  <2> QED
    BY <1>1, <1>2, <1>4, <2>1, <2>2 DEF LampInv, SetsNothing
<1> QED
  BY <1>5, <1>7, <1>8, <1>9 DEF BulbInv
-----------------------------------------------------------------------------
(* The bulb's steps are steps of the two threads.                          *)
LEMMA BulbStepIsThreads ==
  ASSUME BulbInv, LNext
  PROVE  TNext \/ UNCHANGED tvars
<1>1. Bulb \in Char
  BY Scale
<1>2. ASSUME NEW s \in Session, NEW v \in Value, Written(s, v) PROVE TNext
  BY <1>1, <1>2 DEF Written, TNext
<1>3. ASSUME NEW up \in BOOLEAN, Joystick(up) PROVE TNext
  <2>1. value[Bulb] \in Value /\ what \in Quantity /\ (what = "On" => value[Bulb] <= 1)
    BY <1>1 DEF BulbInv, LTypeOK, TTypeOK, TypeOK, OnIsBoolean
  <2>2. Moved(value[Bulb], up) \in Value
    BY <2>1, MovedValue
  <2> QED
    BY <1>1, <1>3, <2>2 DEF Joystick, TNext
<1>4. CASE SetLamp
  BY <1>4 DEF SetLamp
<1>5. CASE InValue
  BY <1>5 DEF InValue, TNext
<1>6. CASE Others
  BY <1>1, <1>6 DEF Others, TNext
<1> QED
  BY <1>2, <1>3, <1>4, <1>5, <1>6 DEF LNext

LEMMA BulbKeeps == BulbInv /\ [LNext]_lvars => BulbInv'
<1> SUFFICES ASSUME BulbInv, [LNext]_lvars PROVE BulbInv'
  OBVIOUS
<1>1. TTypeOK' /\ CleanInv'
  <2>1. TNext \/ UNCHANGED tvars
    BY BulbStepIsThreads DEF lvars
  <2> QED
    BY <2>1, ThreadsKeep DEF BulbInv, LTypeOK
<1>2. CASE LNext
  BY <1>1, <1>2, WrittenKeeps, JoystickKeeps, SetLampKeeps, InValueKeeps, OthersKeep DEF LNext
<1>3. CASE UNCHANGED lvars
  <2>1. UNCHANGED <<value, at, what, lamp, owes, lone>>
    BY <1>3 DEF lvars, tvars, vars
  <2>2. LTypeOK' /\ AtBulb' /\ OnIsBoolean'
    BY <1>1, <2>1 DEF BulbInv, LTypeOK, AtBulb, OnIsBoolean
  <2>3. LampInv'
    BY <2>1 DEF BulbInv, LampInv, NetworkShows, DeviceOwes, Stored, Shown
  <2> QED
    BY <1>1, <2>2, <2>3 DEF BulbInv
<1> QED
  BY <1>2, <1>3

LEMMA JoystickStep == BulbInv /\ [LNext]_lvars =>
  [owes' # owes /\ owes' # None => InRange(owes') \/ owes' <= value[Bulb]]_lvars
<1> SUFFICES ASSUME BulbInv, LNext, owes' # owes, owes' # None
             PROVE  InRange(owes') \/ owes' <= value[Bulb]
  BY DEF lvars
<1>1. PICK up \in BOOLEAN : Joystick(up)
  BY DEF LNext, Written, SetLamp, InValue, Others
<1>2. value[Bulb] \in Value /\ what \in Quantity /\ (what = "On" => value[Bulb] <= 1)
  BY Scale DEF BulbInv, LTypeOK, TTypeOK, TypeOK, OnIsBoolean
<1>3. owes' = Moved(value[Bulb], up)
  BY <1>1 DEF Joystick
<1> QED
  BY <1>2, <1>3, MovedValue

(* The bulb's state has its types: no quantity leaves what its type holds. *)
THEOREM BulbTypeCorrect == LSpec => []LTypeOK
<1>1. BulbInv => LTypeOK
  BY DEF BulbInv
<1> QED
  BY <1>1, InitBulb, BulbKeeps, PTL DEF LSpec

(* The same of the bulb as of the two threads: a clean change is known to  *)
(* every subscriber, or going to be told.                                  *)
THEOREM BulbSubscribersAreCurrent == LSpec => []CurrentAfterCleanChange
<1>1. BulbInv => CurrentAfterCleanChange
  BY CleanMeansCurrent DEF BulbInv
<1> QED
  BY <1>1, InitBulb, BulbKeeps, PTL DEF LSpec

(* After a change that ran alone from its first step to the lamp, lamp and *)
(* characteristic agree, whatever the two threads did to them before.      *)
THEOREM LampAgrees == LSpec => []LampShowsValue
BY InitBulb, BulbKeeps, BulbImpliesLamp, PTL DEF LSpec

(* The joystick never asks for a value out of range, other than coming     *)
(* back from one a controller has written.                                 *)
THEOREM JoystickInRange == LSpec => JoystickKeepsRange
BY InitBulb, BulbKeeps, JoystickStep, PTL DEF LSpec, JoystickKeepsRange
==============================================================================
