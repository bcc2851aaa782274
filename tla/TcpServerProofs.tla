-------------------------- MODULE TcpServerProofs --------------------------
(***************************************************************************)
(* Proofs about TcpServer, for any sets of connections and any number of   *)
(* sessions.                                                               *)
(*                                                                         *)
(* That sessions are owned and none leaks is one invariant: a new client   *)
(* gets a session no other has because every session that is bound or was  *)
(* lost is open, and Disconnect frees exactly its own because no other     *)
(* slot has it.  IInv adds what this rests on: clients have been accepted, *)
(* so that accept never takes a connection twice, and the slot the task    *)
(* reads from has a session.                                               *)
(***************************************************************************)
EXTENDS TcpServer, TLAPS

ClientsAccepted == \A i \in Slot : client[i] # Free => conn[client[i]] = "accepted"
ReaderIsBound == pc = "recv" => slot \in Bound
LostAreNotBound == \A i \in Bound : sess[i] \notin lost

(* Only a slot whose turn is still to come has a counter over the limit.   *)
CountsInLimit ==
  \A i \in 0 .. sid_max :
    pollCount[i] > PollLimit => (pc = "slot" /\ slot <= i) \/ (pc = "recv" /\ slot < i)

(* The counter of a slot is the silence of the client in it.               *)
CountsAreSilence ==
  /\ \A c \in Conn : conn[c] # "accepted" => silence[c] = 0
  /\ \A i \in 0 .. sid_max : client[i] # Free => pollCount[i] = silence[client[i]]

IInv ==
  /\ TypeOK
  /\ SessionsAreOwned
  /\ NoSessionLeak
  /\ ClientsAccepted
  /\ ReaderIsBound
  /\ LostAreNotBound
  /\ CountsInLimit
  /\ CountsAreSilence

LEMMA Numbers ==
  /\ MaxHttpSessions \in Nat /\ MaxHttpSessions > 0
  /\ PollLimit \in Nat
  /\ sid_max = MaxHttpSessions - 1 /\ sid_invalid = MaxHttpSessions + 1
  /\ Slot = 0 .. MaxHttpSessions /\ Sid = 0 .. MaxHttpSessions
  /\ sid_invalid \notin Sid /\ MaxHttpSessions \in Slot
  /\ 0 .. sid_max \subseteq Slot
BY MaxHttpSessionsAssumption, PollLimitAssumption DEF Slot, Sid, sid_max, sid_invalid

(* A bound session is one that can be served.                              *)
LEMMA BoundSessions ==
  ASSUME TypeOK, NoSessionLeak, NEW i \in Bound
  PROVE  sess[i] \in 0 .. sid_max /\ sess[i] \in open
<1>1. sess[i] \in open \ {MaxHttpSessions}
  BY DEF NoSessionLeak
<1>2. sess[i] \in Sid /\ sess[i] # MaxHttpSessions
  BY <1>1 DEF TypeOK
<1> QED
  BY <1>1, <1>2, MaxHttpSessionsAssumption DEF Sid, sid_max

(* The turn of a slot ends.                                                *)
LEMMA NextSlotGoes ==
  ASSUME slot \in Slot, NextSlot
  PROVE  /\ pc' \in {"slot", "head"} /\ slot' \in Slot
         /\ pc' = "slot" => slot' = slot + 1
         /\ pc' = "head" => slot = MaxHttpSessions
<1>1. CASE slot < MaxHttpSessions
  <2>1. pc' = "slot" /\ slot' = slot + 1
    BY <1>1 DEF NextSlot, GoTo
  <2> QED
    BY <1>1, <2>1, Numbers
<1>2. CASE ~(slot < MaxHttpSessions)
  <2>1. pc' = "head" /\ slot' = 0
    BY <1>2 DEF NextSlot, GoTo
  <2> QED
    BY <1>2, <2>1, Numbers
<1> QED
  BY <1>1, <1>2

LEMMA TypeStep == IInv /\ [Next]_vars => TypeOK'
<1> SUFFICES ASSUME IInv, [Next]_vars PROVE TypeOK'
  OBVIOUS
<1> USE Numbers, FreeAssumption, InputAssumption
<1>0. TypeOK
  BY DEF IInv
<1>d. ASSUME NEW sid \in Sid \cup {sid_invalid}, NEW opened \in SUBSET Sid,
             Disconnect(slot, sid, opened)
      PROVE  /\ conn' \in [Conn -> {"off", "queued", "accepted"}]
             /\ rx' \in [Conn -> {"none"} \cup Input]
             /\ client' \in [Slot -> Conn \cup {Free}]
             /\ sess' \in [Slot -> Sid \cup {sid_invalid}]
             /\ open' \in SUBSET Sid /\ secured' \in SUBSET Sid /\ events' \in SUBSET Sid
  BY <1>0, <1>d DEF TypeOK, Disconnect
<1>c. ASSUME NEW i \in Slot, ResetCount(i)
      PROVE  pollCount' \in [0 .. sid_max -> 0 .. PollLimit + 1]
  BY <1>0, <1>c DEF TypeOK, ResetCount
<1>h. ASSUME NEW c, Heard(c) PROVE silence' \in [Conn -> 0 .. PollLimit + 1]
  <2>1. 0 \in 0 .. PollLimit + 1
    OBVIOUS
  <2>2. silence \in [Conn -> 0 .. PollLimit + 1] /\ silence' = [silence EXCEPT ![c] = 0]
    BY <1>0, <1>h DEF TypeOK, Heard
  <2> QED
    BY <2>1, <2>2
<1>1. ASSUME NEW c \in Conn, Connect(c) PROVE TypeOK'
  BY <1>0, <1>1 DEF TypeOK, Connect, table, http, task
<1>2. ASSUME NEW c \in Conn, NEW x \in Input, Send(c, x) PROVE TypeOK'
  BY <1>0, <1>2 DEF TypeOK, Send, table, http, task
<1>3. ASSUME NEW s \in 0 .. sid_max, Change(s) PROVE TypeOK'
  BY <1>0, <1>3 DEF TypeOK, Change, table, task
<1>4. CASE LoopHead
  BY <1>0, <1>4 DEF TypeOK, LoopHead, GoTo, table, http
<1>5. CASE Select
  BY <1>0, <1>5 DEF TypeOK, Select, GoTo, Readable, Clients, table, http
<1>6. CASE SelectTimeout
  <2>1. pollCount' \in [0 .. sid_max -> 0 .. PollLimit + 1]
    <3>1. \A i \in 0 .. sid_max : pollCount[i] \in 0 .. PollLimit
      BY <1>0, <1>6 DEF SelectTimeout, IInv, CountsInLimit, TypeOK
    <3> QED
      BY <3>1, <1>6 DEF SelectTimeout
  <2>2. events' \in SUBSET Sid
    BY <1>0, <1>6 DEF TypeOK, SelectTimeout
  <2>3. pc' = "slot" /\ slot' = 0 /\ ready' = {} /\ except' = {}
    BY <1>6 DEF SelectTimeout, GoTo
  <2>4. UNCHANGED <<conn, rx, client, sess, open, secured, running, lost>>
    BY <1>6 DEF SelectTimeout, table
  <2>5. silence' \in [Conn -> 0 .. PollLimit + 1]
    BY <1>0, <1>6 DEF TypeOK, SelectTimeout, CountSilence
  <2> QED
    BY <1>0, <2>1, <2>2, <2>3, <2>4, <2>5 DEF TypeOK
<1>7. CASE SelectError
  BY <1>0, <1>7 DEF TypeOK, SelectError, GoTo, Clients, table, http
<1>8. ASSUME NEW c \in Conn, Accept(c) PROVE TypeOK'
  <2>1. client' \in [Slot -> Conn \cup {Free}]
    BY <1>0, <1>8 DEF TypeOK, Accept, Take, FirstOf, FreeSlots
  <2>2. pollCount' \in [0 .. sid_max -> 0 .. PollLimit + 1]
    BY <1>0, <1>8, <1>c DEF TypeOK, Accept, Take, FirstOf, FreeSlots
  <2> QED
    BY <1>0, <1>8, <2>1, <2>2 DEF TypeOK, Accept, GoTo, http
<1>9. CASE AcceptError
  <2>1. conn' \in [Conn -> {"off", "queued", "accepted"}]
    BY <1>0, <1>9 DEF TypeOK, AcceptError
  <2> QED
    BY <1>0, <1>9, <2>1 DEF TypeOK, AcceptError, GoTo, table, http
<1>10. CASE SlotIdle
  BY <1>0, <1>10, NextSlotGoes DEF TypeOK, SlotIdle, table, http
<1>11. CASE SlotTimeout
  <2>1. Disconnect(slot, sess[slot], open) /\ sess[slot] \in Sid \cup {sid_invalid}
    BY <1>0, <1>11 DEF TypeOK, SlotTimeout
  <2> QED
    BY <1>0, <1>11, <2>1, <1>d, <1>c, <1>h, NextSlotGoes DEF TypeOK, SlotTimeout
<1>12. CASE SlotRead
  <2>1. PICK sid \in SessionFor(slot) :
          /\ sid <= sid_max
          /\ sess' = [sess EXCEPT ![slot] = sid]
          /\ open' = open \cup {sid}
    BY <1>12 DEF SlotRead
  <2>2. sid \in Sid
    BY <1>0, <2>1 DEF TypeOK, SessionFor, FirstOf, FreeSids
  <2> QED
    BY <1>0, <1>12, <2>1, <2>2, <1>c, <1>h DEF TypeOK, SlotRead, GoTo
<1>13. CASE SlotRefuse
  <2>1. PICK sid \in SessionFor(slot) : Disconnect(slot, sid, open \cup ({sid} \cap Sid))
    BY <1>13 DEF SlotRefuse
  <2>2. sid \in Sid \cup {sid_invalid}
    BY <1>0, <2>1 DEF TypeOK, SessionFor, FirstOf, FreeSids
  <2> QED
    BY <1>0, <1>13, <2>1, <2>2, <1>d, <1>c, <1>h, NextSlotGoes DEF TypeOK, SlotRefuse
<1>14. CASE RecvPart
  BY <1>0, <1>14 DEF TypeOK, RecvPart, table, http, task
<1>15. CASE RecvRequest
  <2>1. sess[slot] \in Sid
    BY <1>0, <1>15 DEF TypeOK, RecvRequest, IInv, ReaderIsBound, Bound
  <2> QED
    BY <1>0, <1>15, <2>1, NextSlotGoes DEF TypeOK, RecvRequest, table
<1>16. CASE RecvClose
  <2>1. Disconnect(slot, sess[slot], open) /\ sess[slot] \in Sid \cup {sid_invalid}
    BY <1>0, <1>16 DEF TypeOK, RecvClose
  <2> QED
    BY <1>0, <1>16, <2>1, <1>d, <1>h, NextSlotGoes DEF TypeOK, RecvClose
<1>17. CASE Exit
  BY <1>0, <1>17 DEF TypeOK, Exit, GoTo, http
<1>18. CASE Stop
  BY <1>0, <1>18 DEF TypeOK, Stop, table, http
<1>19. CASE Start
  BY <1>0, <1>19 DEF TypeOK, Start, GoTo, http
<1>20. CASE UNCHANGED vars
  BY <1>0, <1>20 DEF TypeOK, vars, table, http, task
<1> QED
  BY <1>1, <1>2, <1>3, <1>4, <1>5, <1>6, <1>7, <1>8, <1>9, <1>10, <1>11, <1>12, <1>13,
     <1>14, <1>15, <1>16, <1>17, <1>18, <1>19, <1>20 DEF Next, Task
-----------------------------------------------------------------------------
LEMMA CountsStep == IInv /\ [Next]_vars => CountsInLimit'
<1> SUFFICES ASSUME IInv, [Next]_vars PROVE CountsInLimit'
  OBVIOUS
<1> USE Numbers
<1>0. TypeOK /\ CountsInLimit
  BY DEF IInv
<1>1. ASSUME UNCHANGED <<pollCount, pc, slot>> PROVE CountsInLimit'
  BY <1>0, <1>1 DEF CountsInLimit
(* Outside the turns of the slots all counters are in the limit.           *)
<1>2. ASSUME pc \notin {"slot", "recv"}, UNCHANGED pollCount PROVE CountsInLimit'
  BY <1>0, <1>2 DEF CountsInLimit
<1>3. ASSUME pc \notin {"slot", "recv"}, NEW i \in Slot, ResetCount(i)
      PROVE  CountsInLimit'
  BY <1>0, <1>3, PollLimitAssumption DEF CountsInLimit, ResetCount, TypeOK
(* A turn ends with the slot's own counter in the limit.                   *)
<1>4. ASSUME pc \in {"slot", "recv"}, NextSlot, slot \in Slot,
             \A i \in 0 .. sid_max :
               pollCount'[i] > PollLimit => pollCount[i] > PollLimit /\ i # slot
      PROVE  CountsInLimit'
  <2>1. ASSUME NEW i \in 0 .. sid_max, pollCount'[i] > PollLimit
        PROVE  pc' = "slot" /\ slot' <= i
    <3>1. pollCount[i] > PollLimit /\ i # slot
      BY <1>4, <2>1
    <3>2. slot < i
      BY <1>0, <1>4, <3>1 DEF CountsInLimit
    <3>3. slot < MaxHttpSessions
      <4>1. i \in Nat /\ i <= MaxHttpSessions - 1
        BY MaxHttpSessionsAssumption DEF sid_max
      <4>2. slot \in Nat
        BY <1>4 DEF Slot
      <4> QED
        BY <3>2, <4>1, <4>2, MaxHttpSessionsAssumption
    <3>4. pc' = "slot" /\ slot' = slot + 1
      BY <1>4, <3>3, NextSlotGoes
    <3> QED
      BY <1>4, <3>2, <3>4
  <2> QED
    BY <2>1 DEF CountsInLimit
<1>5. ASSUME ResetCount(slot), slot \in Slot, NEW i \in 0 .. sid_max, pollCount'[i] > PollLimit
      PROVE  pollCount[i] > PollLimit /\ i # slot
  BY <1>0, <1>5, PollLimitAssumption DEF ResetCount, TypeOK
<1>s. slot \in Slot
  BY <1>0 DEF TypeOK
<1>6. ASSUME NEW c \in Conn, Connect(c) \/ \E x \in Input : Send(c, x) PROVE CountsInLimit'
  BY <1>1, <1>6 DEF Connect, Send, table, http, task
<1>7. ASSUME NEW s \in 0 .. sid_max, Change(s) PROVE CountsInLimit'
  BY <1>1, <1>7 DEF Change, table, task
<1>8. CASE LoopHead \/ Select \/ SelectError \/ AcceptError \/ Exit \/ Start
  BY <1>2, <1>8 DEF LoopHead, Select, SelectError, AcceptError, Exit, Start, table, http
<1>9. CASE SelectTimeout
  <2>1. pc' = "slot" /\ slot' = 0
    BY <1>9 DEF SelectTimeout, GoTo
  <2> QED
    BY <2>1 DEF CountsInLimit
<1>10. ASSUME NEW c \in Conn, Accept(c) PROVE CountsInLimit'
  <2>1. pc \notin {"slot", "recv"} /\ Take(c)
    BY <1>10 DEF Accept
  <2>2. CASE UNCHANGED pollCount
    BY <1>2, <2>1, <2>2
  <2>3. ASSUME NEW i \in FirstOf(FreeSlots), ResetCount(i) PROVE CountsInLimit'
    BY <1>3, <2>1, <2>3 DEF FirstOf, FreeSlots
  <2> QED
    BY <2>1, <2>2, <2>3 DEF Take
<1>11. CASE SlotIdle
  <2>1. pc = "slot" /\ NextSlot /\ pollCount' = pollCount
    BY <1>11 DEF SlotIdle
  <2>2. ASSUME slot \in 0 .. sid_max PROVE ~(pollCount[slot] > PollLimit)
    <3>1. slot # MaxHttpSessions
      BY <2>2
    <3> QED
      BY <1>11, <3>1 DEF SlotIdle, TimedOut
  <2> QED
    BY <1>4, <1>s, <2>1, <2>2
<1>12. CASE SlotTimeout \/ SlotRefuse
  <2>1. pc = "slot" /\ NextSlot /\ ResetCount(slot)
    BY <1>12 DEF SlotTimeout, SlotRefuse
  <2> QED
    BY <1>4, <1>5, <1>s, <2>1
<1>13. CASE SlotRead
  <2>1. pc = "slot" /\ ResetCount(slot) /\ pc' = "recv" /\ slot' = slot
    BY <1>13 DEF SlotRead, GoTo
  <2>2. ASSUME NEW i \in 0 .. sid_max, pollCount'[i] > PollLimit PROVE slot < i
    <3>1. pollCount[i] > PollLimit /\ i # slot
      BY <1>5, <1>s, <2>1, <2>2
    <3> QED
      BY <1>0, <1>s, <2>1, <3>1 DEF CountsInLimit
  <2> QED
    BY <2>1, <2>2 DEF CountsInLimit
<1>14. CASE RecvPart
  BY <1>1, <1>14 DEF RecvPart, task
<1>15. CASE RecvRequest \/ RecvClose
  <2>1. pc = "recv" /\ NextSlot /\ pollCount' = pollCount
    BY <1>15 DEF RecvRequest, RecvClose
  <2>2. \A i \in 0 .. sid_max : pollCount[i] > PollLimit => i # slot
    BY <1>0, <1>s, <2>1 DEF CountsInLimit
  <2> QED
    BY <1>4, <1>s, <2>1, <2>2
<1>16. CASE Stop
  BY <1>1, <1>16 DEF Stop
<1>17. CASE UNCHANGED vars
  BY <1>1, <1>17 DEF vars, task
<1> QED
  BY <1>6, <1>7, <1>8, <1>9, <1>10, <1>11, <1>12, <1>13, <1>14, <1>15, <1>16, <1>17
     DEF Next, Task
-----------------------------------------------------------------------------
TableInv ==
  /\ SessionsAreOwned
  /\ NoSessionLeak
  /\ ClientsAccepted
  /\ ReaderIsBound
  /\ LostAreNotBound

(* Steps that leave the table of clients and the open sessions alone.      *)
LEMMA TableKept ==
  ASSUME IInv,
         UNCHANGED <<client, sess, open, lost>>,
         \A i \in Slot : client[i] # Free => conn'[client[i]] = "accepted",
         pc' = "recv" => pc = "recv" /\ slot' = slot,
         pc = "done" => pc' = "done"
  PROVE  TableInv'
<1> USE DEF IInv, TableInv
<1>1. Bound' = Bound
  BY DEF Bound
<1>2. SessionsAreOwned'
  BY <1>1 DEF SessionsAreOwned
<1>3. NoSessionLeak'
  BY <1>1 DEF NoSessionLeak
<1>4. ClientsAccepted'
  BY DEF ClientsAccepted
<1>5. ReaderIsBound'
  BY <1>1 DEF ReaderIsBound
<1>6. LostAreNotBound'
  BY <1>1 DEF LostAreNotBound
<1> QED
  BY <1>2, <1>3, <1>4, <1>5, <1>6

(* A slot is disconnected: with its own session, or with none that can be  *)
(* served.                                                                 *)
LEMMA Disconnected ==
  ASSUME IInv, slot \in Slot, pc # "done", pc' \in {"slot", "head"}, lost' = lost,
         NEW sid, NEW opened, Disconnect(slot, sid, opened),
         IF slot \in Bound THEN sid = sess[slot] ELSE Closable(sid) = {},
         opened \ {MaxHttpSessions} = open \ {MaxHttpSessions}
  PROVE  TableInv'
<1> USE Numbers
<1>0. TypeOK /\ SessionsAreOwned /\ NoSessionLeak /\ ClientsAccepted /\ LostAreNotBound
  BY DEF IInv
<1>1. /\ sess' = [sess EXCEPT ![slot] = sid_invalid]
      /\ client' = [client EXCEPT ![slot] = Free]
      /\ conn' = [conn EXCEPT ![client[slot]] = "off"]
      /\ open' = opened \ Closable(sid)
  BY DEF Disconnect
<1>2. Bound' = Bound \ {slot} /\ \A i \in Bound' : sess'[i] = sess[i]
  BY <1>0, <1>1 DEF Bound, TypeOK
<1>3. \A i \in Slot : client'[i] # Free => i # slot /\ client'[i] = client[i]
  BY <1>0, <1>1 DEF TypeOK
<1>4. SessionsAreOwned'
  <2>1. \A i, j \in Bound' : sess'[i] = sess'[j] => i = j
    BY <1>0, <1>2 DEF SessionsAreOwned
  <2>2. \A i \in Bound' : client'[i] # Free
    BY <1>0, <1>1, <1>2 DEF SessionsAreOwned, Bound, TypeOK
  <2>3. \A i, j \in Slot : client'[i] = client'[j] /\ client'[i] # Free => i = j
    BY <1>0, <1>3 DEF SessionsAreOwned
  <2> QED
    BY <2>1, <2>2, <2>3 DEF SessionsAreOwned
<1>5. {sess'[i] : i \in Bound'} = {sess[i] : i \in Bound \ {slot}}
  BY <1>2
<1>6. NoSessionLeak'
  <2>1. CASE slot \in Bound
    <3>1. sess[slot] \in 0 .. sid_max
      BY <1>0, <2>1, BoundSessions
    <3>2. Closable(sid) = {sess[slot]}
      BY <2>1, <3>1 DEF Closable
    <3>3. {sess[i] : i \in Bound \ {slot}} = {sess[i] : i \in Bound} \ {sess[slot]}
      BY <1>0, <2>1 DEF SessionsAreOwned
    <3>4. sess[slot] \notin lost
      BY <1>0, <2>1 DEF LostAreNotBound
    <3> QED
      BY <1>0, <1>1, <1>5, <3>2, <3>3, <3>4 DEF NoSessionLeak
  <2>2. CASE slot \notin Bound
    <3>1. Bound \ {slot} = Bound
      BY <2>2
    <3>2. open' = opened
      BY <1>1, <2>2
    <3> QED
      BY <1>0, <1>5, <3>1, <3>2 DEF NoSessionLeak
  <2> QED
    BY <2>1, <2>2
<1>7. ClientsAccepted'
  <2>1. ASSUME NEW i \in Slot, client'[i] # Free PROVE conn'[client'[i]] = "accepted"
    <3>1. client[i] \in Conn /\ conn[client[i]] = "accepted" /\ client'[i] = client[i]
      BY <1>0, <1>3, <2>1 DEF TypeOK, ClientsAccepted
    <3>2. client[i] # client[slot]
      BY <1>0, <1>3, <2>1, <3>1 DEF SessionsAreOwned
    <3> QED
      BY <1>0, <1>1, <3>1, <3>2 DEF TypeOK
  <2> QED
    BY <2>1 DEF ClientsAccepted
<1>8. LostAreNotBound'
  BY <1>0, <1>2 DEF LostAreNotBound
<1>9. ReaderIsBound'
  BY DEF ReaderIsBound
<1> QED
  BY <1>4, <1>6, <1>7, <1>8, <1>9 DEF TableInv

(* The part of the invariant about clients and sessions is inductive.      *)
LEMMA TableStep == IInv /\ [Next]_vars => TableInv'
<1> SUFFICES ASSUME IInv, [Next]_vars PROVE TableInv'
  OBVIOUS
<1> USE Numbers, FreeAssumption
<1>0. /\ TypeOK /\ SessionsAreOwned /\ NoSessionLeak /\ ClientsAccepted
      /\ ReaderIsBound /\ LostAreNotBound
  BY DEF IInv
<1>s. slot \in Slot
  BY <1>0 DEF TypeOK
<1>c. \A i \in Slot : client[i] # Free => client[i] \in Conn /\ conn[client[i]] = "accepted"
  BY <1>0 DEF ClientsAccepted, TypeOK
<1>1. ASSUME NEW c \in Conn, Connect(c) PROVE TableInv'
  <2>1. \A i \in Slot : client[i] # Free => conn'[client[i]] = "accepted"
    BY <1>0, <1>c, <1>1 DEF Connect, TypeOK
  <2> QED
    BY <1>1, <2>1, TableKept DEF Connect, table, http, task
<1>2. ASSUME NEW c \in Conn, NEW x \in Input, Send(c, x) PROVE TableInv'
  BY <1>c, <1>2, TableKept DEF Send, table, http, task
<1>3. ASSUME NEW sid \in 0 .. sid_max, Change(sid) PROVE TableInv'
  BY <1>c, <1>3, TableKept DEF Change, table, task
<1>4. CASE LoopHead
  BY <1>c, <1>4, TableKept DEF LoopHead, GoTo, table, http
<1>5. CASE Select
  BY <1>c, <1>5, TableKept DEF Select, GoTo, table, http
<1>6. CASE SelectTimeout
  <2>1. UNCHANGED <<client, sess, open, lost, conn>> /\ pc = "select" /\ pc' = "slot"
    BY <1>6 DEF SelectTimeout, GoTo, table
  <2> QED
    BY <1>c, <2>1, TableKept
<1>7. CASE SelectError
  BY <1>c, <1>7, TableKept DEF SelectError, GoTo, table, http
<1>8. ASSUME NEW c \in Conn, Accept(c) PROVE TableInv'
  <2>1. /\ conn[c] = "queued" /\ conn' = [conn EXCEPT ![c] = "accepted"]
        /\ UNCHANGED <<sess, open, lost>> /\ pc = "accept" /\ pc' = "slot"
        /\ Take(c)
    BY <1>8 DEF Accept, GoTo, http
  <2>2. \A i \in Slot : client[i] # Free => conn'[client[i]] = "accepted"
    BY <1>0, <1>c, <2>1 DEF TypeOK
  <2>3. CASE UNCHANGED client
    BY <2>1, <2>2, <2>3, TableKept
  <2>4. ASSUME NEW i \in FirstOf(FreeSlots), client' = [client EXCEPT ![i] = c]
        PROVE  TableInv'
    <3>1. i \in Slot /\ client[i] = Free
      BY DEF FirstOf, FreeSlots
    <3>2. i \notin Bound
      BY <1>0, <2>1, <3>1 DEF SessionsAreOwned
    <3>3. Bound' = Bound
      BY <2>1 DEF Bound
    <3>4. \A j \in Slot : client[j] # c
      BY <1>c, <2>1
    <3>5. SessionsAreOwned'
      <4>1. \A j, k \in Bound' : sess'[j] = sess'[k] => j = k
        BY <1>0, <2>1, <3>3 DEF SessionsAreOwned
      <4>2. \A j \in Bound' : client'[j] # Free
        BY <1>0, <2>1, <2>4, <3>2, <3>3 DEF SessionsAreOwned, Bound, TypeOK
      <4>3. \A j, k \in Slot : client'[j] = client'[k] /\ client'[j] # Free => j = k
        BY <1>0, <2>4, <3>1, <3>4 DEF SessionsAreOwned, TypeOK
      <4> QED
        BY <4>1, <4>2, <4>3 DEF SessionsAreOwned
    <3>6. NoSessionLeak' /\ LostAreNotBound'
      BY <1>0, <2>1, <3>3 DEF NoSessionLeak, LostAreNotBound
    <3>7. ClientsAccepted'
      BY <1>0, <2>1, <2>2, <2>4, <3>1 DEF ClientsAccepted, TypeOK
    <3>8. ReaderIsBound'
      BY <2>1 DEF ReaderIsBound
    <3> QED
      BY <3>5, <3>6, <3>7, <3>8 DEF TableInv
  <2> QED
    BY <2>1, <2>3, <2>4 DEF Take
<1>9. CASE AcceptError
  <2>1. \A i \in Slot : client[i] # Free => conn'[client[i]] = "accepted"
    BY <1>0, <1>c, <1>9 DEF AcceptError, Queued, TypeOK
  <2> QED
    BY <1>9, <2>1, TableKept DEF AcceptError, GoTo, table, http
<1>10. CASE SlotIdle
  BY <1>c, <1>s, <1>10, NextSlotGoes, TableKept DEF SlotIdle, table, http
<1>11. CASE SlotTimeout
  <2>1. /\ Disconnect(slot, sess[slot], open) /\ pc' \in {"slot", "head"}
        /\ pc # "done" /\ lost' = lost
    BY <1>s, <1>11, NextSlotGoes DEF SlotTimeout
  <2>2. slot \notin Bound => Closable(sess[slot]) = {}
    BY <1>s, MaxHttpSessionsAssumption DEF Bound, Closable, sid_max, sid_invalid
  <2> QED
    BY <1>s, <2>1, <2>2, Disconnected
<1>12. CASE SlotRead
  <2>1. PICK sid \in SessionFor(slot) :
          /\ sid <= sid_max
          /\ sess' = [sess EXCEPT ![slot] = sid]
          /\ open' = open \cup {sid}
    BY <1>12 DEF SlotRead
  <2>2. /\ client[slot] \in ready /\ pc = "slot" /\ pc' = "recv" /\ slot' = slot
        /\ UNCHANGED <<conn, client, lost>>
    BY <1>12 DEF SlotRead, GoTo
  <2>3. client[slot] # Free
    BY <1>0, <2>2 DEF TypeOK
  <2>4. CASE slot \in Bound
    <3>1. sid = sess[slot]
      BY <2>1, <2>4 DEF SessionFor, Bound
    <3>2. sess' = sess /\ open' = open
      BY <1>0, <1>s, <2>1, <2>4, <3>1, BoundSessions DEF TypeOK
    <3>3. Bound' = Bound
      BY <3>2 DEF Bound
    <3> QED
      BY <1>0, <2>2, <2>4, <3>2, <3>3
         DEF TableInv, SessionsAreOwned, NoSessionLeak, ClientsAccepted, ReaderIsBound,
             LostAreNotBound
  <2>5. CASE slot \notin Bound
    <3>1. sid \in Sid \ open /\ sid # MaxHttpSessions
      <4>1. sess[slot] = sid_invalid
        BY <1>s, <2>5 DEF Bound
      <4>2. sid # sid_invalid
        BY <2>1
      <4> QED
        BY <2>1, <4>1, <4>2 DEF SessionFor, FirstOf, FreeSids
    <3>2. sid \notin lost /\ \A i \in Bound : sess[i] # sid
      BY <1>0, <3>1, BoundSessions DEF NoSessionLeak
    <3>3. Bound' = Bound \cup {slot}
      BY <1>0, <1>s, <2>1, <3>1 DEF Bound, TypeOK
    <3>4. sess'[slot] = sid /\ \A i \in Bound : sess'[i] = sess[i]
      BY <1>0, <1>s, <2>1, <2>5 DEF TypeOK, Bound
    <3>5. {sess'[i] : i \in Bound'} = {sess[i] : i \in Bound} \cup {sid}
      BY <3>3, <3>4
    <3>6. SessionsAreOwned'
      BY <1>0, <2>2, <2>3, <3>2, <3>3, <3>4 DEF SessionsAreOwned
    <3>7. NoSessionLeak'
      BY <1>0, <2>1, <2>2, <3>1, <3>5 DEF NoSessionLeak
    <3>8. ClientsAccepted' /\ ReaderIsBound' /\ LostAreNotBound'
      BY <1>0, <2>2, <3>2, <3>3, <3>4 DEF ClientsAccepted, ReaderIsBound, LostAreNotBound
    <3> QED
      BY <3>6, <3>7, <3>8 DEF TableInv
  <2> QED
    BY <2>4, <2>5
<1>13. CASE SlotRefuse
  <2>1. PICK sid \in SessionFor(slot) :
          sid > sid_max /\ Disconnect(slot, sid, open \cup ({sid} \cap Sid))
    BY <1>13 DEF SlotRefuse
  <2>2. pc' \in {"slot", "head"} /\ pc # "done" /\ lost' = lost
    BY <1>s, <1>13, NextSlotGoes DEF SlotRefuse
  <2>3. slot \in Bound => sid = sess[slot]
    BY <2>1 DEF SessionFor, Bound
  <2>4. sid \in Sid \cup {sid_invalid}
    BY <1>0, <1>s, <2>1 DEF SessionFor, FirstOf, FreeSids, TypeOK
  <2>5. Closable(sid) = {} /\ {sid} \cap Sid \subseteq {MaxHttpSessions}
    BY <2>1, <2>4, MaxHttpSessionsAssumption DEF Closable, sid_max, sid_invalid, Sid
  <2>6. (open \cup ({sid} \cap Sid)) \ {MaxHttpSessions} = open \ {MaxHttpSessions}
    BY <2>5
  <2> QED
    BY <1>s, <2>1, <2>2, <2>3, <2>5, <2>6, Disconnected
<1>14. CASE RecvPart
  BY <1>c, <1>14, TableKept DEF RecvPart, table, http, task
<1>15. CASE RecvRequest
  BY <1>c, <1>s, <1>15, NextSlotGoes, TableKept DEF RecvRequest, table
<1>16. CASE RecvClose
  <2>1. /\ Disconnect(slot, sess[slot], open) /\ pc' \in {"slot", "head"}
        /\ pc # "done" /\ lost' = lost
    BY <1>s, <1>16, NextSlotGoes DEF RecvClose
  <2>2. slot \in Bound
    BY <1>0, <1>16 DEF RecvClose, ReaderIsBound
  <2> QED
    BY <1>s, <2>1, <2>2, Disconnected
<1>17. CASE Exit
  <2>1. /\ pc' = "done" /\ UNCHANGED <<sess, open, lost>>
        /\ client' = [i \in Slot |-> Free]
    BY <1>17 DEF Exit, GoTo, http
  <2>2. Bound' = Bound
    BY <2>1 DEF Bound
  <2> QED
    BY <1>0, <2>1, <2>2 DEF TableInv, SessionsAreOwned, NoSessionLeak, ClientsAccepted,
                            ReaderIsBound, LostAreNotBound
<1>18. CASE Stop
  <2>1. \A i \in Slot : client[i] # Free => conn'[client[i]] = "accepted"
    BY <1>c, <1>18 DEF Stop
  <2> QED
    BY <1>18, <2>1, TableKept DEF Stop, table, http
<1>19. CASE Start
  <2>1. /\ pc' = "head" /\ lost' = open /\ open' = open
        /\ client' = [i \in Slot |-> Free] /\ sess' = [i \in Slot |-> sid_invalid]
    BY <1>19 DEF Start, GoTo, http
  <2>2. Bound' = {}
    BY <2>1 DEF Bound
  <2> QED
    BY <2>1, <2>2 DEF TableInv, SessionsAreOwned, NoSessionLeak, ClientsAccepted,
                      ReaderIsBound, LostAreNotBound
<1>20. CASE UNCHANGED vars
  BY <1>c, <1>20, TableKept DEF vars, table, http, task
<1> QED
  BY <1>1, <1>2, <1>3, <1>4, <1>5, <1>6, <1>7, <1>8, <1>9, <1>10, <1>11, <1>12, <1>13,
     <1>14, <1>15, <1>16, <1>17, <1>18, <1>19, <1>20 DEF Next, Task
-----------------------------------------------------------------------------
(* The clients of two slots are different, so that a step that hears from  *)
(* one, or closes it, leaves the silence and the counters of the others.   *)
LEMMA TurnCounts ==
  ASSUME IInv, slot \in Slot, client[slot] \in Conn, Heard(client[slot]),
         \/ UNCHANGED <<conn, client>> /\ ResetCount(slot)
         \/ /\ \E sid, opened : Disconnect(slot, sid, opened)
            /\ ResetCount(slot) \/ UNCHANGED pollCount
  PROVE  CountsAreSilence'
<1> USE Numbers, FreeAssumption
<1>0. TypeOK /\ SessionsAreOwned /\ ClientsAccepted /\ CountsAreSilence
  BY DEF IInv
<1>1. /\ silence'[client[slot]] = 0
      /\ \A c \in Conn \ {client[slot]} : silence'[c] = silence[c]
  BY <1>0 DEF Heard, TypeOK
<1>2. \A c \in Conn \ {client[slot]} : conn'[c] = conn[c]
  BY <1>0 DEF Disconnect, TypeOK
<1>3. \A i \in 0 .. sid_max : i # slot => pollCount'[i] = pollCount[i] /\ client'[i] = client[i]
  <2>1. \A i \in 0 .. sid_max : i # slot => pollCount'[i] = pollCount[i]
    BY <1>0 DEF ResetCount, TypeOK
  <2>2. \A i \in Slot : i # slot => client'[i] = client[i]
    BY <1>0 DEF Disconnect, TypeOK
  <2> QED
    BY <2>1, <2>2
<1>4. \A i \in 0 .. sid_max : i # slot /\ client[i] # Free => client[i] \in Conn \ {client[slot]}
  BY <1>0 DEF SessionsAreOwned, TypeOK
<1>5. slot \in 0 .. sid_max /\ client'[slot] # Free => client'[slot] = client[slot] /\ pollCount'[slot] = 0
  <2>1. client'[slot] # Free => UNCHANGED client /\ ResetCount(slot)
    BY <1>0 DEF Disconnect, TypeOK
  <2>2. slot \in 0 .. sid_max /\ ResetCount(slot) => pollCount'[slot] = 0
    BY <1>0 DEF ResetCount, TypeOK
  <2> QED
    BY <2>1, <2>2
<1>6. ASSUME NEW c \in Conn, conn'[c] # "accepted" PROVE silence'[c] = 0
  BY <1>0, <1>1, <1>2, <1>6 DEF CountsAreSilence
<1>7. ASSUME NEW i \in 0 .. sid_max, client'[i] # Free PROVE pollCount'[i] = silence'[client'[i]]
  <2>1. CASE i = slot
    BY <1>1, <1>5, <1>7, <2>1
  <2>2. CASE i # slot
    BY <1>0, <1>1, <1>3, <1>4, <1>7, <2>2 DEF CountsAreSilence
  <2> QED
    BY <2>1, <2>2
<1> QED
  BY <1>6, <1>7 DEF CountsAreSilence

LEMMA SilenceStep == IInv /\ [Next]_vars => CountsAreSilence'
<1> SUFFICES ASSUME IInv, [Next]_vars PROVE CountsAreSilence'
  OBVIOUS
<1> USE Numbers, FreeAssumption
<1>0. TypeOK /\ SessionsAreOwned /\ ClientsAccepted /\ CountsInLimit /\ CountsAreSilence /\ slot \in Slot
  BY DEF IInv, TypeOK
<1>1. ASSUME UNCHANGED <<silence, client, pollCount>>,
             \A c \in Conn : conn'[c] # "accepted" => conn[c] # "accepted"
      PROVE  CountsAreSilence'
  BY <1>0, <1>1 DEF CountsAreSilence
<1>2. ASSUME NEW c \in Conn, Connect(c) PROVE CountsAreSilence'
  BY <1>0, <1>1, <1>2 DEF Connect, TypeOK, table
<1>3. CASE \/ \E c \in Conn, x \in Input : Send(c, x)
           \/ \E s \in 0 .. sid_max : Change(s)
           \/ LoopHead \/ Select \/ SelectError \/ SlotIdle \/ RecvPart \/ RecvRequest
           \/ UNCHANGED vars
  <2>1. UNCHANGED <<conn, silence, client, pollCount>>
    BY <1>3 DEF Send, Change, LoopHead, Select, SelectError, SlotIdle, RecvPart, RecvRequest, vars, table
  <2> QED
    BY <1>1, <2>1
<1>4. CASE SelectTimeout
  <2>1. UNCHANGED <<conn, client, sess>> /\ CountSilence
    BY <1>4 DEF SelectTimeout, table
  <2>2. ASSUME NEW c \in Conn, conn[c] # "accepted" PROVE silence'[c] = silence[c]
    <3>1. \A i \in Polled : client[i] # c
      BY <1>0, <2>2 DEF ClientsAccepted, Polled
    <3> QED
      BY <2>1, <3>1 DEF CountSilence
  <2>3. ASSUME NEW i \in 0 .. sid_max, client[i] # Free
        PROVE  pollCount'[i] = silence'[client[i]]
    <3>1. client[i] \in Conn /\ pollCount[i] = silence[client[i]] /\ pollCount[i] \in 0 .. PollLimit
      BY <1>0, <1>4, <2>3 DEF TypeOK, CountsAreSilence, CountsInLimit, SelectTimeout
    <3>2. \A j \in Polled : client[j] = client[i] => j = i
      BY <1>0, <2>3 DEF SessionsAreOwned, Polled
    <3>3. pollCount'[i] = IF i \notin Polled THEN pollCount[i]
                          ELSE IF Sent(i) THEN 0 ELSE pollCount[i] + 1
      BY <1>4 DEF SelectTimeout
    <3>4. CASE i \notin Polled
      <4>1. \A j \in Polled : client[j] # client[i]
        BY <3>2, <3>4
      <4> QED
        BY <2>1, <3>1, <3>3, <3>4, <4>1 DEF CountSilence
    <3>5. CASE i \in Polled /\ Sent(i)
      BY <2>1, <3>1, <3>3, <3>5 DEF CountSilence
    <3>6. CASE i \in Polled /\ ~Sent(i)
      <4>1. ~\E j \in Polled : client[j] = client[i] /\ Sent(j)
        BY <3>2, <3>6
      <4>2. ~(silence[client[i]] > PollLimit)
        BY <3>1
      <4> QED
        BY <2>1, <3>1, <3>3, <3>6, <4>1, <4>2 DEF CountSilence
    <3> QED
      BY <3>4, <3>5, <3>6
  <2> QED
    BY <1>0, <2>1, <2>2, <2>3 DEF CountsAreSilence
<1>5. ASSUME NEW c \in Conn, Accept(c) PROVE CountsAreSilence'
  <2>1. /\ conn[c] = "queued" /\ conn' = [conn EXCEPT ![c] = "accepted"] /\ silence' = silence
        /\ Take(c)
    BY <1>5 DEF Accept
  <2>2. \A d \in Conn : conn'[d] # "accepted" => conn[d] # "accepted"
    BY <1>0, <2>1 DEF TypeOK
  <2>3. CASE UNCHANGED <<client, pollCount>>
    BY <1>1, <2>1, <2>2, <2>3
  <2>4. ASSUME NEW i \in FirstOf(FreeSlots), client' = [client EXCEPT ![i] = c], ResetCount(i)
        PROVE  CountsAreSilence'
    <3>1. i \in Slot /\ client[i] = Free /\ silence[c] = 0
      BY <1>0, <2>1 DEF FirstOf, FreeSlots, CountsAreSilence
    <3>2. ASSUME NEW j \in 0 .. sid_max, client'[j] # Free
          PROVE  pollCount'[j] = silence'[client'[j]]
      <4>1. CASE j = i
        BY <1>0, <2>1, <2>4, <3>1, <3>2, <4>1 DEF TypeOK, ResetCount
      <4>2. CASE j # i
        <5>1. client'[j] = client[j] /\ pollCount'[j] = pollCount[j]
          BY <1>0, <2>4, <3>1, <4>2 DEF TypeOK, ResetCount
        <5> QED
          BY <1>0, <2>1, <3>2, <5>1 DEF CountsAreSilence
      <4> QED
        BY <4>1, <4>2
    <3> QED
      BY <1>0, <2>1, <2>2, <3>2 DEF CountsAreSilence
  <2> QED
    BY <2>1, <2>3, <2>4 DEF Take
<1>6. CASE AcceptError
  <2>1. \A c \in Conn : conn'[c] # "accepted" => conn[c] # "accepted"
    BY <1>0, <1>6 DEF AcceptError, Queued, TypeOK
  <2> QED
    BY <1>1, <1>6, <2>1 DEF AcceptError, table
<1>7. CASE SlotTimeout
  <2>1. client[slot] \in Conn
    BY <1>0, <1>7 DEF SlotTimeout, TypeOK
  <2> QED
    BY <1>0, <1>7, <2>1, TurnCounts DEF SlotTimeout
<1>8. CASE SlotRefuse
  <2>1. client[slot] \in Conn
    BY <1>0, <1>8 DEF SlotRefuse, TypeOK
  <2> QED
    BY <1>0, <1>8, <2>1, TurnCounts DEF SlotRefuse
<1>9. CASE SlotRead
  <2>1. client[slot] \in Conn
    BY <1>0, <1>9 DEF SlotRead, TypeOK
  <2> QED
    BY <1>0, <1>9, <2>1, TurnCounts DEF SlotRead
<1>10. CASE RecvClose
  <2>1. client[slot] \in Conn
    BY <1>0, <1>10 DEF RecvClose, IInv, ReaderIsBound, SessionsAreOwned, TypeOK
  <2> QED
    BY <1>0, <1>10, <2>1, TurnCounts DEF RecvClose
<1>11. CASE Exit
  <2>1. \A i \in 0 .. sid_max : client'[i] = Free
    BY <1>11 DEF Exit
  <2>2. \A c \in Conn : conn'[c] # "accepted" => silence'[c] = 0
    BY <1>0, <1>11 DEF Exit, CountsAreSilence
  <2> QED
    BY <2>1, <2>2 DEF CountsAreSilence
<1>12. CASE Start
  <2>1. (\A i \in 0 .. sid_max : client'[i] = Free) /\ UNCHANGED <<conn, silence>>
    BY <1>12 DEF Start
  <2> QED
    BY <1>0, <2>1 DEF CountsAreSilence
<1>13. CASE Stop
  <2>1. \A c \in Conn : conn'[c] # "accepted" => conn[c] # "accepted"
    BY <1>0, <1>13 DEF Stop
  <2> QED
    BY <1>1, <1>13, <2>1 DEF Stop, table
<1> QED
  BY <1>2, <1>3, <1>4, <1>5, <1>6, <1>7, <1>8, <1>9, <1>10, <1>11, <1>12, <1>13 DEF Next, Task
-----------------------------------------------------------------------------

LEMMA InitInv == Init => IInv
<1> SUFFICES ASSUME Init PROVE IInv
  OBVIOUS
<1> USE Numbers
<1>1. TypeOK
  BY DEF Init, TypeOK
<1>2. Bound = {}
  BY DEF Init, Bound
<1>3. SessionsAreOwned /\ NoSessionLeak /\ ClientsAccepted /\ ReaderIsBound /\ LostAreNotBound
  BY <1>2 DEF Init, SessionsAreOwned, NoSessionLeak, ClientsAccepted, ReaderIsBound,
              LostAreNotBound
<1>4. CountsInLimit /\ CountsAreSilence
  BY DEF Init, CountsInLimit, CountsAreSilence
<1> QED
  BY <1>1, <1>3, <1>4 DEF IInv

THEOREM Invariant == Spec => []IInv
<1>1. IInv /\ [Next]_vars => IInv'
  BY TypeStep, CountsStep, TableStep, SilenceStep DEF IInv, TableInv
<1> QED
  BY <1>1, InitInv, PTL DEF Spec

(* The variables keep their types: no counter runs past the limit, no slot *)
(* or session number leaves its range.                                     *)
THEOREM TypeCorrect == Spec => []TypeOK
<1>1. IInv => TypeOK
  BY DEF IInv
<1> QED
  BY <1>1, Invariant, PTL

(* Two clients never share a session, whatever order they come and go in.  *)
THEOREM ClientsOwnTheirSessions == Spec => []SessionsAreOwned
<1>1. IInv => SessionsAreOwned
  BY DEF IInv
<1> QED
  BY <1>1, Invariant, PTL

(* The open sessions are those of clients, but for the overflow session    *)
(* and those left behind by a restart.                                     *)
THEOREM NoneLeaks == Spec => []NoSessionLeak
<1>1. IInv => NoSessionLeak
  BY DEF IInv
<1> QED
  BY <1>1, Invariant, PTL

(* A slot with a session keeps client and session until it is closed.      *)
THEOREM NoTakeover == Spec => SessionsAreNotMoved
<1> DEFINE Kept == \A i \in Bound : \/ client'[i] = client[i] /\ sess'[i] = sess[i]
                                    \/ sess'[i] = sid_invalid
                                    \/ pc' = "done"
<1>1. IInv /\ [Next]_vars => [Kept]_vars
  <2> SUFFICES ASSUME IInv, Next PROVE Kept
    OBVIOUS
  <2> USE Numbers
  <2>0. TypeOK /\ SessionsAreOwned /\ slot \in Slot
    BY DEF IInv, TypeOK
  <2>1. ASSUME UNCHANGED table PROVE Kept
    BY <2>1 DEF table
  <2>2. ASSUME NEW sid, NEW opened, Disconnect(slot, sid, opened) PROVE Kept
    BY <2>0, <2>2 DEF Disconnect, TypeOK, Bound
  <2>3. ASSUME NEW c \in Conn, Connect(c) \/ \E x \in Input : Send(c, x) PROVE Kept
    BY <2>1, <2>3 DEF Connect, Send
  <2>4. ASSUME NEW sid \in 0 .. sid_max, Change(sid) PROVE Kept
    BY <2>1, <2>4 DEF Change
  <2>5. CASE LoopHead \/ Select \/ SelectTimeout \/ SelectError \/ AcceptError \/ SlotIdle
    BY <2>1, <2>5 DEF LoopHead, Select, SelectTimeout, SelectError, AcceptError, SlotIdle
  <2>6. ASSUME NEW c \in Conn, Accept(c) PROVE Kept
    <3>1. pc # "done" /\ sess' = sess /\ Take(c)
      BY <2>6 DEF Accept
    <3>2. CASE UNCHANGED client
      BY <3>1, <3>2
    <3>3. ASSUME NEW i \in FirstOf(FreeSlots), client' = [client EXCEPT ![i] = c]
          PROVE  Kept
      <4>1. i \in Slot /\ client[i] = Free
        BY DEF FirstOf, FreeSlots
      <4>2. i \notin Bound
        BY <2>0, <3>1, <4>1 DEF SessionsAreOwned
      <4> QED
        BY <2>0, <3>1, <3>3, <4>2 DEF Bound, TypeOK
    <3> QED
      BY <3>1, <3>2, <3>3 DEF Take
  <2>7. CASE SlotRead
    <3>1. PICK sid \in SessionFor(slot) : sess' = [sess EXCEPT ![slot] = sid]
      BY <2>7 DEF SlotRead
    <3>2. slot \in Bound => sid = sess[slot]
      BY <3>1 DEF SessionFor, Bound
    <3>3. client' = client
      BY <2>7 DEF SlotRead
    <3> QED
      BY <2>0, <3>1, <3>2, <3>3 DEF TypeOK, Bound
  <2>8. CASE SlotTimeout \/ SlotRefuse \/ RecvClose
    BY <2>2, <2>8 DEF SlotTimeout, SlotRefuse, RecvClose
  <2>9. CASE RecvPart \/ RecvRequest \/ Stop
    BY <2>1, <2>9 DEF RecvPart, RecvRequest, Stop
  <2>10. CASE Exit
    BY <2>10 DEF Exit, GoTo
  <2>11. CASE Start
    BY <2>11 DEF Start, Bound
  <2> QED
    BY <2>3, <2>4, <2>5, <2>6, <2>7, <2>8, <2>9, <2>10, <2>11 DEF Next, Task
<1> QED
  BY <1>1, Invariant, PTL DEF Spec, SessionsAreNotMoved

(* The timeout at HapTcp.cpp:185 meets clients that have been polled in    *)
(* vain more than PollLimit times, whatever clients their slots had before *)
(* and whatever arrives in the round; the last slot excepted.              *)
THEOREM OnlySilentGo == Spec => OnlySilentAreClosed
<1> DEFINE Deserved == \A i \in 0 .. sid_max :
                         pc = "slot" /\ client[i] \in Conn \ ready /\ client'[i] = Free
                         => silence[client[i]] > PollLimit
<1>1. IInv /\ [Next]_vars => [Deserved]_vars
  <2> SUFFICES ASSUME IInv, Next,
                      NEW i \in 0 .. sid_max, pc = "slot",
                      client[i] \in Conn \ ready, client'[i] = Free
               PROVE  silence[client[i]] > PollLimit
    OBVIOUS
  <2> USE Numbers, FreeAssumption
  <2>0. TypeOK /\ CountsAreSilence /\ client'[i] # client[i] /\ i # MaxHttpSessions
    BY DEF IInv
  <2>1. SlotTimeout \/ SlotRefuse
    <3>1. CASE SlotIdle \/ SlotRead
      BY <2>0, <3>1 DEF SlotIdle, SlotRead, table
    <3>2. CASE \/ \E c \in Conn : Connect(c) \/ \E x \in Input : Send(c, x)
               \/ \E s \in 0 .. sid_max : Change(s)
               \/ Stop
      BY <2>0, <3>2 DEF Connect, Send, Change, Stop, table
    <3>3. ~\/ LoopHead \/ Select \/ SelectTimeout \/ SelectError \/ AcceptError
           \/ \E c \in Conn : Accept(c)
           \/ RecvPart \/ RecvRequest \/ RecvClose \/ Exit \/ Start
      BY DEF LoopHead, Select, SelectTimeout, SelectError, AcceptError, Accept, RecvPart,
             RecvRequest, RecvClose, Exit, Start
    <3> QED
      BY <3>1, <3>2, <3>3 DEF Next, Task
  <2>2. i = slot
    BY <2>0, <2>1 DEF SlotTimeout, SlotRefuse, Disconnect, TypeOK
  <2>3. pollCount[i] > PollLimit
    BY <2>0, <2>1, <2>2 DEF SlotTimeout, SlotRefuse, TimedOut
  <2> QED
    BY <2>0, <2>3 DEF CountsAreSilence
<1> QED
  BY <1>1, Invariant, PTL DEF Spec, OnlySilentAreClosed
-----------------------------------------------------------------------------
(* What the HTTP server sees of a step is a step of Sessions.  A step that *)
(* leaves the table and the sessions' states alone is none.                *)
LEMMA SessionsKept ==
  ASSUME UNCHANGED <<sess, open, secured>>
  PROVE  UNCHANGED Ses!svars
<1>1. Bound' = Bound
  BY DEF Bound
<1> QED
  BY <1>1 DEF Ses!svars

(* Disconnect closes the session of its slot: the slot is the only one     *)
(* that holds it.                                                          *)
LEMMA DisconnectCloses ==
  ASSUME IInv, slot \in Bound, Disconnect(slot, sess[slot], open)
  PROVE  Ses!Next
<1> USE Numbers
<1>1. TypeOK /\ SessionsAreOwned /\ NoSessionLeak
  BY DEF IInv
<1>2. PICK sid \in 0 .. sid_max : sid = sess[slot]
  BY <1>1, BoundSessions
<1>3. Closable(sess[slot]) = {sid}
  BY <1>2 DEF Closable
<1>4. Bound' = Bound \ {slot} /\ \A i \in Bound \ {slot} : sess'[i] = sess[i]
  BY <1>1 DEF Disconnect, Bound, TypeOK
<1>5. {sess'[i] : i \in Bound'} = {sess[i] : i \in Bound} \ {sid}
  BY <1>1, <1>2, <1>4 DEF SessionsAreOwned
<1>6. open' = open \ {sid} /\ secured' = secured \ {sid}
  BY <1>3 DEF Disconnect
<1>7. sid \in {sess[i] : i \in Bound}
  BY <1>2
<1>8. sid \in Ses!Sid
  BY <1>2 DEF Ses!Sid
<1>9. Ses!Close(sid)
  BY <1>5, <1>6, <1>7 DEF Ses!Close
<1> QED
  BY <1>8, <1>9 DEF Ses!Next

(* A slot without a session leaves the sessions alone when its connection  *)
(* is closed: all of them, or all but the overflow session, which is       *)
(* opened and given to nobody.                                             *)
LEMMA DisconnectUnbound ==
  ASSUME IInv, slot \in Slot \ Bound, NEW sid, Closable(sid) = {},
         NEW opened, Disconnect(slot, sid, opened)
  PROVE  /\ {sess'[i] : i \in Bound'} = {sess[i] : i \in Bound}
         /\ open' = opened /\ secured' = secured
<1> USE Numbers
<1>1. TypeOK
  BY DEF IInv
<1>2. sess' = sess
  BY <1>1 DEF Disconnect, TypeOK, Bound
<1>3. Bound' = Bound
  BY <1>2 DEF Bound
<1> QED
  BY <1>2, <1>3 DEF Disconnect

(* Server::Open opens what Sessions opens: the first session that is not.  *)
LEMMA FirstIsOpened ==
  ASSUME NEW sid \in FirstOf(FreeSids),
         open' = open \cup {sid}, UNCHANGED secured,
         {sess'[i] : i \in Bound'} = {sess[i] : i \in Bound} \cup ({sid} \ {MaxHttpSessions})
  PROVE  Ses!Next
<1>1. sid \in Sid \ open /\ \A t \in Sid \ open : sid <= t
  BY DEF FirstOf, FreeSids
<1>2. sid \in Ses!Sid /\ Ses!Sid = Sid /\ Ses!overflow = MaxHttpSessions
  BY <1>1 DEF Ses!Sid, Sid, Ses!overflow
<1>3. Ses!Open(sid)
  BY <1>1, <1>2 DEF Ses!Open
<1> QED
  BY <1>2, <1>3 DEF Ses!Next

(* Every step of the task, its clients and main is one of Sessions or      *)
(* leaves it alone.                                                        *)
LEMMA StepImplementsSessions ==
  ASSUME IInv, [Next]_vars
  PROVE  [Ses!Next]_(Ses!svars)
<1> DEFINE Implemented == [Ses!Next]_(Ses!svars)
<1> USE Numbers
<1>0. /\ TypeOK /\ SessionsAreOwned /\ NoSessionLeak /\ ReaderIsBound /\ LostAreNotBound
      /\ slot \in Slot
  BY DEF IInv, TypeOK
<1>1. ASSUME UNCHANGED <<sess, open, secured>> PROVE Implemented
  BY <1>1, SessionsKept
<1>2. ASSUME slot \in Bound, Disconnect(slot, sess[slot], open) PROVE Implemented
  BY <1>2, DisconnectCloses
<1>3. CASE \/ \E c \in Conn : Connect(c) \/ Accept(c) \/ \E x \in Input : Send(c, x)
           \/ \E s \in 0 .. sid_max : Change(s)
           \/ LoopHead \/ Select \/ SelectTimeout \/ SelectError \/ AcceptError
           \/ SlotIdle \/ RecvPart \/ Exit \/ Stop \/ UNCHANGED vars
  <2>1. UNCHANGED <<sess, open, secured>>
    BY <1>3 DEF Connect, Accept, Send, Change, LoopHead, Select, SelectTimeout, SelectError,
                AcceptError, SlotIdle, RecvPart, Exit, Stop, vars, table, http
  <2> QED
    BY <1>1, <2>1
<1>4. CASE SlotTimeout
  <2>1. Disconnect(slot, sess[slot], open)
    BY <1>4 DEF SlotTimeout
  <2>2. CASE slot \notin Bound
    <3>1. Closable(sess[slot]) = {}
      BY <1>0, <2>2 DEF Bound, Closable
    <3>2. /\ {sess'[i] : i \in Bound'} = {sess[i] : i \in Bound}
          /\ open' = open /\ secured' = secured
      BY <1>0, <2>1, <2>2, <3>1, DisconnectUnbound
    <3> QED
      BY <3>2 DEF Ses!svars
  <2> QED
    BY <1>2, <2>1, <2>2
<1>5. CASE SlotRead
  <2>1. PICK sid \in SessionFor(slot) :
          /\ sid <= sid_max
          /\ sess' = [sess EXCEPT ![slot] = sid]
          /\ open' = open \cup {sid}
    BY <1>5 DEF SlotRead
  <2>2. UNCHANGED secured
    BY <1>5 DEF SlotRead
  <2>3. CASE slot \in Bound
    <3>1. sid = sess[slot] /\ sess[slot] \in open
      BY <1>0, <2>1, <2>3, BoundSessions DEF SessionFor, Bound
    <3>2. sess' = sess /\ open' = open
      BY <1>0, <2>1, <3>1 DEF TypeOK
    <3> QED
      BY <1>1, <2>2, <3>2
  <2>4. CASE slot \notin Bound
    <3>1. sess[slot] = sid_invalid
      BY <1>0, <2>4 DEF Bound
    <3>2. sid \in FirstOf(FreeSids)
      BY <2>1, <3>1 DEF SessionFor
    <3>3. sid \in Sid /\ sid # MaxHttpSessions
      BY <2>1, <3>2 DEF FirstOf, FreeSids
    <3>4. Bound' = Bound \cup {slot}
      BY <1>0, <2>1, <3>3 DEF Bound, TypeOK
    <3>5. sess'[slot] = sid /\ \A i \in Bound : sess'[i] = sess[i]
      BY <1>0, <2>1, <2>4 DEF TypeOK, Bound
    <3>6. {sess'[i] : i \in Bound'} = {sess[i] : i \in Bound} \cup ({sid} \ {MaxHttpSessions})
      BY <3>3, <3>4, <3>5
    <3> QED
      BY <2>1, <2>2, <3>2, <3>6, FirstIsOpened
  <2> QED
    BY <2>3, <2>4
<1>6. CASE SlotRefuse
  <2>1. PICK sid \in SessionFor(slot) :
          sid > sid_max /\ Disconnect(slot, sid, open \cup ({sid} \cap Sid))
    BY <1>6 DEF SlotRefuse
  <2>2. slot \notin Bound
    <3>1. SUFFICES ASSUME slot \in Bound PROVE FALSE
      OBVIOUS
    <3>2. sid = sess[slot]
      BY <2>1, <3>1 DEF SessionFor, Bound
    <3> QED
      BY <1>0, <2>1, <3>1, <3>2, BoundSessions
  <2>3. sess[slot] = sid_invalid
    BY <1>0, <2>2 DEF Bound
  <2>4. sid = sid_invalid \/ sid \in FirstOf(FreeSids)
    BY <2>1, <2>3 DEF SessionFor
  <2>5. Closable(sid) = {}
    BY <2>1, <2>4 DEF Closable, FirstOf, FreeSids
  <2>6. /\ {sess'[i] : i \in Bound'} = {sess[i] : i \in Bound}
        /\ open' = open \cup ({sid} \cap Sid) /\ secured' = secured
    BY <1>0, <2>1, <2>2, <2>5, DisconnectUnbound
  <2>7. CASE sid = sid_invalid
    <3>1. open' = open
      BY <2>6, <2>7
    <3> QED
      BY <2>6, <3>1 DEF Ses!svars
  <2>8. CASE sid \in FirstOf(FreeSids)
    <3>1. sid \in Sid /\ sid = MaxHttpSessions
      BY <2>1, <2>8 DEF FirstOf, FreeSids
    <3>2. open' = open \cup {sid} /\ {sid} \ {MaxHttpSessions} = {}
      BY <2>6, <3>1
    <3> QED
      BY <2>6, <2>8, <3>2, FirstIsOpened
  <2> QED
    BY <2>4, <2>7, <2>8
<1>7. CASE RecvRequest
  <2>1. slot \in Bound
    BY <1>0, <1>7 DEF RecvRequest, ReaderIsBound
  <2>2. sess' = sess /\ open' = open /\ secured' \in {secured, secured \cup {sess[slot]}}
    BY <1>7 DEF RecvRequest, table
  <2>3. CASE secured' = secured
    BY <1>1, <2>2, <2>3
  <2>4. CASE secured' = secured \cup {sess[slot]}
    <3>1. Bound' = Bound
      BY <2>2 DEF Bound
    <3>2. PICK sid \in 0 .. sid_max : sid = sess[slot]
      BY <1>0, <2>1, BoundSessions
    <3>3. sid \in {sess[i] : i \in Bound}
      BY <2>1, <3>2
    <3>4. Ses!Secure(sid)
      BY <2>2, <2>4, <3>1, <3>2, <3>3 DEF Ses!Secure
    <3>5. sid \in Ses!Sid
      BY <3>2 DEF Ses!Sid
    <3> QED
      BY <3>4, <3>5 DEF Ses!Next
  <2> QED
    BY <2>2, <2>3, <2>4
<1>8. CASE RecvClose
  <2>1. slot \in Bound /\ Disconnect(slot, sess[slot], open)
    BY <1>0, <1>8 DEF RecvClose, ReaderIsBound
  <2> QED
    BY <1>2, <2>1
<1>9. CASE Start
  <2>1. sess' = [i \in Slot |-> sid_invalid] /\ UNCHANGED <<open, secured>>
    BY <1>9 DEF Start, http
  <2>2. Bound' = {}
    BY <2>1 DEF Bound
  <2>3. Ses!Restart
    BY <2>1, <2>2 DEF Ses!Restart
  <2> QED
    BY <2>3 DEF Ses!Next
<1> QED
  BY <1>3, <1>4, <1>5, <1>6, <1>7, <1>8, <1>9 DEF Next, Task

(* The task drives the HTTP server's sessions as Sessions says: one client *)
(* each, opened once, and closed when that client goes.                    *)
THEOREM ImplementsSessions == Spec => SessionsSpec
<1>1. Init => Ses!Init
  BY DEF Init, Ses!Init, Bound
<1>2. IInv /\ [Next]_vars => [Ses!Next]_(Ses!svars)
  BY StepImplementsSessions
<1> QED
  BY <1>1, <1>2, Invariant, PTL DEF Spec, SessionsSpec, Ses!Spec
=============================================================================
