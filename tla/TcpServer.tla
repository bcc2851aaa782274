------------------------------ MODULE TcpServer ------------------------------
(***************************************************************************)
(* The network task (Linux/HapTcp.cpp): one thread that waits in select    *)
(* for the listening socket and for its clients, accepts connections,      *)
(* gives each client an HTTP session at its first data, calls the HTTP     *)
(* server to process requests and to poll for events, and closes clients   *)
(* that end, fail or are silent for too long.                              *)
(*                                                                         *)
(* pc is where the task is: at the head of its loop, at select, at accept, *)
(* at the turn of a slot of the table of clients, or in that turn inside   *)
(* Server::Process, in recv.  ready and except are the fd_sets select has  *)
(* filled in.                                                              *)
(* Of the HTTP server there is what the task depends on: which sessions    *)
(* are open, which are secured and which have events to send.              *)
(*                                                                         *)
(* pollCount has one entry less than the table of clients.  For the last   *)
(* slot the task reads and writes the memory behind it: whether the client *)
(* of that slot is timed out is anybody's guess.  That the slot may seem   *)
(* timed out while it is free, and the task closes descriptor 0, is left   *)
(* out.  No client sends urgent data, which is what exceptfds is for.      *)
(***************************************************************************)
EXTENDS Naturals, FiniteSets

CONSTANTS Conn,              \* connections clients make
          Free,              \* a slot without one: client[i] = 0
          MaxHttpSessions,
          PollLimit,         \* pollLimit
          Input,             \* what clients send: see Send
          MayStop            \* main calls Stop

ASSUME FreeAssumption == Free \notin Conn
ASSUME MaxHttpSessionsAssumption == MaxHttpSessions \in Nat \ {0}
ASSUME PollLimitAssumption == PollLimit \in Nat
ASSUME InputAssumption == Input \subseteq {"part", "request", "end"}

Slot == 0 .. MaxHttpSessions
Sid == 0 .. MaxHttpSessions          \* Server::_sess
sid_max == MaxHttpSessions - 1
sid_invalid == MaxHttpSessions + 1

VARIABLES
  conn,        \* "off", "queued" for accept, or "accepted"
  rx,          \* what has arrived on a connection and is not read yet
  client,      \* the connection of a slot
  sess,        \* the session of a slot
  pollCount,
  open, secured, events,      \* sessions of the HTTP server
  running, pc, slot, ready, except,
  lost,        \* history: sessions that were open at the last Start
  silence      \* history: how often a client with a session was polled since
               \* it last sent something or was last sent an event

http == <<open, secured, events>>
table == <<client, sess>>
task == <<running, pc, slot, ready, except>>
vars == <<conn, rx, table, pollCount, http, task, lost, silence>>

TypeOK ==
  /\ conn \in [Conn -> {"off", "queued", "accepted"}]
  /\ rx \in [Conn -> {"none"} \cup Input]
  /\ client \in [Slot -> Conn \cup {Free}]
  /\ sess \in [Slot -> Sid \cup {sid_invalid}]
  /\ pollCount \in [0 .. sid_max -> 0 .. PollLimit + 1]
  /\ open \in SUBSET Sid
  /\ secured \in SUBSET Sid
  /\ events \in SUBSET Sid
  /\ running \in BOOLEAN
  /\ pc \in {"head", "select", "accept", "slot", "recv", "done"}
  /\ slot \in Slot
  /\ ready \in SUBSET Conn
  /\ except \in SUBSET Conn
  /\ lost \in SUBSET Sid
  /\ silence \in [Conn -> 0 .. PollLimit + 1]

Init ==
  /\ conn = [c \in Conn |-> "off"]
  /\ rx = [c \in Conn |-> "none"]
  /\ client = [i \in Slot |-> Free]
  /\ sess = [i \in Slot |-> sid_invalid]
  /\ pollCount = [i \in 0 .. sid_max |-> 0]
  /\ open = {} /\ secured = {} /\ events = {}
  /\ running = TRUE /\ pc = "head" /\ slot = 0 /\ ready = {} /\ except = {}
  /\ lost = {}
  /\ silence = [c \in Conn |-> 0]
-----------------------------------------------------------------------------
(* Clients, and the accessory.                                             *)

Connect(c) ==
  /\ conn[c] = "off" /\ running
  /\ conn' = [conn EXCEPT ![c] = "queued"]
  /\ UNCHANGED <<rx, table, pollCount, http, task, lost, silence>>

(* A part of a request, a request or the rest of one, or the end of the    *)
(* connection.                                                             *)
Send(c, x) ==
  /\ conn[c] # "off"
  /\ rx[c] = "none"
  /\ rx' = [rx EXCEPT ![c] = x]
  /\ UNCHANGED <<conn, table, pollCount, http, task, lost, silence>>

(* A characteristic changes that the controller of session s subscribed.   *)
Change(s) ==
  /\ s \in secured
  /\ events' = events \cup {s}
  /\ UNCHANGED <<conn, rx, table, pollCount, open, secured, task, lost, silence>>
-----------------------------------------------------------------------------
Bound == {i \in Slot : sess[i] # sid_invalid}
Clients == {client[i] : i \in Slot} \ {Free}
Queued == {c \in Conn : conn[c] = "queued"}
Readable == {c \in Clients : rx[c] # "none"}
GoTo(where, i) == pc' = where /\ slot' = i
NextSlot_SkipsLast ==
  IF slot + 1 < MaxHttpSessions THEN GoTo("slot", slot + 1) ELSE GoTo("head", 0)
NextSlot == IF slot < MaxHttpSessions THEN GoTo("slot", slot + 1) ELSE GoTo("head", 0)

LoopHead ==
  /\ pc = "head"
  /\ running
  /\ GoTo("select", 0)
  /\ UNCHANGED <<conn, rx, table, pollCount, http, running, ready, except, lost, silence>>

Select ==
  /\ pc = "select"
  /\ Readable # {} \/ Queued # {}
  /\ ready' = Readable /\ except' = {}
  /\ IF Queued # {} THEN GoTo("accept", 0) ELSE GoTo("slot", 0)
  /\ UNCHANGED <<conn, rx, table, pollCount, http, running, lost, silence>>

(* select times out: the clients with a session are polled, a session with *)
(* events is sent them, and the counter of the others goes up.             *)
Polled_NotLast == {i \in 0 .. sid_max : client[i] # Free /\ sess[i] # sid_invalid}
Polled == {i \in Slot : client[i] # Free /\ sess[i] # sid_invalid}
Sent(i) == sess[i] \in secured /\ sess[i] \in events

CountSilence ==
  silence' = [c \in Conn |->
    IF \A i \in Polled : client[i] # c THEN silence[c]
    ELSE IF \E i \in Polled : client[i] = c /\ Sent(i) THEN 0
    ELSE IF silence[c] > PollLimit THEN silence[c] ELSE silence[c] + 1]

SelectTimeout_NoCount ==
  /\ pc = "select"
  /\ Readable = {} /\ Queued = {}
  /\ ready' = {} /\ except' = {}
  /\ GoTo("slot", 0)
  /\ pollCount' = [i \in 0 .. sid_max |-> IF i \notin Polled THEN pollCount[i] ELSE 0]
  /\ events' = events \ {sess[i] : i \in {j \in Polled : Sent(j)}}
  /\ CountSilence
  /\ UNCHANGED <<conn, rx, table, open, secured, running, lost>>
SelectTimeout ==
  /\ pc = "select"
  /\ Readable = {} /\ Queued = {}
  /\ ready' = {} /\ except' = {}
  /\ GoTo("slot", 0)
  /\ pollCount' = [i \in 0 .. sid_max |->
                     IF i \notin Polled THEN pollCount[i]
                     ELSE IF Sent(i) THEN 0 ELSE pollCount[i] + 1]
  /\ events' = events \ {sess[i] : i \in {j \in Polled : Sent(j)}}
  /\ CountSilence
  /\ UNCHANGED <<conn, rx, table, open, secured, running, lost>>

(* Stop has closed the listening socket before select was called: select   *)
(* fails and leaves the sets as they were filled in, with every client.    *)
SelectError ==
  /\ pc = "select" /\ ~running
  /\ ready' = Clients /\ except' = Clients
  /\ GoTo("accept", 0)
  /\ UNCHANGED <<conn, rx, table, pollCount, http, running, lost, silence>>

FreeSlots == {i \in Slot : client[i] = Free}
FirstOf(S) == {i \in S : \A j \in S : i <= j}

ResetCount(i) ==
  pollCount' = IF i <= sid_max THEN [pollCount EXCEPT ![i] = 0] ELSE pollCount

(* The connection goes to the first free slot; when there is none nothing  *)
(* refers to its socket any more.                                          *)
Take(c) ==
  \/ FreeSlots = {} /\ UNCHANGED <<client, pollCount>>
  \/ \E i \in FirstOf(FreeSlots) :
       /\ client' = [client EXCEPT ![i] = c]
       /\ ResetCount(i)

Accept(c) ==
  /\ pc = "accept" /\ running
  /\ conn[c] = "queued"
  /\ conn' = [conn EXCEPT ![c] = "accepted"]
  /\ Take(c)
  /\ GoTo("slot", 0)
  /\ UNCHANGED <<rx, sess, http, running, ready, except, lost, silence>>

(* The client has gone, or Stop has closed the listening socket.           *)
AcceptError ==
  /\ pc = "accept"
  /\ \/ running /\ \E c \in Queued : conn' = [conn EXCEPT ![c] = "off"]
     \/ ~running /\ UNCHANGED conn
  /\ rx' = [c \in Conn |-> IF conn'[c] = "off" THEN "none" ELSE rx[c]]
  /\ GoTo("slot", 0)
  /\ UNCHANGED <<table, pollCount, http, running, ready, except, lost, silence>>
-----------------------------------------------------------------------------
(* A slot of the table.                                                    *)

Closable(sid) == IF sid <= sid_max THEN {sid} ELSE {}

(* The socket is closed, Server::Close is called; it ignores the overflow  *)
(* session and sid_invalid.                                                *)
Disconnect_KeepsSession(i, sid, opened) ==
  /\ conn' = [conn EXCEPT ![client[i]] = "off"]
  /\ rx' = [rx EXCEPT ![client[i]] = "none"]
  /\ client' = [client EXCEPT ![i] = Free]
  /\ sess' = [sess EXCEPT ![i] = sid_invalid]
  /\ open' = opened
  /\ secured' = secured \ Closable(sid)
  /\ events' = events \ Closable(sid)
Disconnect_KeepsSecured(i, sid, opened) ==
  /\ conn' = [conn EXCEPT ![client[i]] = "off"]
  /\ rx' = [rx EXCEPT ![client[i]] = "none"]
  /\ client' = [client EXCEPT ![i] = Free]
  /\ sess' = [sess EXCEPT ![i] = sid_invalid]
  /\ open' = opened \ Closable(sid)
  /\ events' = events \ Closable(sid)
  /\ UNCHANGED secured
Disconnect(i, sid, opened) ==
  /\ conn' = [conn EXCEPT ![client[i]] = "off"]
  /\ rx' = [rx EXCEPT ![client[i]] = "none"]
  /\ client' = [client EXCEPT ![i] = Free]
  /\ sess' = [sess EXCEPT ![i] = sid_invalid]
  /\ open' = opened \ Closable(sid)
  /\ secured' = secured \ Closable(sid)
  /\ events' = events \ Closable(sid)

Heard(c) == silence' = [silence EXCEPT ![c] = 0]

TimedOut(i) == IF i = MaxHttpSessions THEN BOOLEAN ELSE {pollCount[i] > PollLimit}

(* Nothing to read and not timed out.                                      *)
SlotIdle ==
  /\ pc = "slot"
  /\ client[slot] \notin ready
  /\ FALSE \in TimedOut(slot)
  /\ NextSlot
  /\ UNCHANGED <<conn, rx, table, pollCount, http, running, ready, except, lost, silence>>

(* Silent for too long.  The check follows every slot's turn: it closes    *)
(* only slots whose turn did not reset the counter.                        *)
SlotTimeout ==
  /\ pc = "slot"
  /\ client[slot] # Free /\ client[slot] \notin ready
  /\ TRUE \in TimedOut(slot)
  /\ Disconnect(slot, sess[slot], open)
  /\ Heard(client[slot])
  /\ ResetCount(slot)
  /\ NextSlot
  /\ UNCHANGED <<running, ready, except, lost>>

(* Server::Open, at the first data: the first session that is not open.    *)
FreeSids_All == Sid
FreeSids == Sid \ open
SessionFor(i) ==
  IF sess[i] # sid_invalid THEN {sess[i]}
  ELSE IF FreeSids = {} THEN {sid_invalid} ELSE FirstOf(FreeSids)

(* Process begins to read: from here the task waits for this client.       *)
SlotRead_KeepsCount ==
  /\ pc = "slot"
  /\ client[slot] \in ready
  /\ \E sid \in SessionFor(slot) :
       /\ sid <= sid_max
       /\ sess' = [sess EXCEPT ![slot] = sid]
       /\ open' = open \cup {sid}
  /\ Heard(client[slot])
  /\ GoTo("recv", slot)
  /\ UNCHANGED <<conn, rx, client, pollCount, secured, events, running, ready, except, lost>>
SlotRead ==
  /\ pc = "slot"
  /\ client[slot] \in ready
  /\ \E sid \in SessionFor(slot) :
       /\ sid <= sid_max
       /\ sess' = [sess EXCEPT ![slot] = sid]
       /\ open' = open \cup {sid}
  /\ Heard(client[slot])
  /\ ResetCount(slot)
  /\ GoTo("recv", slot)
  /\ UNCHANGED <<conn, rx, client, secured, events, running, ready, except, lost>>

(* No session, or the overflow session, on which Process returns false.    *)
(* The counter of a slot that had no session is 0 since accept.            *)
SlotRefuse ==
  /\ pc = "slot"
  /\ client[slot] \in ready
  /\ \E sid \in SessionFor(slot) :
       /\ sid > sid_max
       /\ Disconnect(slot, sid, open \cup ({sid} \cap Sid))
  /\ Heard(client[slot])
  /\ ResetCount(slot)
  /\ NextSlot
  /\ UNCHANGED <<running, ready, except, lost>>
-----------------------------------------------------------------------------
(* Inside Process.                                                         *)

RecvPart ==
  /\ pc = "recv"
  /\ rx[client[slot]] = "part"
  /\ rx' = [rx EXCEPT ![client[slot]] = "none"]
  /\ UNCHANGED <<conn, table, pollCount, http, task, lost, silence>>

(* The request is processed and answered.  It may secure the session.      *)
RecvRequest ==
  /\ pc = "recv"
  /\ rx[client[slot]] = "request" /\ client[slot] \notin except
  /\ rx' = [rx EXCEPT ![client[slot]] = "none"]
  /\ secured' \in {secured, secured \cup {sess[slot]}}
  /\ NextSlot
  /\ UNCHANGED <<conn, table, pollCount, open, events, running, ready, except, lost, silence>>

(* End or error of the connection, a request Process returns false for, or *)
(* one of a client in exceptfds, which is answered first.                  *)
RecvClose ==
  /\ pc = "recv"
  /\ rx[client[slot]] \in {"end", "request"}
  /\ Disconnect(slot, sess[slot], open)
  /\ NextSlot
  /\ Heard(client[slot])
  /\ UNCHANGED <<pollCount, running, ready, except, lost>>
-----------------------------------------------------------------------------
(* Tcp::Stop by main, which then waits for the task; Tcp::Start.           *)
Stop ==
  /\ MayStop /\ running
  /\ running' = FALSE
  /\ conn' = [c \in Conn |-> IF conn[c] = "queued" THEN "off" ELSE conn[c]]
  /\ rx' = [c \in Conn |-> IF conn[c] = "queued" THEN "none" ELSE rx[c]]
  /\ UNCHANGED <<table, pollCount, http, pc, slot, ready, except, lost, silence>>

(* The task ends: it closes its sockets, and not its sessions.             *)
Exit ==
  /\ pc = "head" /\ ~running
  /\ conn' = [c \in Conn |-> IF c \in Clients THEN "off" ELSE conn[c]]
  /\ rx' = [c \in Conn |-> IF c \in Clients THEN "none" ELSE rx[c]]
  /\ client' = [i \in Slot |-> Free]
  /\ GoTo("done", 0)
  /\ silence' = [c \in Conn |-> IF c \in Clients THEN 0 ELSE silence[c]]
  /\ UNCHANGED <<sess, pollCount, http, running, ready, except, lost>>

Start ==
  /\ pc = "done"
  /\ running' = TRUE
  /\ GoTo("head", 0)
  /\ client' = [i \in Slot |-> Free]
  /\ sess' = [i \in Slot |-> sid_invalid]
  /\ lost' = open
  /\ UNCHANGED <<conn, rx, pollCount, http, ready, except, silence>>

Task ==
  \/ LoopHead \/ Select \/ SelectTimeout \/ SelectError
  \/ AcceptError \/ \E c \in Conn : Accept(c)
  \/ SlotIdle \/ SlotTimeout \/ SlotRead \/ SlotRefuse
  \/ RecvPart \/ RecvRequest \/ RecvClose
  \/ Exit

Next ==
  \/ \E c \in Conn : Connect(c) \/ \E x \in Input : Send(c, x)
  \/ \E s \in 0 .. sid_max : Change(s)
  \/ Task
  \/ Stop \/ Start

Spec == Init /\ [][Next]_vars

(* A thread of its own: it goes on whenever it does not wait for a client. *)
FairSpec == Spec /\ WF_vars(Task)
-----------------------------------------------------------------------------
(* No two clients share a session, and only a client has one: what a       *)
(* controller subscribes, and the keys of its session, are its own.        *)
SessionsAreOwned ==
  /\ \A i, j \in Bound : sess[i] = sess[j] => i = j
  /\ pc # "done" => \A i \in Bound : client[i] # Free
  /\ \A i, j \in Slot : client[i] = client[j] /\ client[i] # Free => i = j

(* Every way a client leaves closes its session: the sessions that are     *)
(* open are those of clients, but for the overflow session and those a     *)
(* restart of the servers in the same process left behind.                 *)
NoSessionLeak == open \ {MaxHttpSessions} = {sess[i] : i \in Bound} \cup (lost \ {MaxHttpSessions})

(* To the HTTP server its clients are those of Sessions: a session is      *)
(* opened once per client, used by the client it was opened for, and       *)
(* closed, secured or not, when that client goes and at no other time.     *)
Ses == INSTANCE Sessions WITH held <- {sess[i] : i \in Bound}
SessionsSpec == Ses!Spec

(* A slot with a session keeps its client and its session until the task   *)
(* disconnects it: no connection ever takes over another one's session.    *)
SessionsAreNotMoved ==
  [][\A i \in Bound : \/ client'[i] = client[i] /\ sess'[i] = sess[i]
                      \/ sess'[i] = sid_invalid
                      \/ pc' = "done"]_vars

(* No client stops in the middle of a request for ever: while one does,    *)
(* the task waits for it and serves nobody else.                           *)
RequestsAreWhole == []<>(pc # "recv")

(* A request that has arrived is taken up, or its connection closed, as    *)
(* long as the task runs.                                                  *)
RequestIsServed ==
  RequestsAreWhole =>
    \A c \in Conn : (rx[c] = "request" /\ c \in Clients)
                      ~> (rx[c] = "none" \/ c \notin Clients \/ ~running)

(* Once clients send no more, events are delivered, but to the sessions    *)
(* that a restart of the servers left without a client.                    *)
Quiet == running /\ \A c \in Conn : conn[c] # "queued" /\ rx[c] = "none"
EventsReachQuietClients ==
  RequestsAreWhole /\ <>[]Quiet =>
    \A s \in 0 .. sid_max : s \in events ~> (s \notin events \/ s \in lost)

(* A client that stays silent and for which there are no events is closed, *)
(* whatever the others do, as long as select times out again and again:    *)
(* its slot counts only then.  Not so in the last slot, whose counter is   *)
(* not part of pollCount.                                                  *)
SilentClientIsClosed ==
  RequestsAreWhole /\ []<><<SelectTimeout>>_vars =>
    \A c \in Conn :
      []<>~\E i \in 0 .. sid_max : /\ client[i] = c /\ sess[i] # sid_invalid
                                  /\ rx[c] = "none" /\ sess[i] \notin events

(* The task closes a client that it has nothing from only when that client *)
(* itself, and not one before it in the slot, has been polled in vain too  *)
(* often; the last slot excepted.                                          *)
OnlySilentAreClosed ==
  [][\A i \in 0 .. sid_max :
       pc = "slot" /\ client[i] \in Conn \ ready /\ client'[i] = Free
       => silence[client[i]] > PollLimit]_vars
=============================================================================
