------------------------------ MODULE Sessions ------------------------------
(***************************************************************************)
(* What the network task and the HTTP server rely on each other for: the   *)
(* life of an HTTP session.  A session is opened for a client, the lowest  *)
(* that is not open; the client that holds it may secure it, and when the  *)
(* client goes the session is closed, with all it had.  Opening the        *)
(* overflow session gives a client nothing, and nothing closes it.         *)
(*                                                                         *)
(* A restart of the servers in the same process takes the clients away and *)
(* leaves the sessions open, secured as they are: nobody closes them, or   *)
(* gets them, until the process ends.                                      *)
(*                                                                         *)
(* HapServer and TcpServer implement this, each from its side.             *)
(***************************************************************************)
EXTENDS Naturals

CONSTANT MaxHttpSessions

VARIABLES held,      \* sessions a client holds
          open, secured

svars == <<held, open, secured>>

Sid == 0 .. MaxHttpSessions
overflow == MaxHttpSessions

Init == held = {} /\ open = {} /\ secured = {}

Open(s) ==
  /\ s \notin open
  /\ \A t \in Sid \ open : s <= t
  /\ held' = held \cup ({s} \ {overflow})
  /\ open' = open \cup {s}
  /\ UNCHANGED secured

Secure(s) ==
  /\ s \in held
  /\ secured' = secured \cup {s}
  /\ UNCHANGED <<held, open>>

Close(s) ==
  /\ s \in held
  /\ held' = held \ {s}
  /\ open' = open \ {s}
  /\ secured' = secured \ {s}

Restart ==
  /\ held' = {}
  /\ UNCHANGED <<open, secured>>

PowerCycle == held' = {} /\ open' = {} /\ secured' = {}

Next ==
  \/ \E s \in Sid : Open(s) \/ Secure(s) \/ Close(s)
  \/ Restart
  \/ PowerCycle

Spec == Init /\ [][Next]_svars
=============================================================================
