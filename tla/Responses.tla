----------------------------- MODULE Responses -----------------------------
(***************************************************************************)
(* The response buffer of a session in use (src/Hap/HapHttp.cpp,           *)
(* HapHttp.h): a request gives the object its whole buffer, and the answer *)
(* is created in it; events until the next request are created in the same *)
(* buffer, with the room that was left.                                    *)
(***************************************************************************)
EXTENDS HttpResponse

CONSTANTS BufSize,     \* of the response buffer
          Data         \* lengths of the data of answers and events

ASSUME ResponsesAssumption == BufSize \in Nat /\ BufSize < Uint16 /\ Data \subseteq Nat

VARIABLES rsp,         \* the Response of a session
          made,        \* the form of the last one and the length of its data
          spent        \* room that was taken since the last request

responseVars == <<rsp, made, spent>>

\* The calls of an answer without data, of one with a text, and of one whose
\* data is written behind its headers, in the room that size() tells.
Bare(r) == RspEnd(RspStart(r))
WithText(r, n) == RspEndText(RspAddType(RspStart(r)), n)
Headed(r) == RspEnd(RspAddLength(RspAddType(RspStart(r)), 0))
FillIn(r, n) == SetContentLength(Write(r, r.len, Text("d", n)), n)

\* What they take: add takes the length of all lines so far.
RoomFor(form) ==
    IF form = "bare" THEN StatusLine + 2
    ELSE 3 * StatusLine + 2 * TypeLine + LengthLine + 2
Spent(m, n) == IF m + n < BufSize THEN m + n ELSE BufSize

ResponseInit == rsp = RspNew /\ made = [form |-> "none", n |-> 0] /\ spent = BufSize

\* A request, and its answer.
AnswerBare ==
    /\ rsp' = Bare(RspInit(rsp, BufSize))
    /\ made' = [form |-> "bare", n |-> 0]
    /\ spent' = Spent(0, RoomFor("bare"))
AnswerText(n) ==
    /\ n > 0
    /\ rsp' = WithText(RspInit(rsp, BufSize), n)
    /\ made' = [form |-> "text", n |-> n]
    /\ spent' = Spent(0, RoomFor("text") + n)
AnswerFilled(n) ==
    LET headed == Headed(RspInit(rsp, BufSize))
    IN  /\ n <= headed.max
        /\ rsp' = FillIn(headed, n)
        /\ made' = [form |-> "filled", n |-> n]
        /\ spent' = Spent(0, RoomFor("filled"))

\* Server::Poll, on a session that has had a request.  The event after one
\* that did not fit any more is left out.
Event(n) ==
    /\ spent < BufSize /\ n > 0
    /\ rsp' = WithText(rsp, n)
    /\ made' = [form |-> "text", n |-> n]
    /\ spent' = Spent(spent, RoomFor("text") + n)

ResponseNext ==
    \/ AnswerBare
    \/ \E n \in Data : AnswerText(n)
    \/ \E n \in Data : AnswerFilled(n)
    \/ \E n \in Data : Event(n)

ResponseSpec == ResponseInit /\ [][ResponseNext]_responseVars

-----------------------------------------------------------------------------
HeadOf(form) ==
    IF form = "bare" THEN Text("s", StatusLine)
    ELSE Text("s", StatusLine) \o Text("h", TypeLine)
         \o (Text("h", LengthLine - 6) \o Text("n", 4) \o Text("h", 2))

\* As long as the room of the buffer lasts, what is sent is a whole response:
\* the lines, the empty line, and exactly the data that Content-Length
\* announces; nothing is written beyond the buffer, although add takes the
\* length of all lines again from the room, events get what is left of it,
\* and _len_pos stays from the response before (src/Hap/HapHttp.h, class
\* Response).
ResponseIsWhole ==
    spent < BufSize =>
        /\ ~rsp.past
        /\ RspSent(rsp) = HeadOf(made.form) \o Text("r", 2) \o Text("d", made.n)
        /\ made.form # "bare" => rsp.length = made.n
=============================================================================
