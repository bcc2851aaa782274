---------------------------- MODULE HttpResponse ----------------------------
(***************************************************************************)
(* The creator of HTTP responses (class Response, src/Hap/HapHttp.h).      *)
(*                                                                         *)
(* A text in the buffer is a sequence of characters that only have a       *)
(* place: "s" the status line, "h" a header, "n" the digits of the         *)
(* Content-Length, "r" the empty line, "d" the data, "0" the end that      *)
(* snprintf writes.  _max and _len have 16 bits.                           *)
(***************************************************************************)
EXTENDS Integers, Sequences, SequencesExt

CONSTANTS StatusLine, TypeLine, LengthLine,     \* characters of these lines
          Uint16                                \* 2^16 in the code

ASSUME ResponseAssumption ==
    /\ StatusLine \in Nat \ {0} /\ TypeLine \in Nat \ {0}
    /\ LengthLine \in Nat /\ LengthLine > 6 /\ Uint16 \in Nat \ {0}

Text(c, n) == [i \in 1 .. n |-> c]

\* Response::init; the length and _len_pos stay from the response before.
RspInit(rsp, size) ==
    [rsp EXCEPT !.max = size, !.buf = [i \in 1 .. size |-> "junk"], !.past = FALSE]
RspNew == [buf |-> <<>>, max |-> 0, len |-> 0, lenPos |-> 0, length |-> 0, past |-> FALSE]

\* What a writer puts at a place of the buffer; `past' remembers a character
\* beyond its end.
Write(rsp, at, text) ==
    [rsp EXCEPT !.buf = [i \in DOMAIN @ |->
                           IF i - at \in DOMAIN text THEN text[i - at] ELSE @[i]],
                !.past = @ \/ at + Len(text) > Len(rsp.buf)]

\* snprintf(_buf + _len, _max, ...): at most _max characters, one of them the
\* end.
Put(rsp, text) ==
    IF rsp.max = 0 THEN rsp
    ELSE Write(rsp, rsp.len,
               Append(IF Len(text) < rsp.max THEN text ELSE SubSeq(text, 1, rsp.max - 1), "0"))

\* _max -= n, and the result of the caller: room is left.
Take(rsp, n) == [rsp EXCEPT !.max = (@ - n) % Uint16]
Grow(rsp, n) == [rsp EXCEPT !.len = (@ + n) % Uint16]

\* start, and event.
RspStart(rsp) ==
    Take(Grow(Put([rsp EXCEPT !.len = 0], Text("s", StatusLine)), StatusLine), StatusLine)

\* add: the whole length so far is taken from the room that is left.
AddLine(rsp, text) ==
    LET grown == Grow(Put(rsp, text), Len(text))
    IN  IF rsp.max = 0 THEN rsp ELSE Take(grown, grown.len)
RspAddType(rsp) == AddLine(rsp, Text("h", TypeLine))
RspAddLength(rsp, n) ==
    LET line == Text("h", LengthLine - 6) \o Text("n", 4) \o Text("h", 2)
        added == AddLine(rsp, line)
    IN  IF rsp.max = 0 THEN rsp ELSE [added EXCEPT !.lenPos = (added.len - 2) % Uint16, !.length = n]

\* The fault: the data does not become part of what is sent.
SetContentLength_NoData(rsp, n) ==
    LET digits == Write(rsp, rsp.lenPos - 4, Text("n", 4))
    IN  IF rsp.lenPos = 0 THEN rsp ELSE [digits EXCEPT !.length = n]

\* setContentLength: four digits before _len_pos, and the character that
\* snprintf ends them with is put back.
SetContentLength(rsp, n) ==
    LET digits == Write(rsp, rsp.lenPos - 4, Text("n", 4))
    IN  IF rsp.lenPos = 0 THEN rsp ELSE Grow([digits EXCEPT !.length = n], n)

\* end with no data, and end with a text of n characters.
RspEnd(rsp) ==
    IF rsp.max = 0 THEN rsp ELSE Take(Grow(Put(rsp, Text("r", 2)), 2), 2)
RspEndText(rsp, n) ==
    LET added == RspAddLength(rsp, n)
        text == Text("r", 2) \o Text("d", n)
    IN  IF rsp.max = 0 \/ added.max = 0 THEN added
        ELSE Take(Grow(Put(added, text), Len(text)), Len(text))

\* buf() and len() as they are sent: there is no buffer without room.
RspSent(rsp) == IF rsp.max = 0 THEN <<>> ELSE SubSeq(rsp.buf, 1, rsp.len)
=============================================================================
