----------------------------- MODULE HttpParser -----------------------------
(***************************************************************************)
(* The parser of requests (src/Hap/picohttpparser.c) and what the server   *)
(* takes from it (Parser in src/Hap/HapHttp.h).  It is called again with   *)
(* all that was received whenever more arrives.                            *)
(*                                                                         *)
(* A request is a sequence of symbols: sp, tab, cr, lf, colon; letter for  *)
(* any character of a token; mark for a printable one that no header name  *)
(* has; control and high for those below and above ASCII; version for the  *)
(* eight characters HTTP/1.x; the names of the two headers the server      *)
(* reads, and values short and long.                                       *)
(***************************************************************************)
EXTENDS Integers, Sequences, SequencesExt

CONSTANT MaxHeaders     \* headers the parser has room for

ASSUME HttpParserAssumption == MaxHeaders \in Nat

ContentHeaders == {"Content-Type", "Content-Length"}
NameSymbols == ContentHeaders \cup {"letter", "short", "long"}
Blanks == {"sp", "tab"}
Controls == {"tab", "cr", "lf", "control"}

Chars(x) == CASE x = "version" -> 8
              [] x = "Content-Type" -> 12
              [] x = "Content-Length" -> 14
              [] x = "long" -> 16
              [] OTHER -> 1
Width(b) == FoldLeft(LAMBDA n, x : n + Chars(x), 0, b)

\* How a part of the parser ends: at a position, or with -1 for an error and
\* -2 for a request that goes on.
At(i) == [at |-> i, ret |-> 0]
Error == [at |-> 0, ret |-> -1]
Partial == [at |-> 0, ret |-> -2]

FirstIn(b, i, S) ==
    LET in == {j \in i .. Len(b) : b[j] \in S}
    IN  IF in = {} THEN 0 ELSE CHOOSE j \in in : \A k \in in : j <= k

\* CHECK_EOF and EXPECT_CHAR.
Expect(b, i, x) == IF i > Len(b) THEN Partial
                   ELSE IF b[i] = x THEN At(i + 1) ELSE Error

\* A line ends with cr lf or with lf alone.
LineEnd(b, i) == IF b[i] = "cr" THEN Expect(b, i + 1, "lf") ELSE At(i + 1)

\* ADVANCE_TOKEN: up to a space, with findchar_fast.
AdvanceToken(b, i) ==
    LET j == FirstIn(b, i, {"sp"} \cup Controls)
    IN  IF j = 0 THEN Partial ELSE IF b[j] = "sp" THEN At(j) ELSE Error

\* get_token_to_eol: a tab is part of the text, other controls are not.
TokenToEol(b, i) ==
    LET j == FirstIn(b, i, Controls \ {"tab"})
        next == LineEnd(b, j)
    IN  IF j = 0 THEN [end |-> 0, next |-> Partial]
        ELSE IF b[j] = "control" THEN [end |-> 0, next |-> Error]
        ELSE [end |-> j, next |-> next]

StartAt_AtEnd(b, chars) ==
    CHOOSE i \in 1 .. Len(b) + 1 :
            /\ Width(SubSeq(b, 1, i - 1)) >= chars
            /\ i > 1 => Width(SubSeq(b, 1, i - 2)) < chars

\* is_complete: an empty line, looked for from three characters before the
\* end of what was seen before.
StartAt(b, chars) ==
    IF chars < 3 THEN 1
    ELSE CHOOSE i \in 1 .. Len(b) + 1 :
            /\ Width(SubSeq(b, 1, i - 1)) >= chars - 3
            /\ i > 1 => Width(SubSeq(b, 1, i - 2)) < chars - 3

RECURSIVE CompleteFrom(_, _, _)
CompleteFrom(b, i, lines) ==
    IF lines = 2 THEN At(i)
    ELSE IF i > Len(b) THEN Partial
    ELSE IF b[i] \notin {"cr", "lf"} THEN CompleteFrom(b, i + 1, 0)
    ELSE IF LineEnd(b, i).ret # 0 THEN LineEnd(b, i)
    ELSE CompleteFrom(b, LineEnd(b, i).at, lines + 1)

IsComplete(b, last) == CompleteFrom(b, StartAt(b, last), 0)

\* parse_http_version: not before nine characters are there.
ParseVersion(b, i) ==
    IF Width(SubSeq(b, i, Len(b))) < 9 THEN Partial
    ELSE IF b[i] = "version" THEN At(i + 1) ELSE Error

\* The name of a header: characters of a token up to a colon.
HeaderName(b, i) ==
    LET j == FirstIn(b, i, {"colon"})
        bad == \E k \in i .. (IF j = 0 THEN Len(b) ELSE j - 1) : b[k] \notin NameSymbols
    IN  IF bad \/ j = i THEN Error ELSE IF j = 0 THEN Partial ELSE At(j)

Trimmed(v) ==
    LET ends == {n \in 0 .. Len(v) : n > 0 => v[n] \notin Blanks}
    IN  SubSeq(v, 1, CHOOSE n \in ends : \A k \in ends : k <= n)

\* parse_headers: a line that begins with a blank goes on with the header
\* before it, and is stored as one without a name.
RECURSIVE ParseHeaders(_, _, _)
ParseHeaders(b, i, hs) ==
    LET folded == hs # <<>> /\ b[i] \in Blanks
        name == HeaderName(b, i)
        start == IF folded THEN i
                 ELSE FirstIn(b, name.at + 1, {b[k] : k \in DOMAIN b} \ Blanks)
        line == TokenToEol(b, start)
        header == [name |-> IF folded THEN <<>> ELSE SubSeq(b, i, name.at - 1),
                   value |-> Trimmed(SubSeq(b, start, line.end - 1))]
    IN  IF i > Len(b) THEN [next |-> Partial, headers |-> hs]
        ELSE IF b[i] \in {"cr", "lf"} THEN [next |-> LineEnd(b, i), headers |-> hs]
        ELSE IF Len(hs) = MaxHeaders THEN [next |-> Error, headers |-> hs]
        ELSE IF ~folded /\ name.ret # 0 THEN [next |-> name, headers |-> hs]
        ELSE IF start = 0 THEN [next |-> Partial, headers |-> hs]
        ELSE IF line.next.ret # 0 THEN [next |-> line.next, headers |-> hs]
        ELSE ParseHeaders(b, line.next.at, Append(hs, header))

\* parse_request: an empty line before the request is skipped.
NoRequest(r) == [next |-> r, method |-> <<>>, path |-> <<>>, headers |-> <<>>]

RequestLine(b) ==
    LET Version(start, method, path, version) ==
            LET eol == IF version.ret # 0 THEN version
                       ELSE IF b[version.at] \in {"cr", "lf"} THEN LineEnd(b, version.at)
                       ELSE Error
            IN  [next |-> eol, headers |-> <<>>,
                 method |-> SubSeq(b, start.at, method.at - 1),
                 path |-> SubSeq(b, method.at + 1, path.at - 1)]
        Path(start, method, path) ==
            IF path.ret # 0 THEN NoRequest(path)
            ELSE IF method.at = start.at \/ path.at = method.at + 1 THEN NoRequest(Error)
            ELSE Version(start, method, path, ParseVersion(b, path.at + 1))
        Method(start, method) ==
            IF method.ret # 0 THEN NoRequest(method)
            ELSE Path(start, method, AdvanceToken(b, method.at + 1))
        Start(start) ==
            IF start.ret # 0 THEN NoRequest(start)
            ELSE Method(start, AdvanceToken(b, start.at))
    IN  IF b = <<>> THEN NoRequest(Partial)
        ELSE Start(IF b[1] \in {"cr", "lf"} THEN LineEnd(b, 1) ELSE At(1))

\* phr_parse_request.
PhrParseRequest(b, last) ==
    LET Headers(line, hs) == [line EXCEPT !.next = hs.next, !.headers = hs.headers]
        Line(line) == IF line.next.ret # 0 THEN line
                      ELSE Headers(line, ParseHeaders(b, line.next.at, <<>>))
    IN  IF last # 0 /\ IsComplete(b, last).ret # 0 THEN NoRequest(IsComplete(b, last))
        ELSE Line(RequestLine(b))

-----------------------------------------------------------------------------
(* Http::Parser.                                                           *)

HttpInit == [buflen |-> 0, status |-> "Incomplete", method |-> <<>>, path |-> <<>>,
             headers |-> <<>>, data |-> <<>>]

\* Parser::parse, of all that was received so far.
HttpParse(p, b) ==
    LET Parsed(rc) ==
            [buflen |-> Width(b),
             status |-> CASE rc.next.ret = 0 -> "Success"
                          [] rc.next.ret = -1 -> "Error"
                          [] OTHER -> "Incomplete",
             method |-> rc.method, path |-> rc.path, headers |-> rc.headers,
             data |-> IF rc.next.ret = 0 THEN SubSeq(b, rc.next.at, Len(b)) ELSE p.data]
    IN  Parsed(PhrParseRequest(b, p.buflen))

\* Parser::hdr: the value of the first header of that name as a number, if
\* it is short enough (a longer one is passed over), or compared with a text.
HdrNumber(p, h) ==
    SelectSeq(p.headers, LAMBDA x : x.name = <<h>> /\ Width(x.value) < 16)
HdrIs(p, h, text) ==
    LET named == SelectSeq(p.headers, LAMBDA x : x.name = <<h>>)
    IN  named # <<>> /\ named[1].value = text
=============================================================================
