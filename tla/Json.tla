-------------------------------- MODULE Json --------------------------------
(***************************************************************************)
(* The JSON parser (src/Hap/jsmn.cpp, which is compiled with               *)
(* JSMN_PARENT_LINKS and JSMN_STRICT) and the lookups on its tokens        *)
(* (src/Hap/HapJson.h).                                                    *)
(*                                                                         *)
(* A text is a sequence of symbols: the punctuation, Quote, Blank, Escape  *)
(* for a backslash with the symbol behind it, BadEscape for one that JSON  *)
(* does not know, Control, words of a string, and the primitives, each one *)
(* symbol.  Indices of tokens begin with 0 and have the width of the code: *)
(* the parent of a token is a signed byte there.                           *)
(***************************************************************************)
EXTENDS Integers, Sequences, SequencesExt

CONSTANTS MaxTokens,     \* tokens of the parser: 100 or 200 in the code
          ParentRange    \* values of a token's parent: 256, from -128

ASSUME JsonAssumption == MaxTokens \in Nat /\ ParentRange \in Nat \ {0}

Quote == "quote"
Blank == "blank"
Escape == "escape"
BadEscape == "bad escape"
Control == "control"
Punctuation == {"{", "}", "[", "]", ":", ","}
Primitives == {"true", "false", "null", "0", "1", "2"}

Signed(i) == ((i + ParentRange \div 2) % ParentRange) - ParentRange \div 2
NoToken == -1

\* jsmn_init.
JsonStart(js) == [js |-> js, pos |-> 1, toks |-> <<>>, super |-> NoToken, count |-> 0,
                  err |-> "ok"]

Tok(p, i) == p.toks[i + 1]
HasTok(p, i) == i + 1 \in DOMAIN p.toks
LastTok(p) == Len(p.toks) - 1
Stop(p, e) == [p EXCEPT !.err = e]
Advance(p, n) == [p EXCEPT !.pos = @ + n]

\* The token that holds another one counts it.
Counted(p) == IF HasTok(p, p.super)
              THEN [p EXCEPT !.toks[p.super + 1].size = @ + 1] ELSE p

\* jsmn_alloc_token and jsmn_fill_token; an object or array is open while
\* its end is not known.
Alloc(p, type, start, end, parent) ==
    IF Len(p.toks) >= MaxTokens THEN Stop(p, "NOMEM")
    ELSE [p EXCEPT !.count = @ + 1,
                   !.toks = Append(@, [type |-> type, start |-> start, end |-> end,
                                       size |-> 0, parent |-> Signed(parent)])]

\* jsmn_parse_string: up to the closing quote.
StringEnd(js, start) ==
    LET ends == {i \in start + 1 .. Len(js) : js[i] \in {Quote, BadEscape}}
    IN  IF ends = {} THEN 0 ELSE CHOOSE i \in ends : \A j \in ends : i <= j

ParseString(p) ==
    LET end == StringEnd(p.js, p.pos)
        q == Alloc(p, "STRING", p.pos + 1, end, p.super)
    IN  IF end = 0 THEN Stop(p, "PART")
        ELSE IF p.js[end] = BadEscape THEN Stop(p, "INVAL")
        ELSE IF q.err # "ok" THEN q
        ELSE [Counted(q) EXCEPT !.pos = end + 1]

\* jsmn_parse_primitive: up to a blank, a comma or a closing bracket.
PrimitiveEnd(js, start) ==
    LET ends == {i \in start .. Len(js) :
                    js[i] \in {Blank, ",", "]", "}", Control}}
    IN  IF ends = {} THEN 0 ELSE CHOOSE i \in ends : \A j \in ends : i <= j

\* In strict mode a primitive is no key, and no second value of a key.
Misplaces(p) ==
    /\ HasTok(p, p.super)
    /\ \/ Tok(p, p.super).type = "OBJECT"
       \/ Tok(p, p.super).type = "STRING" /\ Tok(p, p.super).size # 0

ParsePrimitive(p) ==
    LET end == PrimitiveEnd(p.js, p.pos)
        q == Alloc(p, "PRIMITIVE", p.pos, end, p.super)
    IN  IF Misplaces(p) THEN Stop(p, "INVAL")
        ELSE IF end = 0 THEN Stop(p, "PART")
        ELSE IF p.js[end] = Control THEN Stop(p, "INVAL")
        ELSE IF q.err # "ok" THEN q
        ELSE [Counted(q) EXCEPT !.pos = end]

\* An opening bracket: a token whose parent is the one it is counted in.
OpenToken(p, type) ==
    LET q == Alloc(p, type, p.pos, -1, p.super)
    IN  IF q.err # "ok" THEN q
        ELSE [Counted(q) EXCEPT !.super = LastTok(q), !.pos = @ + 1]

\* A closing bracket: up the parents of the last token to one that is open.
IsOpen(t) == t.start # -1 /\ t.end = -1
RECURSIVE OpenAbove(_, _)
OpenAbove(p, i) ==
    IF ~HasTok(p, i) THEN [found |-> FALSE, i |-> i]
    ELSE IF IsOpen(Tok(p, i)) THEN [found |-> TRUE, i |-> i]
    ELSE IF Tok(p, i).parent = NoToken THEN [found |-> FALSE, i |-> i]
    ELSE OpenAbove(p, Tok(p, i).parent)

CloseToken(p, type) ==
    LET up == OpenAbove(p, LastTok(p))
        t == Tok(p, up.i)
    IN  IF p.toks = <<>> THEN Stop(p, "INVAL")
        ELSE IF ~HasTok(p, up.i) THEN Stop(p, "undefined")
        ELSE IF t.type # type THEN Stop(p, "INVAL")
        ELSE IF up.found
        THEN [p EXCEPT !.toks[up.i + 1].end = p.pos + 1, !.super = t.parent, !.pos = @ + 1]
        ELSE IF p.super = NoToken THEN Stop(p, "INVAL") ELSE Advance(p, 1)

\* A colon makes the last token the one that holds what follows, a comma
\* goes back to the object or array around it.
Comma_StaysAtKey(p) == Advance(p, 1)
Comma(p) ==
    IF HasTok(p, p.super) /\ Tok(p, p.super).type \notin {"ARRAY", "OBJECT"}
    THEN [p EXCEPT !.super = Tok(p, p.super).parent, !.pos = @ + 1]
    ELSE Advance(p, 1)

\* jsmn_parse.
JsonSymbol(p) ==
    LET c == p.js[p.pos]
    IN  CASE c = "{" -> OpenToken(p, "OBJECT")
          [] c = "[" -> OpenToken(p, "ARRAY")
          [] c = "}" -> CloseToken(p, "OBJECT")
          [] c = "]" -> CloseToken(p, "ARRAY")
          [] c = Quote -> ParseString(p)
          [] c = Blank -> Advance(p, 1)
          [] c = ":" -> [p EXCEPT !.super = LastTok(p), !.pos = @ + 1]
          [] c = "," -> Comma(p)
          [] c \in Primitives -> ParsePrimitive(p)
          [] OTHER -> Stop(p, "INVAL")

RECURSIVE JsonFrom(_)
JsonFrom(p) ==
    IF p.err # "ok" THEN p
    ELSE IF p.pos <= Len(p.js) THEN JsonFrom(JsonSymbol(p))
    ELSE IF \E i \in DOMAIN p.toks : IsOpen(p.toks[i]) THEN Stop(p, "PART")
    ELSE p

JsonParse(js) == JsonFrom(JsonStart(js))

-----------------------------------------------------------------------------
(* Parser: what is read from the tokens.                                   *)

\* Parser::parse of a text: there must be at least one token.
JsonOk(p) == p.err = "ok" /\ p.count > 0

\* Obj::type, start and length, size, is_null.
TypeOf(p, i) == IF HasTok(p, i) THEN Tok(p, i).type ELSE "UNDEFINED"
TextOf(p, i) == SubSeq(p.js, Tok(p, i).start, Tok(p, i).end - 1)
SizeOf(p, i) == IF HasTok(p, i) THEN Tok(p, i).size ELSE 0
IsNull(p, i) == TypeOf(p, i) = "PRIMITIVE" /\ TextOf(p, i) = <<"null">>

\* Obj::set_if for a boolean and for a number; NoValue is "not set".
NoValue == <<"not set">>
SetIfBool(p, i) ==
    LET text == TextOf(p, i)
    IN  IF TypeOf(p, i) # "PRIMITIVE" THEN NoValue
        ELSE IF text \in {<<"true">>, <<"1">>} THEN <<TRUE>>
        ELSE IF text \in {<<"false">>, <<"0">>} THEN <<FALSE>>
        ELSE NoValue

Number == [d \in {"0", "1", "2"} |-> CASE d = "0" -> 0 [] d = "1" -> 1 [] OTHER -> 2]

\* std::from_chars: the digits at the front.
SetIfNumber(p, i) ==
    IF ~HasTok(p, i) \/ TextOf(p, i) = <<>> \/ TextOf(p, i)[1] \notin DOMAIN Number
    THEN NoValue ELSE <<Number[TextOf(p, i)[1]]>>

\* Obj::copy into a buffer of `size' bytes, one of them for the end.
CopyText(p, i, size) ==
    LET text == TextOf(p, i)
    IN  IF ~HasTok(p, i) THEN <<>>
        ELSE SubSeq(text, 1, IF Len(text) > size - 1 THEN size - 1 ELSE Len(text))

\* The tokens whose parent is obj, in the order of the text: as many as its
\* size says.  (The code's scan goes on behind the tokens when there are
\* fewer: that takes a parent that did not fit its byte.)
Inside(p, obj) ==
    LET in == {i \in obj + 1 .. LastTok(p) : Tok(p, i).parent = obj}
    IN  SubSeq(SetToSortSeq(in, <), 1, SizeOf(p, obj))

\* Parser::find of a key and of an element.
FindKey_Loose(p, obj, key) ==
    LET named == SelectSeq([i \in 1 .. Len(p.toks) |-> i - 1],
                           LAMBDA i : TextOf(p, i) = key)
    IN  IF TypeOf(p, obj) # "OBJECT" \/ named = <<>> THEN NoToken ELSE Head(named)
FindKey(p, obj, key) ==
    LET named == SelectSeq(Inside(p, obj),
                           LAMBDA i : TypeOf(p, i) = "STRING" /\ TextOf(p, i) = key)
    IN  IF TypeOf(p, obj) # "OBJECT" \/ named = <<>> THEN NoToken ELSE Head(named)

FindElement(p, arr, ind) ==
    IF TypeOf(p, arr) # "ARRAY" \/ ind >= Len(Inside(p, arr)) THEN NoToken
    ELSE Inside(p, arr)[ind + 1]

\* Parser::parse of the members of an object: the index in om of the first
\* member of a wrong type, else of the first mandatory one that is missing,
\* else -1, and the values.
Members(p, obj, om) ==
    LET at == [k \in DOMAIN om |-> FindKey(p, obj, om[k].key)]
        value == [k \in DOMAIN om |-> IF at[k] > 0 THEN at[k] + 1 ELSE at[k]]
        wrong == {k \in DOMAIN om : at[k] > 0 /\ TypeOf(p, value[k]) \notin om[k].type}
        missing == {k \in DOMAIN om : "UNDEFINED" \notin om[k].type /\ value[k] < 0}
        First(s) == CHOOSE k \in s : \A l \in s : k <= l
    IN  [bad |-> IF wrong # {} THEN First(wrong)
                 ELSE IF missing # {} THEN First(missing) ELSE -1,
         value |-> value]
=============================================================================
