---------------------------- MODULE MCAlgorithms ----------------------------
(***************************************************************************)
(* The algorithms of the repository against reference definitions, over    *)
(* bounded inputs.  A behaviour picks one input, which the invariants      *)
(* examine, or uses one of the objects that are fed or filled piece by     *)
(* piece.  All sizes are scaled down, with every edge of a buffer in reach.*)
(***************************************************************************)
EXTENDS Srp, Poly1305, Json, HttpParser, Curve25519, HashStream, Responses, TlvMessage

VARIABLE case       \* the input that is examined, or what is in use

Kinds == {"md", "srp", "poly", "aead", "json", "http", "curve", "hash", "response", "message"}
Use(k) == case = [kind |-> "none", next |-> k] /\ UNCHANGED case
Unused == UNCHANGED <<hashVars, responseVars, tlvVars>>
During(k) == case.kind = k /\ Unused
Pick(k, cases) == case = [kind |-> "none", next |-> k] /\ case' \in cases /\ Unused

\* The value of a power modulo N.
PowMod(b, e) ==
    LET pow[i \in 0 .. e] ==
            IF i = 0 THEN 1
            ELSE LET half == pow[i \div 2]
                     square == (half * half) % Modulus
                 IN  IF i % 2 = 1 THEN (square * b) % Modulus ELSE square
    IN  pow[e]

-----------------------------------------------------------------------------
(* MD: two numbers of K digits.                                            *)
Numbers == 0 .. Base ^ K - 1
MdCases == [kind : {"md"}, x : {n \in Numbers : n % 11 = 0 \/ n > 720},
            y : {n \in Numbers : n < 12 \/ n % 23 = 11 \/ n > 723}]
PickMd == Pick("md", MdCases)

\* Digit arithmetic is the arithmetic of integers: sums and differences with
\* their carries, comparison, products, the reduction by the constant R, and
\* powers with every bit of the exponent; the carry or borrow of any digit
\* may run through all digits above (src/Crypto/MD.cpp).
MdCorrect ==
    case.kind = "md" =>
        LET x == Digits(case.x, K)
            y == Digits(case.y, K)
            wide == Digits(case.x * Base ^ K + case.y, 2 * K)
            sum == Add(x, y, K)
            diff == Sub(x, y, K)
            shifted == SubShifted(AddShifted(wide, x, 2).d, x, 2)
            power == ExpMod(x, y, Zero(K))
        IN  /\ InitBytes(Val(x, PUBLIC_BYTES), K) = x
            /\ InitBytes(Val(x, 0), K) = x
            /\ ByteLength(x) = Len(Val(x, 0))
            /\ Value(sum.d) + sum.carry * Base ^ K = case.x + case.y
            /\ Value(diff.d) = (case.x - case.y) % Base ^ K
            /\ (diff.carry = 0) = (case.x >= case.y)
            /\ shifted.d = wide
            /\ Cmp(x, y) = (IF case.x > case.y THEN 1 ELSE IF case.x < case.y THEN -1 ELSE 0)
            /\ Value(Mul(x, y, 2 * K).d) = case.x * case.y
            /\ Mod(wide).ok /\ Value(Mod(wide).d) = Value(wide) % Modulus
            /\ Value(AddMod(x, y).d) = (case.x + case.y) % Modulus
            /\ Value(MulMod(x, y).d) = (case.x * case.y) % Modulus
            /\ case.y # 0 => Value(power) = PowMod(case.x, case.y)

-----------------------------------------------------------------------------
(* SRP: the secrets, the values of the hashes, and what buffers held.      *)
Hashes == {0, 5, 8}
Privates == {0, 1, 17, 62, 80}
SrpCases ==
    {c \in [kind : {"srp"}, x : Hashes, xUser : Hashes, k : {1, 7}, u : {0, 4, 8},
            a : Privates, b : Privates, I : {"Pair-Setup"}, zeros : {0, 1}, stale : {0},
            staleUser : {1}] :
        c.zeros = 1 => c.x = c.xUser /\ c.u = 4}
PickSrp == Pick("srp", SrpCases)

\* The values of the protocol, as the comments of Srp.cpp give them.
DocV(c) == PowMod(Generator, c.x)
DocA(c) == PowMod(Generator, c.a)
DocB(c) == (c.k * DocV(c) + PowMod(Generator, c.b)) % Modulus
DocHostS(c) == PowMod((DocA(c) * PowMod(DocV(c), c.u)) % Modulus, c.b)
DocKgx(c) == (c.k * PowMod(Generator, c.xUser)) % Modulus
DocUserS(c) == PowMod((DocB(c) - DocKgx(c)) % Modulus, (c.a + c.u * c.xUser) % Modulus)

\* No value has a leading zero byte, no difference borrows, no exponent is 0.
FullBytes(n, bytes) == n >= ByteBase ^ (bytes - 1)
Clean(c) ==
    /\ c.zeros = 0
    /\ \A x \in {c.x, c.xUser} : FullBytes(x, HASH_BYTES)
    /\ \A n \in {DocA(c), DocHostS(c), DocUserS(c)} : FullBytes(n, PUBLIC_BYTES)
    /\ DocB(c) >= DocKgx(c)
    /\ c.u # 0 /\ c.b # 0 /\ c.a + c.u * c.xUser # 0

\* The messages of the exchange, in their order: M1 and M2, M3, M4.
SrpStart ==
    /\ During("srp")
    /\ LET c == case
       IN  \E ver \in {Verifier(c.x, c.stale)} :
             case' = [kind |-> "srp M2", c |-> c, ver |-> ver, A |-> UserA(c.a, c.staleUser),
                      B |-> HostInit(ver, c.k, c.b)]
SrpHost ==
    /\ During("srp M2")
    /\ LET c == case.c
       IN  case' = [kind |-> "srp host"] @@ case
                   @@ [host |-> HostSetA(case.ver, c.I, "salt", case.A, case.B, c.u, c.b,
                                         c.zeros, c.stale)]
SrpUser ==
    /\ During("srp host")
    /\ LET c == case.c
       IN  case' = [kind |-> "srp M3"] @@ case
                   @@ [user |-> UserAuth(Verifier(c.xUser, c.staleUser), c.I, "salt", case.A,
                                         case.B, c.k, c.u, c.a, c.zeros, c.staleUser)]
SrpVerify ==
    /\ During("srp M3")
    /\ \E answer \in {HostVerify(case.host, case.A, case.user.M)} :
         case' = [kind |-> "srp M4"] @@ case
                 @@ [accepted |-> answer.ok,
                     trusted |-> answer.ok /\ UserVerify(case.user, case.A, answer.V)]

\* The two sides compute the values of the protocol and trust each other
\* exactly when their secrets agree: the password of the controller is the
\* setup code (Host and User of src/Crypto/Srp.cpp, on the numbers of
\* MD.cpp).  The values with a leading zero byte are those of SessionKeyIsHash.
SrpAsDocumented ==
    case.kind = "srp M4" /\ Clean(case.c) =>
        LET Sent(n) == Val(Digits(n, K), PUBLIC_BYTES)
        IN  /\ case.ver.v = Sent(DocV(case.c))
            /\ case.A = Sent(DocA(case.c))
            /\ case.B = Sent(DocB(case.c))
            /\ case.host.key.hash = Sent(DocHostS(case.c))
            /\ case.user.key.hash = Sent(DocUserS(case.c))
            /\ case.accepted = case.trusted
            /\ case.trusted = (DocHostS(case.c) = DocUserS(case.c))
            /\ case.c.x = case.c.xUser => case.trusted

\* "K = H(S) - session key" (src/Crypto/Srp.cpp:216): the session key of the
\* accessory is the hash of S and of nothing else.
SessionKeyIsHash ==
    case.kind = "srp host" /\ case.c.u # 0 /\ case.c.b # 0 =>
        LET S == Digits(DocHostS(case.c), K)
            session == case.host.key
        IN  /\ session.hash \in {Val(S, PUBLIC_BYTES), Val(S, 0)}
            /\ session.lost = 0

-----------------------------------------------------------------------------
(* Poly1305 and the encryption.                                            *)
PolyCases == [kind : {"poly"}, r : {0, 1, 2, 3, 15, 63, 77, 127, 170, 255},
              m1 : {0, 5, 100, 254, 255}, m2 : {n \in 0 .. TagSpace - 1 : n % 4 < 2},
              last : {0, 62}, pad : {1, 254}]
PickPoly == Pick("poly", PolyCases)

\* The tag is the polynomial of the message at r modulo the prime, plus the
\* pad: the partly carried limbs never lose a carry, and the one subtraction
\* of the prime at the end is enough (src/Crypto/Poly1305.cpp).
PolyIsModular ==
    LET Tags(c, h, last) ==
            /\ PolyTag(c) = (h + c.pad) % TagSpace
            /\ PolyTag(PolyBlock(c, last, 0))
               = ((((h + last) * case.r) % Prime) + c.pad) % TagSpace
        SecondBlockOf(c, h, m) ==
            Tags(PolyBlock(c, m, TagSpace), ((h + m + TagSpace) * case.r) % Prime, case.last)
        FirstBlockOf(c, h, m) ==
            SecondBlockOf(PolyBlock(c, m, TagSpace), ((h + m + TagSpace) * case.r) % Prime, case.m2)
    IN  case.kind = "poly" => FirstBlockOf(PolyInit(case.r, case.pad), 0, case.m1)

AeadSizes == 0 .. 2 * TAG_SIZE + 1
AeadCases == [kind : {"aead"}, aad : AeadSizes, text : AeadSizes,
              aad2 : AeadSizes, cut : AeadSizes]
PickAead == Pick("aead", AeadCases)

\* Decryption gives back the message and the tag that encryption gave; two
\* different pairs of additional data and text have different tags even when
\* all their bytes are zero, and a tag does not depend on the pieces its
\* message comes in (src/Crypto/Aead.cpp, Poly1305::update).
AeadOpens ==
    case.kind = "aead" =>
        LET Symbols(n) == [i \in 1 .. n |-> {<<"byte", i>>}]
            Zeros(n) == [i \in 1 .. n |-> {}]
            Tagged(a, t) == GatherEnd(AeadTagged(Zeros(a), Zeros(t)))
            locked == Aead("Encrypt", "key", "nonce", Symbols(case.text), Symbols(case.aad))
            opened == Aead("Decrypt", "key", "nonce", locked.out, Symbols(case.aad))
            text2 == case.text + case.aad - case.aad2
            bytes == Symbols(case.aad + case.text)
            cut == IF case.cut > Len(bytes) THEN Len(bytes) ELSE case.cut
        IN  /\ opened.out = Symbols(case.text)
            /\ opened.tag = locked.tag
            /\ case.text > 0 => locked.out # Symbols(case.text)
            /\ case.aad2 # case.aad /\ text2 >= 0 =>
                  Tagged(case.aad, case.text) # Tagged(case.aad2, text2)
            /\ FoldLeft(Gather, GatherInit,
                        <<SubSeq(bytes, 1, cut), SubSeq(bytes, cut + 1, case.aad + case.text)>>)
               = Gather(GatherInit, bytes)

\* What is encrypted opens again, under an authenticator that is the one of
\* the standard and covers all that was sent.
AeadIsStandard == PolyIsModular /\ AeadOpens

-----------------------------------------------------------------------------
(* JSON: the body of a PUT with one or two elements, its members in either *)
(* order, with blanks or without, and cut off somewhere.                   *)
Str(w) == <<Quote, w, Quote>>
Member(w, v) == Str(w) \o <<":">> \o v
Values == {<<"2">>, <<"true">>, <<"null">>, Str("iid"), <<Quote, "iid", Escape, Quote>>}
Elements == [iid : {"1", "2"}, value : Values, ev : {"absent", "true", "0"},
             first : {"iid", "value"}]
JsonCases == {c \in [kind : {"json"}, e1 : Elements, e2 : Elements, n : {1, 2},
                     blank : BOOLEAN, cut : {0, 1, 2, 7, 13, 28, 29}] :
                 /\ c.n = 1 => c.e2 = c.e1
                 /\ c.n = 2 => c.e2.iid = "2" /\ (c.blank <=> c.e1.first = "iid")
                 /\ c.cut # 0 => c.e1.iid = "1" /\ c.e1.first = "value"}
PickJson == Pick("json", JsonCases)

ElementText(e) ==
    LET iid == Member("iid", <<e.iid>>)
        value == Member("value", e.value)
        ev == IF e.ev = "absent" THEN <<>> ELSE <<",">> \o Member("ev", <<e.ev>>)
    IN  <<"{">> \o (IF e.first = "iid" THEN iid \o <<",">> \o value
                                       ELSE value \o <<",">> \o iid) \o ev \o <<"}">>
PutText(c) ==
    LET list == ElementText(c.e1)
                \o IF c.n = 1 THEN <<>> ELSE <<",">> \o ElementText(c.e2)
        text == <<"{">> \o Member("characteristics", <<"[">> \o list \o <<"]">>) \o <<"}">>
    IN  IF c.blank THEN FlattenSeq([i \in DOMAIN text |->
                            IF text[i] \in Punctuation THEN <<text[i], Blank>> ELSE <<text[i]>>])
                   ELSE text
TokensOf(c) ==
    LET Of(e) == IF e.ev = "absent" THEN 5 ELSE 7
    IN  3 + Of(c.e1) + IF c.n = 1 THEN 0 ELSE Of(c.e2)

\* A body that has been received in full is read as it was written: every
\* element of the array, its members by their names whatever their order and
\* even when a value is the name of a member, and no element behind the last;
\* a body that is cut off, or has more tokens than the parser, is refused.
\* Up to the tokens whose index fits the parent of a token: see README
\* (src/Hap/jsmn.cpp and the lookups of src/Hap/HapJson.h).
JsonRoundTrip ==
    LET om == <<[key |-> <<"iid">>, type |-> {"PRIMITIVE"}],
                [key |-> <<"value">>, type |-> {"PRIMITIVE", "STRING"}],
                [key |-> <<"ev">>, type |-> {"PRIMITIVE", "UNDEFINED"}]>>
        AsWritten(p, m, e) ==
            /\ m.bad = -1
            /\ SetIfNumber(p, m.value[1]) = <<Number[e.iid]>>
            /\ IF Head(e.value) = Quote
               THEN CopyText(p, m.value[2], 3) = SubSeq(e.value, 2, Len(e.value) - 1)
               ELSE TextOf(p, m.value[2]) = e.value
            /\ IsNull(p, m.value[2]) = (e.value = <<"null">>)
            /\ (m.value[3] = NoToken) = (e.ev = "absent")
            /\ e.ev # "absent" => SetIfBool(p, m.value[3]) = <<e.ev = "true">>
        Read(p, c, arr) ==
            /\ TypeOf(p, arr) = "ARRAY" /\ SizeOf(p, arr) = c.n
            /\ \A i \in 1 .. c.n :
                  AsWritten(p, Members(p, FindElement(p, arr, i - 1), om), <<c.e1, c.e2>>[i])
            /\ FindElement(p, arr, c.n) = NoToken
        Parsed(p, text, c) ==
            IF TokensOf(c) > MaxTokens THEN p.err = "NOMEM"
            ELSE TokensOf(c) <= ParentRange \div 2 =>
                 /\ JsonOk(p) /\ p.count = TokensOf(c)
                 /\ Read(p, c, FindKey(p, 0, <<"characteristics">>) + 1)
                 /\ c.cut < Len(text) => ~JsonOk(JsonParse(SubSeq(text, 1, c.cut)))
        Sent(text, c) == Parsed(JsonParse(text), text, c)
    IN  case.kind = "json" => Sent(PutText(case), case)

-----------------------------------------------------------------------------
(* HTTP: a request received in up to three parts.                          *)
CrLf == <<"cr", "lf">>
HeaderLines ==
    {<<"Content-Length", "colon", "sp", "short">> \o CrLf,
     <<"Content-Length", "colon", "long", "lf">>,
     <<"Content-Type", "colon", "tab", "letter", "sp", "mark", "sp">> \o CrLf,
     <<"letter", "short", "colon">> \o CrLf,
     <<"letter", "colon", "mark">> \o CrLf \o <<"sp", "high">> \o CrLf,
     <<"letter", "mark", "colon", "sp", "letter">> \o CrLf,
     <<"letter", "colon", "control">> \o CrLf,
     <<"letter", "colon", "letter", "cr", "letter">>}
FirstLines ==
    {<<"letter", "sp", "short", "letter", "sp", "version">> \o CrLf,
     CrLf \o <<"letter", "sp", "mark", "sp", "version", "lf">>,
     <<"letter", "sp", "tab", "sp", "version">> \o CrLf,
     <<"letter", "sp", "short", "sp", "letter">> \o CrLf,
     <<"letter", "sp", "sp", "version">> \o CrLf}
Bodies == {<<>>, <<"mark", "lf", "lf", "high">>}
HttpCases == [kind : {"http"}, line : FirstLines, h1 : {<<>>} \cup {h \in HeaderLines : Len(h) = 6}, h2 : HeaderLines,
              body : Bodies, i : {1, 3, 6, 7} \cup 8 .. 23, n : {0, 1}]
PickHttp == Pick("http", HttpCases)

HttpHead(c) == c.line \o c.h1 \o c.h2 \o CrLf
HttpUpto(c, i) ==
    LET b == HttpHead(c) \o c.body
    IN  SubSeq(b, 1, IF i > Len(b) THEN Len(b) ELSE i)

\* The parser is called when a part has arrived, until it has a request or an
\* error; `whole' is a parser that was given everything at once.
HttpStart ==
    /\ During("http")
    /\ LET c == case
       IN  case' = [kind |-> "http parts", c |-> c, seen |-> c.i, p |-> HttpInit,
                    whole |-> HttpParse(HttpInit, HttpUpto(c, 99))]
HttpPart ==
    /\ During("http parts") /\ case.p.status = "Incomplete"
    /\ case' = [case EXCEPT
                  !.seen = IF @ = case.c.i THEN @ + case.c.n + 1 ELSE 99,
                  !.p = HttpParse(@, HttpUpto(case.c, case.seen))]

\* A request is understood the same in whatever parts it arrives: until the
\* empty line is complete the server waits, then it has the method, the path,
\* the headers and the data of the whole; one that is refused as a whole is
\* not accepted in parts (phr_parse_request with last_len, and Parser::parse
\* in src/Hap/HapHttp.h).
HttpPieces ==
    case.kind = "http parts" =>
        LET p == case.p
            whole == case.whole
        IN  /\ p.status = "Success" => whole.status = "Success"
            /\ whole.status = "Success" =>
                 /\ p.status # "Error"
                 /\ p.buflen > 0 =>
                      (p.status = "Success" <=> p.buflen >= Width(HttpHead(case.c)))
                 /\ whole.data = case.c.body
            /\ p.status = "Success" =>
                 /\ p.method = whole.method /\ p.path = whole.path
                 /\ p.headers = whole.headers
                 /\ HdrNumber(p, "Content-Length") = HdrNumber(whole, "Content-Length")
                 /\ IsPrefix(p.data, case.c.body)

-----------------------------------------------------------------------------
(* Curve25519: private keys, and coordinates of points of the curve; one   *)
(* point has order 2, and two coordinates are not below the prime.         *)
CurveA == 4 * CURVE + 2
Square(x) == (x * x) % FieldPrime
Times(x, y) == (x * y) % FieldPrime
RightSide(x) == (Times(Square(x), x) + CurveA * Square(x) + x) % FieldPrime
Coordinates == {0, 6, Basepoint + 1, 21, FieldPrime, FieldPrime + 6}
PointOf == [x \in Coordinates |->
               <<x % FieldPrime,
                 CHOOSE y \in 0 .. FieldPrime \div 2 : Square(y) = RightSide(x % FieldPrime)>>]
PrivateKeys == {n \in 0 .. 2 ^ FieldBits : n % 1021 \in {0, 13}} \cup {7, 8}
CurveCases == [kind : {"curve"}, n : PrivateKeys, x : Coordinates]
PickCurve == Pick("curve", CurveCases)
CurveBegin ==
    /\ During("curve")
    /\ case' = [kind |-> "curve rounds", n |-> case.n, x |-> case.x, c |-> CurveStart(case.n, case.x)]
CurveNext ==
    /\ During("curve rounds") /\ ~CurveDone(case.c)
    /\ case' = [case EXCEPT !.c = CurveRound(@)]

InverseOf(x) ==
    LET pow[e \in 0 .. FieldPrime - 2] ==
            IF e = 0 THEN 1
            ELSE Times(Square(pow[e \div 2]), IF e % 2 = 1 THEN x ELSE 1)
    IN  pow[FieldPrime - 2]

\* The group of the curve; <<>> is the point at infinity.
Slope(P, Q) ==
    IF P[1] = Q[1]
    THEN Times((3 * Square(P[1]) + 2 * CurveA * P[1] + 1) % FieldPrime,
               InverseOf((2 * P[2]) % FieldPrime))
    ELSE Times((Q[2] - P[2]) % FieldPrime, InverseOf((Q[1] - P[1]) % FieldPrime))
Plus(P, Q) ==
    LET third(s, x) == <<x, (s * (P[1] - x) - P[2]) % FieldPrime>>
        by(s) == third(s, (s * s - CurveA - P[1] - Q[1]) % FieldPrime)
    IN  IF P = <<>> THEN Q
        ELSE IF Q = <<>> THEN P
        ELSE IF P[1] = Q[1] /\ (P[2] + Q[2]) % FieldPrime = 0 THEN <<>>
        ELSE by(Slope(P, Q))
Multiple(n, P) ==
    LET times[e \in 0 .. n] ==
            IF e = 0 THEN <<>>
            ELSE LET double(h) == Plus(h, h)
                 IN  IF e % 2 = 1 THEN Plus(double(times[e \div 2]), P)
                     ELSE double(times[e \div 2])
    IN  times[n]

\* The secret of two keys is the coordinate of the multiple of the point, by
\* the addition of the curve, whatever limbs were left uncarried on the way,
\* so that both sides get the same; and the chain that divides computes the
\* power p - 2 of the prime 2^255 - 19 (src/Crypto/Curve25519.cpp).
CurveIsStandard ==
    LET expected(P) == IF P = <<>> THEN 0 ELSE P[1]
    IN  /\ case.kind = "curve" /\ case.n = 0 => RecipExponent = 0 .. 254 \ {2, 4}
        /\ case.kind = "curve rounds" /\ CurveDone(case.c) =>
             CurveSecret(case.c) = expected(Multiple(Clamp(case.n), PointOf[case.x]))

-----------------------------------------------------------------------------
(* A hash and an HMAC: a message longer than two buffers, of bytes that    *)
(* all differ, and keys up to more than a block.                           *)
MCSymbol == {"byte", "key"} \X (1 .. 2 * BufferSize + 2)
MCMessage == [i \in 1 .. 2 * BufferSize + 2 |-> <<"byte", i>>]
MCKeys == {[i \in 1 .. n |-> <<"key", i>>] : n \in 0 .. BLOCK_SIZE + 2}

(* Responses: lengths of data with which a buffer that holds an answer and *)
(* two events is one character too small after none, one and two of them.  *)
MCData == {0, 1, 2, 4, 31, 32, 59, 60}

(* Pairing messages: data of none to more than two items, of two types, an *)
(* integer of one to three bytes or an empty item, in any order.           *)
Bytes(n) == [i \in 1 .. n |-> i % OneByte]
MCContents ==
    {[type |-> 1, kind |-> "data", value |-> Bytes(n)] : n \in 0 .. 2 * MaxItem + 1}
    \cup {[type |-> 3, kind |-> "data", value |-> Bytes(n)] : n \in 0 .. 2 * MaxItem}
    \cup {[type |-> 0, kind |-> "int", value |-> v] : v \in {0, 1, 3, 4, 17}}
    \cup {[type |-> 0, kind |-> "empty", value |-> <<>>]}

UseHash == Use("hash") /\ HashNext /\ UNCHANGED <<responseVars, tlvVars>>
UseResponse == Use("response") /\ ResponseNext /\ UNCHANGED <<hashVars, tlvVars>>
UseMessage == Use("message") /\ TlvNext /\ UNCHANGED <<hashVars, responseVars>>

-----------------------------------------------------------------------------
Init ==
    /\ case \in [kind : {"none"}, next : Kinds]
    /\ HashInit /\ ResponseInit /\ TlvInit
    /\ case.next = "hash" \/ key = <<>>
    /\ case.next = "message" \/ \A size \in Buffers : message.size <= size

Done == case.kind # "none" /\ UNCHANGED case /\ Unused

Next ==
    \/ PickMd
    \/ PickSrp
    \/ SrpStart
    \/ SrpHost
    \/ SrpUser
    \/ SrpVerify
    \/ PickPoly
    \/ PickAead
    \/ PickJson
    \/ PickHttp
    \/ HttpStart
    \/ HttpPart
    \/ PickCurve
    \/ CurveBegin
    \/ CurveNext
    \/ UseHash
    \/ UseResponse
    \/ UseMessage
    \/ Done

Spec == Init /\ [][Next]_<<case, hashVars, responseVars, tlvVars>>
=============================================================================
