------------------------------ MODULE Poly1305 ------------------------------
(***************************************************************************)
(* The authenticator (src/Crypto/Poly1305.cpp) and the encryption built on *)
(* it (Chacha20.cpp, Aead.cpp).                                            *)
(*                                                                         *)
(* The accumulator is five limbs that are carried only in part; the code's *)
(* limbs have 26 bits in words of 32, its prime is 2^130 - 5.  Here limbs, *)
(* words and prime are smaller, and computed with in the same order.  A    *)
(* block of a message is a number.                                         *)
(***************************************************************************)
EXTENDS Naturals, Sequences, SequencesExt, FiniteSets

CONSTANTS LIMB_BITS,     \* 26 in the code
          PRIME_GAP,     \* 5: the prime is 2^(5 * LIMB_BITS) - PRIME_GAP
          SPARE_BITS     \* 6: bits a word has more than a limb

Limb == 2 ^ LIMB_BITS
Word == 2 ^ (LIMB_BITS + SPARE_BITS)
DWord == Word ^ 2
Prime == Limb ^ 5 - PRIME_GAP
TagSpace == Limb ^ 5 \div 4        \* 2^128: two bits less than the limbs

ASSUME Poly1305Assumption ==
    /\ LIMB_BITS \in Nat \ {0, 1} /\ SPARE_BITS \in Nat
    /\ PRIME_GAP \in 1 .. Limb - 1

Limbs(n) ==
    LET low[i \in 0 .. 5] ==
            IF i = 0 THEN <<>> ELSE Append(low[i - 1], (n \div Limb ^ (i - 1)) % Limb)
    IN  low[5]
LimbValue(h) == FoldRight(LAMBDA limb, v : limb + Limb * v, h, 0)

\* Poly1305::init; r is the number without the bits that init masks.
PolyInit(r, pad) == [r |-> Limbs(r), h |-> Limbs(0), pad |-> pad]

\* Digit i of h * r: the limbs that pass the top come back times the gap.
Product(h, r, i) ==
    LET Term(j) == h[j] * (IF j <= i THEN r[i - j + 1] ELSE PRIME_GAP * r[6 + i - j])
    IN  (Term(1) + Term(2) + Term(3) + Term(4) + Term(5)) % DWord

Carried(h, r) ==
    LET low[i \in 0 .. 5] ==
            IF i = 0 THEN [d |-> <<>>, carry |-> 0]
            ELSE LET below == low[i - 1]
                     d == (Product(h, r, i) + below.carry) % DWord
                 IN  [d |-> Append(below.d, d % Limb), carry |-> (d \div Limb) % Word]
    IN  low[5]

\* A carry c that passed the top, times the gap, into the first two limbs.
Wrapped(d, c) ==
    LET h0 == (d[1] + PRIME_GAP * c) % Word
    IN  <<h0 % Limb, d[2] + h0 \div Limb, d[3], d[4], d[5]>>

\* One turn of Poly1305::blocks: h += m, h *= r, and the partial reduction,
\* which leaves one carry in the second limb.
SumOf(h, m) ==
    LET l == Limbs(m)
    IN  <<(h[1] + l[1]) % Word, (h[2] + l[2]) % Word, (h[3] + l[3]) % Word,
          (h[4] + l[4]) % Word, (h[5] + l[5]) % Word>>

\* (without the carry that passed the top)
PolyBlock_NoWrap(c, m, hibit) ==
    [c EXCEPT !.h = Carried(SumOf(c.h, m + hibit), c.r).d]

PolyBlock(c, m, hibit) ==
    LET p == Carried(SumOf(c.h, m + hibit), c.r)
    IN  [c EXCEPT !.h = Wrapped(p.d, p.carry)]

\* Poly1305::finish: the carries from the second limb around to it again,
\* then h or h - p, whichever is not negative, and the tag.
PolyCarry(h) ==
    LET low[i \in 1 .. 5] ==
            IF i = 1 THEN [d |-> <<h[1]>>, carry |-> 0]
            ELSE LET below == low[i - 1]
                 IN  [d |-> Append(below.d, (h[i] + below.carry) % Limb),
                      carry |-> (h[i] + below.carry) \div Limb]
    IN  Wrapped(low[5].d, low[5].carry)

PolyLessPrime(h) ==
    LET g[i \in 0 .. 5] ==
            IF i = 0 THEN [d |-> <<>>, carry |-> PRIME_GAP]
            ELSE LET below == g[i - 1]
                 IN  [d |-> Append(below.d, (h[i] + below.carry) % Limb),
                      carry |-> (h[i] + below.carry) \div Limb]
    IN  IF g[5].carry = 0 THEN h ELSE g[5].d

\* (Limbs are packed by shifts; four limbs are below Limb then, the second
\* exceeds it by less than it lost to its carry.)
PolyTag(c) == (LimbValue(PolyLessPrime(PolyCarry(c.h))) + c.pad) % TagSpace

-----------------------------------------------------------------------------
(* Poly1305::update gathers blocks from pieces; finish ends a last part    *)
(* with a one.  Bytes are symbols here, a message the sequence of them.    *)
CONSTANT TAG_SIZE      \* TAG_SIZE_BYTES: 16 in the code

GatherInit == [done |-> <<>>, buffer |-> <<>>]

Full(bytes) == Len(bytes) - (Len(bytes) % TAG_SIZE)
Split(bytes) ==
    [i \in 1 .. Len(bytes) \div TAG_SIZE |->
        SubSeq(bytes, (i - 1) * TAG_SIZE + 1, i * TAG_SIZE)]

\* The part that fills up the buffer, the full blocks, the rest.
Gather(c, m) ==
    LET want == IF TAG_SIZE - Len(c.buffer) > Len(m) THEN Len(m)
                ELSE TAG_SIZE - Len(c.buffer)
        buffer == c.buffer \o SubSeq(m, 1, want)
        rest == SubSeq(m, want + 1, Len(m))
        Blocks(first, s) ==
            [done |-> first \o Split(SubSeq(s, 1, Full(s))),
             buffer |-> SubSeq(s, Full(s) + 1, Len(s))]
    IN  IF c.buffer = <<>> THEN Blocks(c.done, m)
        ELSE IF Len(buffer) < TAG_SIZE THEN [c EXCEPT !.buffer = buffer]
        ELSE Blocks(Append(c.done, buffer), rest)

GatherEnd(c) ==
    IF c.buffer = <<>> THEN c.done
    ELSE Append(c.done, <<"last">> \o c.buffer)

-----------------------------------------------------------------------------
(* Chacha20 and Aead.  A byte is the set of symbols it is the exclusive or *)
(* of; the key stream of a block is symbols of its own for each key, nonce *)
(* and count.                                                              *)
CONSTANT STREAM_SIZE   \* Chacha20::BLK_SIZE_BYTES: 64 in the code

ASSUME SizesAssumption == TAG_SIZE \in Nat \ {0} /\ STREAM_SIZE \in Nat \ {0}

Xor(a, b) == (a \ b) \cup (b \ a)

\* Chacha20::block.
KeyStream(key, count, nonce) ==
    [i \in 1 .. STREAM_SIZE |-> {<<"stream", key, count, nonce, i>>}]

\* Chacha20::encrypt: the counter goes up with each block of the message.
ChachaEncrypt(key, count, nonce, msg) ==
    [i \in 1 .. Len(msg) |->
        Xor(msg[i], KeyStream(key, count + (i - 1) \div STREAM_SIZE, nonce)
                        [((i - 1) % STREAM_SIZE) + 1])]

Fill(n) == [i \in 1 .. (TAG_SIZE - (n % TAG_SIZE)) % TAG_SIZE |-> {}]
\* A length of eight bytes, half a block.
Size(n) == [i \in 1 .. TAG_SIZE \div 2 |-> {<<"size", n>>}]

\* Aead::exec: the tag is over the additional data and the encrypted text,
\* each filled up to a block, and their sizes.
AeadTagged(aad, text) ==
    FoldLeft(Gather, GatherInit,
             <<aad, Fill(Len(aad)), text, Fill(Len(text)),
               Size(Len(aad)), Size(Len(text))>>)

Aead(action, key, nonce, msg, aad) ==
    LET otk == KeyStream(key, 0, nonce)
        out == ChachaEncrypt(key, 1, nonce, msg)
        text == IF action = "Encrypt" THEN out ELSE msg
    IN  [out |-> out, tag |-> <<otk, GatherEnd(AeadTagged(aad, text))>>]
=============================================================================
