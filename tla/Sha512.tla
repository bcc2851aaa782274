------------------------------- MODULE Sha512 -------------------------------
(***************************************************************************)
(* The hash that is fed in pieces, and what is built from it: HMAC and the *)
(* key derivation (src/Crypto/Sha512.cpp, HmacSha512.cpp, Crypto.h).       *)
(*                                                                         *)
(* The compression of a block (Sha512blk) is abstract: the state of a hash *)
(* is the sequence of the blocks compressed so far, so that two hashes are *)
(* equal when the same blocks went into them.  Bytes are symbols.  What is *)
(* left is the buffer of two blocks, the order its halves are compressed   *)
(* in, and the padding.                                                    *)
(***************************************************************************)
EXTENDS Naturals, Sequences, SequencesExt

CONSTANTS BLOCK_SIZE,    \* BLOCK_SIZE_BYTES: 128 in the code
          HASH_SIZE,     \* HASH_SIZE_BYTES: 64 in the code
          LENGTH_SIZE,   \* bytes of the length in the padding: 128 / 8
          LENGTH_RANGE   \* lengths in bytes L can tell apart: 2^29 in the code

ASSUME Sha512Assumption ==
    /\ BLOCK_SIZE \in Nat /\ HASH_SIZE \in 1 .. BLOCK_SIZE
    /\ LENGTH_SIZE \in 2 .. BLOCK_SIZE - 2 /\ LENGTH_SIZE % 2 = 0
    /\ LENGTH_RANGE \in Nat \ {0}

BufferSize == 2 * BLOCK_SIZE
Mark == <<"80">>
Nul == <<"00">>
Repeat(x, n) == [i \in 1 .. n |-> x]

\* Sha512::init; the buffer holds what it held.
ShaInit == [h |-> <<>>, m |-> Repeat(<<"old">>, BufferSize), p |-> 0, L |-> 0]

\* Bytes stored from position p on, around the end of the buffer.
Stored(m, p, bytes) ==
    [i \in 1 .. BufferSize |->
        LET k == ((BufferSize + i) - (p + 1)) % BufferSize
        IN  IF k < Len(bytes) THEN bytes[k + 1] ELSE m[i]]

FirstBlock(m) == SubSeq(m, 1, BLOCK_SIZE)
SecondBlock(m) == SubSeq(m, BLOCK_SIZE + 1, BufferSize)

\* (a loop that compresses the first half only)
UpdateChunk_FirstOnly(c, chunk) ==
    LET m == Stored(c.m, c.p, chunk)
        p == (c.p + Len(chunk)) % BufferSize
    IN  [c EXCEPT !.m = m, !.p = p,
            !.h = IF c.p < BLOCK_SIZE /\ p >= BLOCK_SIZE
                  THEN Append(@, FirstBlock(m)) ELSE @]

\* One turn of the loop of Sha512::update: at most a block is copied, and
\* the half that became complete is compressed.
UpdateChunk(c, chunk) ==
    LET m == Stored(c.m, c.p, chunk)
        p == (c.p + Len(chunk)) % BufferSize
    IN  [c EXCEPT !.m = m, !.p = p,
            !.h = IF c.p < BLOCK_SIZE /\ p >= BLOCK_SIZE
                  THEN Append(@, FirstBlock(m))
                  ELSE IF c.p >= BLOCK_SIZE /\ p < BLOCK_SIZE
                  THEN Append(@, SecondBlock(m))
                  ELSE @]

Chunks(msg) ==
    LET Turns == (Len(msg) + BLOCK_SIZE - 1) \div BLOCK_SIZE
        Upto(i) == IF i * BLOCK_SIZE > Len(msg) THEN Len(msg) ELSE i * BLOCK_SIZE
    IN  [i \in 1 .. Turns |-> SubSeq(msg, (i - 1) * BLOCK_SIZE + 1, Upto(i))]

\* Sha512::update, a turn for each chunk.
ShaUpdate(c, msg) ==
    LET chunks == Chunks(msg)
        turn[i \in 0 .. Len(chunks)] ==
            IF i = 0 THEN [c EXCEPT !.L = (@ + Len(msg)) % LENGTH_RANGE]
            ELSE UpdateChunk(turn[i - 1], chunks[i])
    IN  turn[Len(chunks)]

\* Where the padding goes: the bytes left for it and the halves that are
\* compressed at the end, the first one first.
PadFits(p) == p < BLOCK_SIZE - LENGTH_SIZE - 1
Pad(p) ==
    IF PadFits(p) THEN [size |-> BLOCK_SIZE - p, halves |-> <<1>>]
    ELSE IF p >= BLOCK_SIZE /\ PadFits(p - BLOCK_SIZE)
    THEN [size |-> BufferSize - p, halves |-> <<2>>]
    ELSE [size |-> BufferSize - (p % BLOCK_SIZE), halves |-> <<1, 2>>]

\* Sha512::fini: the mark, zeros, and the low half of the length.
ShaFini(c) ==
    LET pad == Pad(c.p)
        low == LENGTH_SIZE \div 2
        m == Stored(c.m, c.p,
                    <<Mark>> \o Repeat(Nul, pad.size - 1 - low)
                             \o Repeat(<<"len", c.L>>, low))
        Half(i) == IF i = 1 THEN FirstBlock(m) ELSE SecondBlock(m)
    IN  c.h \o [i \in DOMAIN pad.halves |-> Half(pad.halves[i])]

\* Sha512::get: the bytes of a hash.
ShaGet(h, n) == [i \in 1 .. n |-> <<"hash", h, i>>]

\* Sha512::calc.
ShaCalc(msg) == ShaGet(ShaFini(ShaUpdate(ShaInit, msg)), HASH_SIZE)

-----------------------------------------------------------------------------
(* What SHA-512 hashes: the message, the mark, as few zeros as fill up a   *)
(* block, and the length.                                                  *)
Padded(msg) ==
    LET used == Len(msg) + 1 + LENGTH_SIZE
        zeros == (BLOCK_SIZE - (used % BLOCK_SIZE)) % BLOCK_SIZE
        low == LENGTH_SIZE \div 2
    IN  msg \o <<Mark>> \o Repeat(Nul, zeros + LENGTH_SIZE - low)
            \o Repeat(<<"len", Len(msg)>>, low)

StandardBlocks(msg) == Chunks(Padded(msg))

\* The lengths for which the code's padding is another one: the last that
\* still fits a block, and those whose padding begins in the second half of
\* the buffer and ends in the first, which is compressed before it.
Misplaced(n) ==
    LET p == n % BufferSize
    IN  \/ p % BLOCK_SIZE = BLOCK_SIZE - LENGTH_SIZE - 1
        \/ p >= BufferSize - LENGTH_SIZE - 1

-----------------------------------------------------------------------------
(* HmacSha512.                                                             *)

KeyBlock(pad, k) ==
    [i \in 1 .. BLOCK_SIZE |->
        IF i <= Len(k) THEN <<pad, k[i]>> ELSE <<pad>>]

\* (a key of any length is taken as it is)
HmacStart_KeyAsIs(key) ==
    [i_sha |-> ShaUpdate(ShaInit, KeyBlock("36", key)),
     o_sha |-> ShaUpdate(ShaInit, KeyBlock("5c", key))]

\* HmacSha512::start: a key longer than a block is replaced by its hash.
HmacStart(key) ==
    LET k == IF Len(key) > BLOCK_SIZE THEN ShaCalc(key) ELSE key
    IN  [i_sha |-> ShaUpdate(ShaInit, KeyBlock("36", k)),
         o_sha |-> ShaUpdate(ShaInit, KeyBlock("5c", k))]

HmacNext(c, msg) == [c EXCEPT !.i_sha = ShaUpdate(@, msg)]

\* HmacSha512::end: no more than a hash is copied.
HmacEnd(c, mac_size) ==
    LET i_hash == ShaGet(ShaFini(c.i_sha), HASH_SIZE)
        o_hash == ShaGet(ShaFini(ShaUpdate(c.o_sha, i_hash)), HASH_SIZE)
    IN  SubSeq(o_hash, 1, IF mac_size > HASH_SIZE THEN HASH_SIZE ELSE mac_size)

Hmac(key, msg, mac_size) == HmacEnd(HmacNext(HmacStart(key), msg), mac_size)

\* HkdfSha512, for outputs of at most a hash.
Hkdf(salt, ikm, info, okm_len) ==
    LET prk == Hmac(salt, ikm, HASH_SIZE)
        t1 == HmacNext(HmacNext(HmacStart(prk), info), <<<<"01">>>>)
    IN  HmacEnd(t1, okm_len)
=============================================================================
