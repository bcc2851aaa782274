----------------------------- MODULE Curve25519 -----------------------------
(***************************************************************************)
(* The key agreement of pair verification (src/Crypto/Curve25519.cpp).     *)
(*                                                                         *)
(* A field element is a sequence of LIMBS bytes, the lowest first, the     *)
(* last one of them not carried; only freeze brings it below the prime.    *)
(* The code has 32 bytes and the prime 2^255 - 19, here the prime is       *)
(* 2^(8 * LIMBS - 1) - GAP.  A point is <<x, z>>, for the coordinate x/z.  *)
(***************************************************************************)
EXTENDS Integers, Sequences, SequencesExt

CONSTANTS LIMBS,     \* 32 in the code
          GAP,       \* 19
          CURVE      \* 121665: the curve is y^2 = x^3 + (4 * CURVE + 2) x^2 + x

Byte == 256
FieldBits == 8 * LIMBS - 1
FieldPrime == 2 ^ FieldBits - GAP

ASSUME CurveAssumption ==
    /\ LIMBS \in Nat /\ LIMBS % 2 = 0 /\ LIMBS > 0
    /\ GAP \in Nat /\ 2 * GAP < Byte /\ CURVE \in Nat

FeZero == [j \in 1 .. LIMBS |-> 0]
FeOne == [FeZero EXCEPT ![1] = 1]
FeValue(a) == FoldRight(LAMBDA limb, v : limb + Byte * v, a, 0)
FeOf(n) == [j \in 1 .. LIMBS |-> (n \div Byte ^ (j - 1)) % Byte]

\* The loop that add, sub, squeeze and mult121665 share: every limb but the
\* last keeps its byte and carries the rest.
FeCarry(first, limbs) ==
    LET low[j \in 0 .. LIMBS - 1] ==
            IF j = 0 THEN [d |-> <<>>, u |-> first]
            ELSE LET below == low[j - 1]
                     u == below.u + limbs[j]
                 IN  [d |-> Append(below.d, u % Byte), u |-> u \div Byte]
        top(s) == Append(s.d, s.u + limbs[LIMBS])
    IN  top(low[LIMBS - 1])

FeAdd(a, b) == FeCarry(0, [j \in 1 .. LIMBS |-> a[j] + b[j]])

\* The fault: the lowest limb is not given the rest of twice the prime.
FeSub_NoBias(a, b) ==
    FeCarry(0, [j \in 1 .. LIMBS |-> a[j] - b[j] + (IF j < LIMBS THEN (Byte - 1) * Byte ELSE 0)])

\* Twice the prime is added, in a form that no limb becomes negative with.
FeSub(a, b) ==
    FeCarry(Byte - 2 * GAP,
            [j \in 1 .. LIMBS |-> a[j] - b[j] + (IF j < LIMBS THEN (Byte - 1) * Byte ELSE 0)])

\* What is above the field's bits comes back times the gap.
FeSqueeze(a) ==
    LET fold(s) == FeCarry(GAP * (s[LIMBS] \div (Byte \div 2)),
                           [s EXCEPT ![LIMBS] = @ % (Byte \div 2)])
    IN  fold(FeCarry(0, a))

\* The difference to the prime shows by the sign which one to keep.
FeFreeze(a) ==
    LET minusp == [FeZero EXCEPT ![1] = GAP, ![LIMBS] = Byte \div 2]
        less(s) == (s[LIMBS] \div (Byte \div 2)) % 2 = 1
        chosen(s) == IF less(s) THEN a ELSE s
    IN  chosen(FeAdd(a, minusp))

SumTo(n, Term(_)) ==
    LET sum[j \in 0 .. n] == IF j = 0 THEN 0 ELSE sum[j - 1] + Term(j)
    IN  sum[n]

\* A product of limbs i and j is in limb i + j - 1, or wraps.
FeMult(a, b) ==
    LET limb(i) ==
            LET Direct(j) == a[j] * b[i - j + 1]
                Wrap(j) == a[i + j] * b[LIMBS + 1 - j]
            IN  SumTo(i, Direct) + 2 * GAP * SumTo(LIMBS - i, Wrap)
    IN  FeSqueeze([i \in 1 .. LIMBS |-> limb(i)])

\* The pairs of different limbs once, doubled, and the squares: where the
\* index is even, counted from 0 as in the code.
FeSquare(a) ==
    LET half == LIMBS \div 2
        limb(i) ==
            LET Direct(j) == IF j - 1 < i - (j - 1) THEN a[j] * a[i - j + 2] ELSE 0
                Wrap(j) == IF j - 1 > i /\ j - 1 < i + LIMBS - (j - 1)
                           THEN a[j] * a[i + LIMBS - j + 2] ELSE 0
                pairs == 2 * (SumTo(LIMBS, Direct) + 2 * GAP * SumTo(LIMBS, Wrap))
            IN  IF i % 2 = 1 THEN pairs
                ELSE pairs + a[i \div 2 + 1] ^ 2 + 2 * GAP * a[i \div 2 + half + 1] ^ 2
    IN  FeSqueeze([i \in 1 .. LIMBS |-> limb(i - 1)])

FeMultCurve(a) == FeSqueeze([j \in 1 .. LIMBS |-> CURVE * a[j]])

\* One round of mainloop on the two points that select has ordered, and the
\* base coordinate: their double and their sum.
Round(p, q, base) ==
    LET sumDiff(r) == <<FeAdd(r[1], r[2]), FeSub(r[1], r[2])>>
        double(b0, s) == <<FeMult(b0[1], b0[2]), FeMult(s, FeAdd(FeMultCurve(s), b0[1]))>>
        doubled(b0) == double(b0, FeSub(b0[1], b0[2]))
        added(c1) == <<FeSquare(c1[1]), FeMult(FeSquare(c1[2]), base)>>
        both(a0, a1) == <<doubled(<<FeSquare(a0[1]), FeSquare(a0[2])>>),
                          added(sumDiff(<<FeMult(a1[1], a0[2]), FeMult(a1[2], a0[1])>>))>>
    IN  both(sumDiff(p), sumDiff(q))

\* select: both points, exchanged when the bit is set.
Select(points, bit) == IF bit = 1 THEN <<points[2], points[1]>> ELSE points

\* recip: the exponent its chain of squares and products computes, as the
\* set of its bits: squares move them, and a product of powers without a
\* common bit unites them.
RecipExponent ==
    LET Squares(a, n) == {i + n : i \in a}
        Mult(a, b) == IF a \cap b = {} THEN a \cup b ELSE {-1}
        Doubled(a, n) == Mult(Squares(a, n), a)
        z == {0}
        z2 == Squares(z, 1)
        z9 == Mult(Squares(z2, 2), z)
        z11 == Mult(z9, z2)
        z2_5_0 == Mult(Squares(z11, 1), z9)
        z2_10_0 == Doubled(z2_5_0, 5)
        z2_20_0 == Doubled(z2_10_0, 10)
        z2_40_0 == Doubled(z2_20_0, 20)
        z2_50_0 == Mult(Squares(z2_40_0, 10), z2_10_0)
        z2_100_0 == Doubled(z2_50_0, 50)
        z2_200_0 == Doubled(z2_100_0, 100)
        z2_250_0 == Mult(Squares(z2_200_0, 50), z2_50_0)
    IN  Mult(Squares(z2_250_0, 5), z11)

\* The private key: a multiple of 8 with the highest bit of the field.
Clamp(n) == ((n % 2 ^ (FieldBits - 1)) \div 8) * 8 + 2 ^ (FieldBits - 1)

\* curve25519, one bit at a time from the highest: mainloop begins with the
\* point at infinity and the base; sharedSecret has the other side's key for
\* the base, init the coordinate 9.
Basepoint == 9
CurveStart(n, p) ==
    [e |-> Clamp(n), base |-> FeOf(p), points |-> <<<<FeOne, FeZero>>, <<FeOf(p), FeOne>>>>,
     inverse |-> FeOne, left |-> FieldBits, phase |-> "mainloop"]

BitOf(n, i) == (n \div 2 ^ i) % 2

LoopRound(c) ==
    LET bit == BitOf(c.e, c.left - 1)
        round(s) == Select(Round(s[1], s[2], c.base), bit)
    IN  [c EXCEPT !.points = round(Select(@, bit)), !.left = @ - 1]

\* The chain of recip belongs to the prime of the code; in a smaller field
\* the power p - 2 of its own prime is computed, with the same operations.
RecipRound(c) ==
    [c EXCEPT !.inverse = IF BitOf(FieldPrime - 2, c.left - 1) = 1
                          THEN FeMult(FeSquare(@), c.points[1][2]) ELSE FeSquare(@),
              !.left = @ - 1]

CurveRound(c) ==
    IF c.left = 0 THEN [c EXCEPT !.phase = "recip", !.left = FieldBits]
    ELSE IF c.phase = "mainloop" THEN LoopRound(c) ELSE RecipRound(c)

\* The quotient x / z, in bytes.
CurveDone(c) == c.phase = "recip" /\ c.left = 0
CurveSecret(c) ==
    FeValue([j \in 1 .. LIMBS |-> FeFreeze(FeMult(c.points[1][1], c.inverse))[j] % Byte])
=============================================================================
