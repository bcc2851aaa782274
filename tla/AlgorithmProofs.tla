-------------------------- MODULE AlgorithmProofs --------------------------
(***************************************************************************)
(* Proofs about the algorithms, for buffers, blocks and texts of any size: *)
(* a frame opens as what was locked in it, a hash is the same in whatever  *)
(* pieces its text comes, and what is written into a pairing message is    *)
(* read back from it.                                                      *)
(***************************************************************************)
EXTENDS Poly1305, HashStream, TlvMessage, SequenceTheorems,
        FiniteSetTheorems, WellFoundedInduction, TLAPS

(* The blocks of the authenticator, src/Crypto/Poly1305.cpp, of any size.  *)

(* A length is its full blocks and a rest that is shorter than a block.    *)
LEMMA Divides == \A n \in Nat, t \in Nat \ {0} :
  n = t * (n \div t) + (n % t) /\ n % t \in 0 .. t - 1 /\ n \div t \in Nat
OBVIOUS

(* And what is so composed is divided so.                                  *)
LEMMA Divided ==
  ASSUME NEW n, NEW k \in Nat, NEW t \in Nat \ {0}, NEW r \in Nat, r < t, n = t * k + r
  PROVE  n \div t = k /\ n % t = r
OBVIOUS

(* Fewer blocks are no longer.                                             *)
LEMMA Within == \A i \in Nat, k \in Nat, t \in Nat : i <= k => t * i <= t * k
OBVIOUS

(* Full is the length of the full blocks.                                  *)
LEMMA FullIs ==
  ASSUME NEW S, NEW bytes \in Seq(S)
  PROVE  /\ Full(bytes) \in Nat /\ Full(bytes) = TAG_SIZE * (Len(bytes) \div TAG_SIZE)
         /\ Full(bytes) <= Len(bytes) /\ Len(bytes) < Full(bytes) + TAG_SIZE
         /\ Len(bytes) \div TAG_SIZE \in Nat
<1> DEFINE n == Len(bytes)
<1>1. n \in Nat /\ TAG_SIZE \in Nat \ {0}
  BY SizesAssumption
<1>2. n = TAG_SIZE * (n \div TAG_SIZE) + (n % TAG_SIZE) /\ n % TAG_SIZE \in 0 .. TAG_SIZE - 1
      /\ n \div TAG_SIZE \in Nat
  BY <1>1, Divides
<1>3. Full(bytes) = n - (n % TAG_SIZE)
  BY DEF Full
<1> DEFINE p == TAG_SIZE * (n \div TAG_SIZE)
<1>4. p \in Nat
  BY <1>1, <1>2
<1> HIDE DEF n
<1>5. Full(bytes) = p
  <2> HIDE DEF p
  <2>1. n = p + (n % TAG_SIZE)
    BY <1>2 DEF p
  <2> QED
    BY <1>1, <1>2, <1>3, <1>4, <2>1
<1> HIDE DEF p
<1>6. n = p + (n % TAG_SIZE)
  BY <1>2 DEF p
<1>7. p <= n /\ n < p + TAG_SIZE
  BY <1>1, <1>2, <1>4, <1>6
<1> QED
  BY <1>2, <1>4, <1>5, <1>7 DEF n, p

(* Parts of two texts, one behind the other.                               *)
LEMMA PartBefore ==
  ASSUME NEW S, NEW x \in Seq(S), NEW y \in Seq(S), NEW i \in Nat, i > 0, NEW j \in Nat, j <= Len(x)
  PROVE  SubSeq(x \o y, i, j) = SubSeq(x, i, j)
<1>1. /\ x \o y \in Seq(S) /\ Len(x \o y) = Len(x) + Len(y)
      /\ \A k \in 1 .. Len(x) + Len(y) : (x \o y)[k] = IF k <= Len(x) THEN x[k] ELSE y[k - Len(x)]
  BY ConcatProperties
<1>2. CASE i > j
  <2>1. SubSeq(x \o y, i, j) = <<>> /\ SubSeq(x, i, j) = <<>>
    BY <1>1, <1>2, EmptySeq
  <2> QED
    BY <2>1
<1>3. CASE i <= j
  <2>1. /\ i \in 1 .. j + 1 /\ j \in 0 .. Len(x) /\ j \in 0 .. Len(x \o y)
    BY <1>1, <1>3
  <2>2. SubSeq(x \o y, i, j) = [k \in 1 .. j - i + 1 |-> (x \o y)[i + k - 1]]
    BY <1>1
  <2>3. SubSeq(x, i, j) = [k \in 1 .. j - i + 1 |-> x[i + k - 1]]
    OBVIOUS
  <2>4. ASSUME NEW k \in 1 .. j - i + 1 PROVE (x \o y)[i + k - 1] = x[i + k - 1]
    BY <1>1, <1>3
  <2> QED
    BY <2>2, <2>3, <2>4
<1> QED
  BY <1>2, <1>3

(* A part of the second text.                                              *)
LEMMA PartBehind ==
  ASSUME NEW S, NEW x \in Seq(S), NEW y \in Seq(S), NEW i \in Nat, i > 0, NEW j \in Nat, j <= Len(y)
  PROVE  SubSeq(x \o y, Len(x) + i, Len(x) + j) = SubSeq(y, i, j)
<1> DEFINE n == Len(x)
<1>1. /\ x \o y \in Seq(S) /\ Len(x \o y) = n + Len(y) /\ n \in Nat /\ Len(y) \in Nat
      /\ \A k \in 1 .. n + Len(y) : (x \o y)[k] = IF k <= n THEN x[k] ELSE y[k - n]
  BY ConcatProperties
<1> HIDE DEF n
<1>2. SubSeq(x \o y, n + i, n + j) = [k \in 1 .. (n + j) - (n + i) + 1 |-> (x \o y)[(n + i) + k - 1]]
  BY <1>1
<1>3. SubSeq(y, i, j) = [k \in 1 .. j - i + 1 |-> y[i + k - 1]]
  OBVIOUS
<1>4. (n + j) - (n + i) + 1 = j - i + 1
  BY <1>1
<1>5. ASSUME NEW k \in 1 .. j - i + 1 PROVE (x \o y)[(n + i) + k - 1] = y[i + k - 1]
  <2>1. (n + i) + k - 1 \in 1 .. n + Len(y) /\ ~((n + i) + k - 1 <= n)
        /\ ((n + i) + k - 1) - n = i + k - 1
    BY <1>1
  <2> QED
    BY <1>1, <2>1
<1>6. SubSeq(x \o y, n + i, n + j) = SubSeq(y, i, j)
  BY <1>2, <1>3, <1>4, <1>5
<1> QED
  BY <1>6 DEF n

(* The first text with a part of the second.                               *)
LEMMA PartAcross ==
  ASSUME NEW S, NEW x \in Seq(S), NEW y \in Seq(S), NEW j \in Nat, j <= Len(y)
  PROVE  SubSeq(x \o y, 1, Len(x) + j) = x \o SubSeq(y, 1, j)
<1> DEFINE n == Len(x)
           first == SubSeq(y, 1, j)
<1>1. /\ x \o y \in Seq(S) /\ Len(x \o y) = n + Len(y) /\ n \in Nat /\ Len(y) \in Nat
      /\ \A k \in 1 .. n + Len(y) : (x \o y)[k] = IF k <= n THEN x[k] ELSE y[k - n]
  BY ConcatProperties
<1>2. first \in Seq(S) /\ Len(first) = j /\ \A k \in 1 .. j : first[k] = y[k]
  <2>1. first = [k \in 1 .. j |-> y[k]]
    OBVIOUS
  <2> HIDE DEF first
  <2> QED
    BY <2>1
<1> HIDE DEF first
<1>3. /\ x \o first \in Seq(S) /\ Len(x \o first) = n + j
      /\ \A k \in 1 .. n + j : (x \o first)[k] = IF k <= n THEN x[k] ELSE first[k - n]
  BY <1>2, ConcatProperties
<1> HIDE DEF n
<1>4. SubSeq(x \o y, 1, n + j) = [k \in 1 .. n + j |-> (x \o y)[k]]
  <2>1. SubSeq(x \o y, 1, n + j) = [k \in 1 .. (n + j) - 1 + 1 |-> (x \o y)[1 + k - 1]]
    BY <1>1
  <2>2. (n + j) - 1 + 1 = n + j /\ \A k \in 1 .. n + j : 1 + k - 1 = k
    BY <1>1
  <2> QED
    BY <2>1, <2>2
<1>5. ASSUME NEW k \in 1 .. n + j PROVE (x \o y)[k] = (x \o first)[k]
  <2>1. k \in 1 .. n + Len(y) /\ (k <= n \/ k - n \in 1 .. j)
    BY <1>1
  <2> QED
    BY <1>1, <1>2, <1>3, <2>1
<1>6. x \o first = [k \in 1 .. n + j |-> (x \o first)[k]]
  <2> DEFINE both == x \o first
  <2>1. both \in Seq(S) /\ Len(both) = n + j
    BY <1>3
  <2> HIDE DEF both
  <2>2. both = [k \in 1 .. n + j |-> both[k]]
    BY <2>1
  <2> QED
    BY <2>2 DEF both
<1>7. SubSeq(x \o y, 1, n + j) = x \o first
  BY <1>4, <1>5, <1>6
<1> QED
  BY <1>7 DEF n, first

(* Two texts, the first of full blocks: their blocks and their rest.       *)
LEMMA SplitOfTwo ==
  ASSUME NEW S, NEW x \in Seq(S), NEW y \in Seq(S), NEW k \in Nat, Len(x) = TAG_SIZE * k
  PROVE  /\ Split(x \o y) = Split(x) \o Split(y)
         /\ Full(x \o y) = Len(x) + Full(y)
         /\ Len(Split(x)) = k /\ Split(x) \in Seq(Seq(S)) /\ Full(x) = Len(x)
<1> DEFINE t == TAG_SIZE
           q == Len(y) \div t
           r == Len(y) % t
           z == x \o y
<1>1. t \in Nat \ {0}
  BY SizesAssumption
<1>2. /\ Len(y) = t * q + r /\ r \in Nat /\ r < t /\ q \in Nat
  <2> DEFINE l == Len(y)
  <2>1. l \in Nat
    OBVIOUS
  <2> HIDE DEF l
  <2>2. l = t * (l \div t) + (l % t) /\ l % t \in 0 .. t - 1 /\ l \div t \in Nat
    <3> HIDE DEF t
    <3> QED
      BY <1>1, <2>1, Divides
  <2>3. l % t \in Nat /\ l % t < t
    BY <1>1, <2>2
  <2> QED
    BY <2>2, <2>3 DEF l
<1>3. /\ z \in Seq(S) /\ Len(z) = Len(x) + Len(y)
  BY ConcatProperties
<1>4. Split(x) = [i \in 1 .. Len(x) \div t |-> SubSeq(x, (i - 1) * t + 1, i * t)]
      /\ Split(y) = [i \in 1 .. q |-> SubSeq(y, (i - 1) * t + 1, i * t)]
      /\ Split(z) = [i \in 1 .. Len(z) \div t |-> SubSeq(z, (i - 1) * t + 1, i * t)]
  BY DEF Split
<1>5. Full(x) = Len(x) - (Len(x) % t) /\ Full(y) = Len(y) - r /\ Full(z) = Len(z) - (Len(z) % t)
  BY DEF Full
<1>6. Len(x) = t * k
  OBVIOUS
<1> HIDE DEF t, q, r, z
<1>7. Len(x) \div t = k /\ Len(x) % t = 0
  <2> DEFINE zero == 0
  <2>1. Len(x) = t * k + zero /\ zero \in Nat /\ zero < t
    BY <1>1, <1>6
  <2> HIDE DEF zero
  <2>2. Len(x) \div t = k /\ Len(x) % t = zero
    BY <1>1, <2>1, Divided
  <2> QED
    BY <2>2 DEF zero
<1>8. Len(z) = t * (k + q) + r
  <2>1. t * (k + q) = t * k + t * q
    BY <1>1, <1>2
  <2> QED
    BY <1>1, <1>2, <1>3, <1>6, <2>1
<1>9. Len(z) \div t = k + q /\ Len(z) % t = r
  <2> DEFINE sum == k + q
  <2>1. sum \in Nat /\ Len(z) = t * sum + r
    BY <1>2, <1>8
  <2> HIDE DEF sum
  <2>2. Len(z) \div t = sum /\ Len(z) % t = r
    BY <1>1, <1>2, <2>1, Divided
  <2> QED
    BY <2>2 DEF sum
<1>10. Full(z) = Len(x) + Full(y)
  BY <1>1, <1>2, <1>3, <1>5, <1>6, <1>9
<1>11. ASSUME NEW i \in 1 .. k
       PROVE  SubSeq(z, (i - 1) * t + 1, i * t) = SubSeq(x, (i - 1) * t + 1, i * t)
  <2>1. (i - 1) * t + 1 \in Nat /\ (i - 1) * t + 1 > 0 /\ i * t \in Nat
    <3>1. i - 1 \in Nat /\ i \in Nat
      OBVIOUS
    <3>2. (i - 1) * t \in Nat /\ i * t \in Nat
      BY <1>1, <3>1
    <3> QED
      BY <3>2
  <2>2. i * t <= Len(x)
    <3>1. t * i <= t * k /\ t * i = i * t
      BY <1>1, Within
    <3> QED
      BY <1>6, <3>1
  <2> DEFINE from == (i - 1) * t + 1
             to == i * t
  <2>3. from \in Nat /\ from > 0 /\ to \in Nat /\ to <= Len(x)
    BY <2>1, <2>2
  <2> HIDE DEF from, to
  <2>4. SubSeq(z, from, to) = SubSeq(x, from, to)
    BY <2>3, PartBefore DEF z
  <2> QED
    BY <2>4 DEF from, to
<1>12. ASSUME NEW j \in 1 .. q
       PROVE  SubSeq(z, ((k + j) - 1) * t + 1, (k + j) * t) = SubSeq(y, (j - 1) * t + 1, j * t)
  <2> DEFINE from == (j - 1) * t + 1
             to == j * t
  <2>1. from \in Nat /\ from > 0 /\ to \in Nat
    <3>1. j - 1 \in Nat /\ j \in Nat
      BY <1>2
    <3>2. (j - 1) * t \in Nat /\ j * t \in Nat
      BY <1>1, <3>1
    <3> QED
      BY <3>2
  <2>2. to <= Len(y)
    <3>1. t * j <= t * q /\ t * j = j * t
      BY <1>1, <1>2, Within
    <3>2. t * q \in Nat
      BY <1>1, <1>2
    <3> QED
      BY <1>2, <2>1, <3>1, <3>2
  <2>3. ((k + j) - 1) * t + 1 = Len(x) + from /\ (k + j) * t = Len(x) + to
    <3>1. ((k + j) - 1) * t = t * k + (j - 1) * t /\ (k + j) * t = t * k + j * t
      BY <1>1, <1>2
    <3> DEFINE a == ((k + j) - 1) * t
               b == t * k
               c == (j - 1) * t
    <3>2. a = b + c /\ a \in Int /\ b \in Int /\ c \in Int
      BY <1>1, <1>2, <3>1
    <3> HIDE DEF a, b, c
    <3>3. a + 1 = b + (c + 1)
      BY <3>2
    <3> QED
      BY <1>6, <3>1, <3>3 DEF a, b, c
  <2> HIDE DEF from, to
  <2>4. SubSeq(z, Len(x) + from, Len(x) + to) = SubSeq(y, from, to)
    BY <2>1, <2>2, PartBehind DEF z
  <2> QED
    BY <2>3, <2>4 DEF from, to
<1>13. Split(x) \in Seq(Seq(S)) /\ Len(Split(x)) = k
  <2> DEFINE part(i) == SubSeq(x, (i - 1) * t + 1, i * t)
  <2>1. ASSUME NEW i \in 1 .. k PROVE part(i) \in Seq(S)
    <3> DEFINE from == (i - 1) * t + 1
               to == i * t
    <3>1. i - 1 \in Nat /\ i \in Nat
      OBVIOUS
    <3>2. (i - 1) * t \in Nat /\ i * t \in Nat
      BY <1>1, <3>1
    <3>3. t * i <= t * k /\ t * i = i * t
      BY <1>1, Within
    <3>4. from \in Nat /\ from > 0 /\ to \in Nat /\ to <= Len(x)
      BY <1>6, <3>2, <3>3
    <3> HIDE DEF from, to
    <3>5. from \in Int /\ to \in Int /\ \A e \in from .. to : x[e] \in S
      BY <3>4
    <3>6. SubSeq(x, from, to) \in Seq(S)
      BY <3>5, SubSeqProperties
    <3> QED
      BY <3>6 DEF from, to
  <2>2. Split(x) = [i \in 1 .. k |-> part(i)]
    BY <1>4, <1>7
  <2> HIDE DEF part
  <2> QED
    BY <2>1, <2>2
<1>14. Split(z) = Split(x) \o Split(y)
  <2> DEFINE whole(i) == SubSeq(z, (i - 1) * t + 1, i * t)
             left(i) == SubSeq(x, (i - 1) * t + 1, i * t)
             right(i) == SubSeq(y, (i - 1) * t + 1, i * t)
  <2>1. /\ Split(z) = [i \in 1 .. k + q |-> whole(i)]
        /\ Split(x) = [i \in 1 .. k |-> left(i)]
        /\ Split(y) = [i \in 1 .. q |-> right(i)]
    BY <1>4, <1>7, <1>9
  <2>2. \A i \in 1 .. k : whole(i) = left(i)
    BY <1>11
  <2>3. \A j \in 1 .. q : whole(k + j) = right(j)
    BY <1>12
  <2> HIDE DEF whole, left, right
  <2>4. Split(x) \o Split(y) = [i \in 1 .. k + q |-> IF i <= k THEN left(i) ELSE right(i - k)]
    <3>1. Len(Split(x)) = k /\ Len(Split(y)) = q
      BY <1>2, <2>1
    <3>2. Split(x) \o Split(y) = [i \in 1 .. k + q |-> IF i <= k THEN Split(x)[i] ELSE Split(y)[i - k]]
      BY <1>2, <2>1, <3>1
    <3>3. ASSUME NEW i \in 1 .. k + q
          PROVE  (IF i <= k THEN Split(x)[i] ELSE Split(y)[i - k]) = IF i <= k THEN left(i) ELSE right(i - k)
      <4>1. i <= k => i \in 1 .. k
        OBVIOUS
      <4>2. ~(i <= k) => i - k \in 1 .. q
        BY <1>2
      <4> QED
        BY <2>1, <4>1, <4>2
    <3> QED
      BY <3>2, <3>3
  <2>5. ASSUME NEW i \in 1 .. k + q PROVE whole(i) = IF i <= k THEN left(i) ELSE right(i - k)
    <3>1. CASE i <= k
      BY <2>2, <3>1
    <3>2. CASE i > k
      <4>1. i - k \in 1 .. q /\ k + (i - k) = i /\ ~(i <= k)
        BY <1>2, <3>2
      <4> QED
        BY <2>3, <4>1
    <3> QED
      BY <1>2, <3>1, <3>2
  <2> QED
    BY <2>1, <2>4, <2>5
<1>15. Full(x) = Len(x)
  BY <1>1, <1>5, <1>6, <1>7
<1> QED
  BY <1>10, <1>13, <1>14, <1>15 DEF z

(* A text cut in two.                                                      *)
LEMMA CutInTwo ==
  ASSUME NEW S, NEW s \in Seq(S), NEW i \in Nat, i <= Len(s)
  PROVE  /\ s = SubSeq(s, 1, i) \o SubSeq(s, i + 1, Len(s))
         /\ SubSeq(s, 1, i) \in Seq(S) /\ Len(SubSeq(s, 1, i)) = i
         /\ SubSeq(s, i + 1, Len(s)) \in Seq(S) /\ Len(SubSeq(s, i + 1, Len(s))) = Len(s) - i
<1> DEFINE n == Len(s)
           left == SubSeq(s, 1, i)
           right == SubSeq(s, i + 1, n)
<1>1. n \in Nat /\ \A k \in 1 .. n : s[k] \in S
  OBVIOUS
<1>2. left \in Seq(S) /\ Len(left) = i
  <2>1. left = [k \in 1 .. i |-> s[k]]
    OBVIOUS
  <2> HIDE DEF left, n
  <2> QED
    BY <1>1, <2>1 DEF n
<1>3. right \in Seq(S) /\ Len(right) = n - i
  <2>1. right = [k \in 1 .. n - (i + 1) + 1 |-> s[(i + 1) + k - 1]]
    OBVIOUS
  <2>2. n - (i + 1) + 1 = n - i /\ \A k \in 1 .. n - i : (i + 1) + k - 1 \in 1 .. n
    BY <1>1
  <2>3. n - i \in Nat
    BY <1>1 DEF n
  <2> HIDE DEF right, n
  <2> QED
    BY <1>1, <2>1, <2>2, <2>3
<1>4. left \o right = s
  <2>1. SubSeq(s, 1, n) = s
    BY SubSeqFull
  <2>2. 1 \in 1 .. Len(s) + 1 /\ i \in 1 - 1 .. Len(s) /\ n \in i .. Len(s)
    BY <1>1
  <2>3. left \o right = SubSeq(s, 1, n)
    BY <2>2, ConcatAdjacentSubSeq
  <2> QED
    BY <2>1, <2>3
<1> QED
  BY <1>2, <1>3, <1>4

(* The state after a text that came at once.                               *)
Gathered(s) == [done |-> Split(SubSeq(s, 1, Full(s))), buffer |-> SubSeq(s, Full(s) + 1, Len(s))]

(* It is what Poly1305::update makes of it.                                *)
LEMMA GatheredIs ==
  ASSUME NEW S, NEW s \in Seq(S)
  PROVE  Gather(GatherInit, s) = Gathered(s)
<1> DEFINE x == SubSeq(s, 1, Full(s))
           k == Len(s) \div TAG_SIZE
<1>1. Full(s) \in Nat /\ Full(s) <= Len(s) /\ Full(s) = TAG_SIZE * k /\ k \in Nat
  BY FullIs
<1>2. x \in Seq(S) /\ Len(x) = TAG_SIZE * k
  BY <1>1, CutInTwo
<1>3. Split(x) \in Seq(Seq(S))
  <2> HIDE DEF x, k
  <2>1. <<>> \in Seq(S)
    OBVIOUS
  <2> QED
    BY <1>1, <1>2, <2>1, SplitOfTwo
<1>4. <<>> \o Split(x) = Split(x)
  <2> HIDE DEF x
  <2> QED
    BY <1>3, ConcatEmptySeq
<1> QED
  BY <1>4 DEF Gather, GatherInit, Gathered

(* The blocks of a text behind full blocks are counted from there.         *)
LEMMA BlocksBehind ==
  ASSUME NEW S, NEW x \in Seq(S), NEW y \in Seq(S), NEW k \in Nat, Len(x) = TAG_SIZE * k
  PROVE  Gathered(x \o y) = [done |-> Split(x) \o Split(SubSeq(y, 1, Full(y))),
                             buffer |-> SubSeq(y, Full(y) + 1, Len(y))]
<1> DEFINE f == Full(y)
           first == SubSeq(y, 1, f)
<1>1. f \in Nat /\ f <= Len(y)
  BY FullIs
<1>2. first \in Seq(S)
  BY <1>1, CutInTwo
<1>3. Full(x \o y) = Len(x) + f
  <2>1. Split(x \o y) = Split(x) \o Split(y) /\ Full(x \o y) = Len(x) + Full(y)
    <3> HIDE DEF f, first
    <3> QED
      BY SplitOfTwo
  <2> QED
    BY <2>1
<1>4. Len(x \o y) = Len(x) + Len(y)
  BY ConcatProperties
<1> HIDE DEF f
<1>5. SubSeq(x \o y, 1, Len(x) + f) = x \o first
  BY <1>1, PartAcross
<1> HIDE DEF first
<1>6. Split(x \o first) = Split(x) \o Split(first)
  BY <1>2, SplitOfTwo
<1>7. SubSeq(x \o y, (Len(x) + f) + 1, Len(x) + Len(y)) = SubSeq(y, f + 1, Len(y))
  <2> DEFINE from == f + 1
             to == Len(y)
  <2>1. from \in Nat /\ from > 0 /\ to \in Nat /\ to <= Len(y) /\ (Len(x) + f) + 1 = Len(x) + from
    BY <1>1
  <2> HIDE DEF from
  <2>2. SubSeq(x \o y, Len(x) + from, Len(x) + to) = SubSeq(y, from, to)
    <3> HIDE DEF to
    <3> QED
      BY <2>1, PartBehind
  <2> QED
    BY <2>1, <2>2 DEF from
<1>8. Gathered(x \o y) = [done |-> Split(x) \o Split(first), buffer |-> SubSeq(y, f + 1, Len(y))]
  BY <1>3, <1>4, <1>5, <1>6, <1>7 DEF Gathered
<1> QED
  BY <1>8 DEF f, first

(* Poly1305::update takes a piece, after any text in any pieces, as if text*)
(* and piece had come at once: same blocks, same rest, for any size of a   *)
(* block.  So the tag depends on the message only, never on how it was cut *)
(* (src/Crypto/Poly1305.cpp).                                              *)
THEOREM PiecesDoNotMatter ==
  ASSUME NEW S, NEW a \in Seq(S), NEW b \in Seq(S)
  PROVE  Gather(Gather(GatherInit, a), b) = Gather(GatherInit, a \o b)
<1> DEFINE t == TAG_SIZE
           k == Len(a) \div t
           x == SubSeq(a, 1, Full(a))
           u == SubSeq(a, Full(a) + 1, Len(a))
           c == Gathered(a)
<1>1. t \in Nat \ {0}
  BY SizesAssumption
<1>2. Full(a) \in Nat /\ Full(a) = t * k /\ Full(a) <= Len(a) /\ Len(a) < Full(a) + t /\ k \in Nat
  BY FullIs
<1>3. /\ a = x \o u /\ x \in Seq(S) /\ Len(x) = t * k
      /\ u \in Seq(S) /\ Len(u) < t
  <2>1. /\ a = x \o u /\ x \in Seq(S) /\ Len(x) = Full(a)
        /\ u \in Seq(S) /\ Len(u) = Len(a) - Full(a)
    BY <1>2, CutInTwo
  <2> QED
    BY <1>1, <1>2, <2>1
<1>4. c.done = Split(x) /\ c.buffer = u /\ c = [done |-> Split(x), buffer |-> u]
  BY DEF Gathered
<1>5. Gather(GatherInit, a) = c
  BY GatheredIs
<1>6. Gather(GatherInit, a \o b) = Gathered(a \o b)
  BY GatheredIs, ConcatProperties
<1> HIDE DEF c, k, x, u
<1>7. Len(x) = TAG_SIZE * k /\ k \in Nat
  BY <1>2, <1>3
<1>8. Split(x) \in Seq(Seq(S)) /\ Len(u) \in Nat /\ Len(b) \in Nat
  <2>1. <<>> \in Seq(S)
    OBVIOUS
  <2> QED
    BY <1>3, <1>7, <2>1, SplitOfTwo
<1>9. CASE u = <<>>
  <2>1. a = x
    BY <1>3, <1>9, ConcatEmptySeq
  <2>2. Gather(c, b) = [done |-> Split(x) \o Split(SubSeq(b, 1, Full(b))),
                        buffer |-> SubSeq(b, Full(b) + 1, Len(b))]
    BY <1>4, <1>9 DEF Gather
  <2>3. Gathered(x \o b) = [done |-> Split(x) \o Split(SubSeq(b, 1, Full(b))),
                            buffer |-> SubSeq(b, Full(b) + 1, Len(b))]
    BY <1>3, <1>7, BlocksBehind
  <2> QED
    BY <1>5, <1>6, <2>1, <2>2, <2>3
<1>10. CASE u # <<>> /\ TAG_SIZE - Len(u) > Len(b)
  <2> DEFINE y == u \o b
  <2>1. y \in Seq(S) /\ Len(y) = Len(u) + Len(b)
    BY <1>3, ConcatProperties
  <2>2. SubSeq(b, 1, Len(b)) = b
    BY SubSeqFull
  <2>3. Len(y) < TAG_SIZE
    BY <1>1, <1>8, <1>10, <2>1
  <2>4. Gather(c, b) = [c EXCEPT !.buffer = y]
    BY <1>4, <1>10, <2>2, <2>3 DEF Gather
  <2>5. Gather(c, b) = [done |-> Split(x), buffer |-> y]
    BY <1>4, <2>4
  <2> HIDE DEF y
  <2>6. Full(y) = 0
    <3> DEFINE zero == 0
               n == Len(y)
    <3>1. zero \in Nat /\ n \in Nat /\ n < t /\ n = t * zero + n
      BY <1>1, <2>1, <2>3
    <3> HIDE DEF zero, n, t
    <3>2. n \div t = zero /\ n % t = n
      BY <1>1, <3>1, Divided
    <3> QED
      BY <3>1, <3>2 DEF Full, n, t
  <2>7. SubSeq(y, 1, Full(y)) = <<>> /\ SubSeq(y, Full(y) + 1, Len(y)) = y
    BY <2>1, <2>6, SubSeqFull
  <2>8. Split(<<>>) = <<>>
    <3>1. Len(<<>>) \div TAG_SIZE = 0
      <4> DEFINE zero == 0
      <4>1. zero \in Nat /\ zero < t /\ zero = t * zero + zero
        BY <1>1
      <4> HIDE DEF zero, t
      <4>2. zero \div t = zero
        BY <1>1, <4>1, Divided
      <4> QED
        BY <4>2 DEF zero, t
    <3> QED
      BY <3>1 DEF Split
  <2>9. Gathered(x \o y) = [done |-> Split(x) \o Split(<<>>), buffer |-> y]
    BY <1>3, <1>7, <2>1, <2>7, BlocksBehind
  <2>10. Split(x) \o <<>> = Split(x)
    BY <1>8, ConcatEmptySeq
  <2>11. a \o b = x \o y
    BY <1>3, ConcatAssociative DEF y
  <2> QED
    BY <1>5, <1>6, <2>5, <2>8, <2>9, <2>10, <2>11
<1>11. CASE u # <<>> /\ ~(TAG_SIZE - Len(u) > Len(b))
  <2> DEFINE want == t - Len(u)
             v == SubSeq(b, 1, want)
             w == SubSeq(b, want + 1, Len(b))
             e == u \o v
  <2>1. want \in Nat /\ want <= Len(b) /\ want + Len(u) = t
    BY <1>1, <1>3, <1>8, <1>11
  <2>2. b = v \o w /\ v \in Seq(S) /\ Len(v) = want /\ w \in Seq(S)
    <3> HIDE DEF want
    <3> QED
      BY <2>1, CutInTwo
  <2>3. e \in Seq(S) /\ Len(e) = t
    <3> HIDE DEF v
    <3>1. e \in Seq(S) /\ Len(e) = Len(u) + Len(v)
      BY <1>3, <2>2, ConcatProperties
    <3> QED
      BY <1>8, <2>1, <2>2, <3>1
  <2>4. Gather(c, b) = [done |-> Append(Split(x), e) \o Split(SubSeq(w, 1, Full(w))),
                        buffer |-> SubSeq(w, Full(w) + 1, Len(w))]
    <3>1. c.buffer # <<>> /\ ~(Len(c.buffer \o SubSeq(b, 1, want)) < TAG_SIZE)
      BY <1>1, <1>4, <1>11, <2>3
    <3> QED
      BY <1>4, <1>11, <3>1 DEF Gather
  <2> HIDE DEF want, v, w
  <2>5. Split(e) = <<e>>
    <3>1. Len(e) \div TAG_SIZE = 1
      <4> DEFINE one == 1
                 zero == 0
      <4>1. one \in Nat /\ zero \in Nat /\ zero < t /\ Len(e) = t * one + zero
        BY <1>1, <2>3
      <4> HIDE DEF one, zero, t, e
      <4>2. Len(e) \div t = one
        BY <1>1, <4>1, Divided
      <4> QED
        BY <4>2 DEF one, t
    <3>2. SubSeq(e, (1 - 1) * TAG_SIZE + 1, 1 * TAG_SIZE) = e
      <4>1. (1 - 1) * TAG_SIZE + 1 = 1 /\ 1 * TAG_SIZE = Len(e)
        BY <1>1, <2>3
      <4> HIDE DEF e
      <4> QED
        BY <2>3, <4>1, SubSeqFull
    <3> HIDE DEF e
    <3>3. Split(e) = [i \in 1 .. 1 |-> SubSeq(e, (i - 1) * TAG_SIZE + 1, i * TAG_SIZE)]
      BY <3>1 DEF Split
    <3>4. Split(e) = [i \in 1 .. 1 |-> e]
      BY <3>2, <3>3
    <3> QED
      BY <3>4
  <2> HIDE DEF e
  <2> DEFINE z == x \o e
  <2>6. Split(z) = Append(Split(x), e)
    <3>1. Split(z) = Split(x) \o Split(e)
      BY <1>3, <1>7, <2>3, SplitOfTwo
    <3> QED
      BY <1>8, <2>3, <2>5, <3>1, AppendIsConcat
  <2>7. z \in Seq(S) /\ Len(z) = TAG_SIZE * (k + 1) /\ k + 1 \in Nat
    <3>1. z \in Seq(S) /\ Len(z) = Len(x) + Len(e)
      BY <1>3, <2>3, ConcatProperties
    <3>2. t * k + t = t * (k + 1)
      BY <1>1, <1>7
    <3> QED
      BY <1>3, <1>7, <2>3, <3>1, <3>2
  <2>8. Gathered(z \o w) = [done |-> Split(z) \o Split(SubSeq(w, 1, Full(w))),
                            buffer |-> SubSeq(w, Full(w) + 1, Len(w))]
    <3> HIDE DEF z
    <3> DEFINE next == k + 1
    <3>1. next \in Nat /\ Len(z) = TAG_SIZE * next
      BY <2>7
    <3> HIDE DEF next
    <3> QED
      BY <2>2, <2>7, <3>1, BlocksBehind
  <2>9. a \o b = z \o w
    <3>1. a \o b = (x \o u) \o (v \o w)
      BY <1>3, <2>2
    <3>2. (x \o u) \o (v \o w) = ((x \o u) \o v) \o w
      <4> DEFINE p == x \o u
      <4>1. p \in Seq(S)
        BY <1>3, ConcatProperties
      <4> HIDE DEF p
      <4>2. p \o (v \o w) = (p \o v) \o w
        BY <2>2, <4>1, ConcatAssociative
      <4> QED
        BY <4>2 DEF p
    <3>3. (x \o u) \o v = x \o (u \o v)
      <4>1. x \in Seq(S) /\ u \in Seq(S) /\ v \in Seq(S)
        BY <1>3, <2>2
      <4> QED
        BY <4>1, ConcatAssociative
    <3> QED
      BY <3>1, <3>2, <3>3 DEF e
  <2> QED
    BY <1>5, <1>6, <2>4, <2>6, <2>8, <2>9
<1> QED
  BY <1>9, <1>10, <1>11

-----------------------------------------------------------------------------
(* What locks and opens the frames, src/Crypto/Aead.cpp.                   *)

(* Aead::exec opens what it has locked, with the same tag: for any key,    *)
(* nonce, text and additional data.  (A byte is a set of symbols here.)    *)
THEOREM LockedOpens ==
  ASSUME NEW cipherKey, NEW nonce, NEW S, NEW aad, NEW text \in Seq(SUBSET S)
  PROVE  LET locked == Aead("Encrypt", cipherKey, nonce, text, aad)
             opened == Aead("Decrypt", cipherKey, nonce, locked.out, aad)
         IN  opened.out = text /\ opened.tag = locked.tag
<1> DEFINE cipher == ChachaEncrypt(cipherKey, 1, nonce, text)
           Key(i) == KeyStream(cipherKey, 1 + (i - 1) \div STREAM_SIZE, nonce)[((i - 1) % STREAM_SIZE) + 1]
           locked == Aead("Encrypt", cipherKey, nonce, text, aad)
           opened == Aead("Decrypt", cipherKey, nonce, locked.out, aad)
<1>1. cipher = [i \in 1 .. Len(text) |-> Xor(text[i], Key(i))]
  BY DEF ChachaEncrypt
<1>2. Len(cipher) = Len(text)
  <2> HIDE DEF Key
  <2> QED
    BY <1>1
<1>3. ChachaEncrypt(cipherKey, 1, nonce, cipher) = text
  <2>1. ChachaEncrypt(cipherKey, 1, nonce, cipher) = [i \in 1 .. Len(cipher) |-> Xor(cipher[i], Key(i))]
    BY DEF ChachaEncrypt
  <2> HIDE DEF Key, cipher
  <2>2. \A i \in 1 .. Len(text) : Xor(Xor(text[i], Key(i)), Key(i)) = text[i]
    BY DEF Xor
  <2>3. text = [i \in 1 .. Len(text) |-> text[i]]
    OBVIOUS
  <2> QED
    BY <1>1, <1>2, <2>1, <2>2, <2>3
<1>4. locked.out = cipher /\ opened.out = ChachaEncrypt(cipherKey, 1, nonce, cipher)
  BY DEF Aead
<1>5. locked.tag = <<KeyStream(cipherKey, 0, nonce), GatherEnd(AeadTagged(aad, cipher))>>
  BY DEF Aead
<1>6. opened.tag = <<KeyStream(cipherKey, 0, nonce), GatherEnd(AeadTagged(aad, cipher))>>
  BY DEF Aead
<1> QED
  BY <1>3, <1>4, <1>5, <1>6

-----------------------------------------------------------------------------
(* The hash and the HMAC, src/Crypto/Sha512.cpp, HmacSha512.cpp.           *)

(* A set with zero and all successors of its elements has all numbers.     *)
LEMMA Numbers ==
  ASSUME NEW S, 0 \in S, \A n \in Nat : n \in S => n + 1 \in S
  PROVE  Nat \subseteq S
<1> DEFINE U == Nat \ S
           T == {0 .. i : i \in U}
           R == StrictSubsetOrdering(Nat)
<1> SUFFICES ASSUME U # {} PROVE FALSE
  OBVIOUS
<1>1. T \subseteq FiniteSubsetsOf(Nat) /\ T # {}
  <2>1. ASSUME NEW i \in U PROVE 0 .. i \in FiniteSubsetsOf(Nat)
    <3>1. IsFiniteSet(0 .. i)
      BY FS_Interval
    <3>2. 0 .. i \in SUBSET Nat
      OBVIOUS
    <3> QED BY <3>1, <3>2 DEF FiniteSubsetsOf
  <2>2. \E i : i \in U
    OBVIOUS
  <2> QED BY <2>1, <2>2
<1>2. IsWellFoundedOn(R, FiniteSubsetsOf(Nat))
  BY FS_StrictSubsetOrderingWellFounded
<1> HIDE DEF T, R
<1>3. PICK X \in T : \A Y \in T : ~ (<<Y, X>> \in R)
  BY <1>1, <1>2, WFMin
<1>4. PICK x \in U : X = 0 .. x
  BY <1>3 DEF T
<1>5. x \in Nat /\ x # 0 /\ x - 1 \in Nat /\ x - 1 \in U
  <2>1. x \in Nat /\ x # 0
    OBVIOUS
  <2>2. x - 1 \in Nat /\ (x - 1) + 1 = x
    BY <2>1
  <2>3. x - 1 \notin S
    BY <2>2
  <2> QED BY <2>1, <2>2, <2>3
<1>6. 0 .. (x - 1) \in T
  BY <1>5 DEF T
<1>7. /\ 0 .. (x - 1) \subseteq 0 .. x
      /\ x \in 0 .. x /\ x \notin 0 .. (x - 1)
  BY <1>5
<1>8. <<0 .. (x - 1), X>> \in R
  BY <1>7, <1>4, <1>5 DEF R, StrictSubsetOrdering
<1> QED BY <1>6, <1>8, <1>3

(* The sizes of the buffer.                                                *)
LEMMA Sizes ==
  /\ BLOCK_SIZE \in Nat \ {0} /\ BLOCK_SIZE >= 4 /\ BufferSize = 2 * BLOCK_SIZE
  /\ BufferSize \in Nat \ {0}
  /\ LENGTH_SIZE \in Nat /\ LENGTH_SIZE >= 2 /\ LENGTH_SIZE <= BLOCK_SIZE - 2
  /\ LENGTH_SIZE \div 2 \in Nat /\ LENGTH_SIZE \div 2 < LENGTH_SIZE
  /\ HASH_SIZE \in Nat /\ HASH_SIZE >= 1 /\ HASH_SIZE <= BLOCK_SIZE
  /\ LENGTH_RANGE \in Nat \ {0}
BY Sha512Assumption DEF BufferSize

(* Where a byte stored behind others is: in the buffer, around its end.    *)
Place(at, j) == IF at + j <= BufferSize THEN at + j ELSE at + j - BufferSize

(* A buffer keeps what is left of a text from the beginning of a half on.  *)
Kept(V, m, at, rest) ==
  /\ m \in [1 .. BufferSize -> V] /\ at \in {0, BLOCK_SIZE}
  /\ rest \in Seq(V) /\ Len(rest) < BLOCK_SIZE
  /\ \A j \in 1 .. Len(rest) : m[at + j] = rest[j]

(* Bytes are stored behind what is left, and leave it as it is.            *)
LEMMA StoredBehind ==
  ASSUME NEW V, NEW m, NEW at, NEW rest, Kept(V, m, at, rest), NEW x \in Seq(V),
         Len(rest) + Len(x) <= BufferSize
  PROVE  /\ Stored(m, at + Len(rest), x) \in [1 .. BufferSize -> V]
         /\ \A j \in 1 .. Len(rest) + Len(x) :
               Stored(m, at + Len(rest), x)[Place(at, j)] = (rest \o x)[j]
<1> DEFINE B == BLOCK_SIZE
           D == BufferSize
           r == Len(rest)
           k == Len(x)
           p == at + r
           new == Stored(m, p, x)
           K(i) == ((D + i) - (p + 1)) % D
<1>0. /\ m \in [1 .. BufferSize -> V] /\ at \in {0, B} /\ rest \in Seq(V) /\ r \in Nat /\ k \in Nat
      /\ r < B /\ r + k <= D /\ \A j \in 1 .. r : m[at + j] = rest[j]
  BY DEF Kept
<1>1. B \in Nat \ {0} /\ D = 2 * B /\ D \in Nat \ {0}
  BY Sizes
<1>2. p \in Nat /\ p < D
  BY <1>0, <1>1
<1> HIDE DEF B, r, k, new
<1>3. ASSUME NEW i \in 1 .. D PROVE K(i) = IF i > p THEN i - p - 1 ELSE (D + i) - (p + 1)
  <2> DEFINE n == (D + i) - (p + 1)
  <2> HIDE DEF p, D
  <2>1. CASE i > p
    <3>1. n = D * 1 + (i - p - 1) /\ i - p - 1 \in Nat /\ i - p - 1 < D
      BY <1>0, <1>1, <1>2, <1>3, <2>1
    <3>2. n % D = i - p - 1
      <4>1. PICK q \in Nat, e \in Nat : q = 1 /\ e = i - p - 1
        BY <3>1
      <4>2. n = D * q + e /\ e < D
        BY <3>1, <4>1
      <4> HIDE DEF n
      <4>3. n % D = e
        BY <1>0, <1>1, <4>2, Divided
      <4> QED
        BY <4>1, <4>3
    <3> QED
      BY <3>2, <2>1 DEF n
  <2>2. CASE ~(i > p)
    <3>1. n = D * 0 + n /\ n \in Nat /\ n < D
      BY <1>0, <1>1, <1>2, <1>3, <2>2
    <3>2. n % D = n
      <4> HIDE DEF n
      <4> QED
        BY <1>0, <1>1, <3>1, Divided
    <3> QED
      BY <3>2, <2>2 DEF n
  <2> QED
    BY <1>0, <2>1, <2>2
<1>4. new = [i \in 1 .. D |-> IF K(i) < k THEN x[K(i) + 1] ELSE m[i]]
  BY DEF Stored, new, k
<1>5. \A i \in 1 .. D : K(i) \in Nat
  BY <1>0, <1>1, <1>2, <1>3
<1>6. \A i \in 1 .. k : x[i] \in V
  BY <1>0, ElementOfSeq DEF k
<1>7. new \in [1 .. D -> V]
  <2>1. ASSUME NEW i \in 1 .. D PROVE (IF K(i) < k THEN x[K(i) + 1] ELSE m[i]) \in V
    <3>1. CASE K(i) < k
      <4> HIDE DEF K
      <4>1. K(i) + 1 \in 1 .. k
        BY <1>0, <1>5, <3>1
      <4> QED
        BY <1>0, <1>6, <3>1, <4>1
    <3>2. CASE ~(K(i) < k)
      BY <1>0, <3>2
    <3> QED
      BY <3>1, <3>2
  <2> QED
    BY <1>0, <1>4, <2>1
<1>8. \A j \in 1 .. r + k : (rest \o x)[j] = IF j <= r THEN rest[j] ELSE x[j - r]
  BY <1>0, ConcatProperties DEF r, k
<1>9. ASSUME NEW j \in 1 .. r + k PROVE new[Place(at, j)] = (rest \o x)[j]
  <2> DEFINE i == Place(at, j)
  <2>1. i \in 1 .. D
    BY <1>0, <1>1, <1>2 DEF Place, B
  <2>2. new[i] = IF K(i) < k THEN x[K(i) + 1] ELSE m[i]
    BY <1>0, <1>4, <2>1
  <2>3. CASE j <= r
    <3>1. i = at + j /\ i <= p
      BY <1>0, <1>1, <1>2, <2>3 DEF Place, B
    <3>2. K(i) = (D + i) - (p + 1)
      BY <1>0, <1>3, <2>1, <3>1, <1>2
    <3>3. K(i) = (D + j) - (r + 1)
      BY <1>0, <1>1, <3>1, <3>2 DEF B
    <3>4. ~(K(i) < k)
      BY <1>0, <1>1, <2>3, <3>3
    <3>5. new[i] = m[i]
      <4> HIDE DEF K, i
      <4> QED
        BY <1>0, <2>2, <3>4
    <3>6. m[i] = m[at + j] /\ m[at + j] = rest[j]
      BY <1>0, <3>1, <2>3
    <3> QED
      BY <1>0, <1>8, <2>3, <3>5, <3>6
  <2>4. CASE ~(j <= r)
    <3>1. K(i) = j - r - 1
      <4>1. CASE at + j <= D
        <5>1. i = at + j /\ i > p
          BY <1>0, <4>1, <2>4 DEF Place
        <5> QED
            <6>1. K(i) = i - p - 1
              BY <1>3, <2>1, <5>1
            <6> HIDE DEF K
            <6>2. i - p - 1 = j - r - 1
              BY <1>0, <5>1, <1>1, <1>2
            <6> QED
              BY <6>1, <6>2
      <4>2. CASE ~(at + j <= D)
        <5>1. i = at + j - D /\ i <= p
          BY <1>0, <4>2, <2>4, <1>1, <1>2 DEF Place
        <5>2. K(i) = (D + i) - (p + 1)
          BY <1>0, <1>3, <2>1, <5>1, <1>2
        <5> QED
          BY <1>0, <5>1, <5>2, <1>1, <1>2
      <4> QED
        BY <4>1, <4>2
    <3>2. K(i) < k /\ K(i) + 1 = j - r
      BY <1>0, <3>1, <2>4
    <3> QED
      BY <1>0, <1>8, <2>2, <2>4, <3>2
  <2> QED
    BY <1>0, <2>3, <2>4
<1> QED
  BY <1>7, <1>9 DEF new, p, r, k
(* Blocks of a text, what is left behind them, and the half of the buffer  *)
(* that what is left begins.                                               *)
BlocksOf(text) == Len(text) \div BLOCK_SIZE
Left(text) == Len(text) % BLOCK_SIZE
Rest(text) == SubSeq(text, BLOCK_SIZE * BlocksOf(text) + 1, Len(text))
Half(q) == IF q % 2 = 0 THEN 0 ELSE BLOCK_SIZE

(* A hash that was fed the text, in whatever pieces: all blocks of it were *)
(* compressed, and what is left is in the buffer.  What else the buffer    *)
(* holds is not known.                                                     *)
HashOf(V, c, text) ==
  /\ text \in Seq(V)
  /\ c.h \in Seq(Seq(V)) /\ c.L \in Nat
  /\ c = [h |-> c.h, m |-> c.m, p |-> c.p, L |-> c.L]
  /\ c.p = Half(BlocksOf(text)) + Left(text)
  /\ Len(c.h) = BlocksOf(text)
  /\ \A i \in 1 .. BlocksOf(text) : c.h[i] = SubSeq(text, (i - 1) * BLOCK_SIZE + 1, i * BLOCK_SIZE)
  /\ Kept(V, c.m, Half(BlocksOf(text)), Rest(text))

(* The halves of the buffer follow each other.                             *)
LEMMA Halves ==
  ASSUME NEW q \in Nat
  PROVE  Half(q) \in {0, BLOCK_SIZE} /\ Half(q + 1) = BLOCK_SIZE - Half(q)
<1>1. (q + 1) % 2 = 1 - (q % 2) /\ q % 2 \in {0, 1}
  OBVIOUS
<1> QED
  BY <1>1, Sizes DEF Half

(* Sizes of the parts of a text.                                           *)
LEMMA PartsOf ==
  ASSUME NEW V, NEW text \in Seq(V)
  PROVE  /\ Len(text) \in Nat /\ BlocksOf(text) \in Nat /\ Left(text) \in Nat /\ Left(text) < BLOCK_SIZE
         /\ Len(text) = BLOCK_SIZE * BlocksOf(text) + Left(text)
         /\ BLOCK_SIZE * BlocksOf(text) \in Nat
         /\ Rest(text) \in Seq(V) /\ Len(Rest(text)) = Left(text)
         /\ \A j \in 1 .. Left(text) : Rest(text)[j] = text[BLOCK_SIZE * BlocksOf(text) + j]
<1> DEFINE q == BlocksOf(text)
           r == Left(text)
           f == BLOCK_SIZE * q
<1>1. /\ Len(text) \in Nat /\ q \in Nat /\ r \in 0 .. BLOCK_SIZE - 1 /\ Len(text) = f + r
  <2>1. Len(text) \in Nat /\ BLOCK_SIZE \in Nat \ {0}
    BY Sizes
  <2>2. PICK n \in Nat, t \in Nat \ {0} : n = Len(text) /\ t = BLOCK_SIZE
    BY <2>1
  <2>3. n = t * (n \div t) + (n % t) /\ n % t \in 0 .. t - 1 /\ n \div t \in Nat
    BY Divides
  <2> QED
    BY <2>2, <2>3 DEF BlocksOf, Left
<1>2. f \in Nat
  BY <1>1, Sizes
<1>3. \A i \in f + 1 .. Len(text) : text[i] \in V
  <2> HIDE DEF f
  <2> QED
    BY <1>1, <1>2, ElementOfSeq
<1>4. /\ Rest(text) \in Seq(V)
      /\ Len(Rest(text)) = IF f + 1 <= Len(text) THEN Len(text) - (f + 1) + 1 ELSE 0
      /\ \A j \in 1 .. Len(text) - (f + 1) + 1 : Rest(text)[j] = text[f + 1 + j - 1]
  <2>1. f + 1 \in Int /\ Len(text) \in Int
    BY <1>1, <1>2
  <2>2. Rest(text) = SubSeq(text, f + 1, Len(text))
    BY DEF Rest
  <2> HIDE DEF f
  <2> QED
    BY <1>3, <2>1, <2>2, SubSeqProperties
<1>5. Len(Rest(text)) = r /\ \A j \in 1 .. r : Rest(text)[j] = text[f + j]
  <2> HIDE DEF f, r
  <2>1. Len(text) - (f + 1) + 1 = r
    BY <1>1, <1>2, Sizes
  <2>2. Len(Rest(text)) = r
    BY <1>1, <1>2, <1>4, Sizes
  <2>3. ASSUME NEW j \in 1 .. r PROVE Rest(text)[j] = text[f + j]
    <3>1. f + 1 + j - 1 = f + j
      BY <1>2, <1>1, Sizes
    <3> QED
      BY <1>4, <2>1, <3>1
  <2> QED
    BY <2>2, <2>3
<1> QED
  BY <1>1, <1>2, <1>4, <1>5, Sizes

(* What is left of a longer text, while it is still less than a block or   *)
(* a whole one.                                                            *)
LEMMA LongerText ==
  ASSUME NEW V, NEW text \in Seq(V), NEW x \in Seq(V)
  PROVE  /\ text \o x \in Seq(V)
         /\ Len(text \o x) = BLOCK_SIZE * BlocksOf(text) + (Left(text) + Len(x))
         /\ Rest(text) \o x \in Seq(V) /\ Len(Rest(text) \o x) = Left(text) + Len(x)
         /\ \A j \in 1 .. Left(text) + Len(x) :
               (Rest(text) \o x)[j] = (text \o x)[BLOCK_SIZE * BlocksOf(text) + j]
<1> DEFINE r == Left(text)
           k == Len(x)
           f == BLOCK_SIZE * BlocksOf(text)
<1>1. /\ Len(text) \in Nat /\ r \in Nat /\ Len(text) = f + r /\ f \in Nat
      /\ Rest(text) \in Seq(V) /\ Len(Rest(text)) = r
      /\ \A j \in 1 .. r : Rest(text)[j] = text[f + j]
  BY PartsOf
<1>2. /\ text \o x \in Seq(V) /\ Len(text \o x) = Len(text) + k
      /\ \A i \in 1 .. Len(text) + k : (text \o x)[i] = IF i <= Len(text) THEN text[i] ELSE x[i - Len(text)]
  BY ConcatProperties
<1>3. /\ Rest(text) \o x \in Seq(V) /\ Len(Rest(text) \o x) = r + k
      /\ \A i \in 1 .. r + k : (Rest(text) \o x)[i] = IF i <= r THEN Rest(text)[i] ELSE x[i - r]
  <2> DEFINE rest == Rest(text)
  <2>1. rest \in Seq(V) /\ Len(rest) = r
    BY <1>1
  <2> HIDE DEF rest
  <2>2. /\ rest \o x \in Seq(V) /\ Len(rest \o x) = Len(rest) + k
        /\ \A i \in 1 .. Len(rest) + k : (rest \o x)[i] = IF i <= Len(rest) THEN rest[i] ELSE x[i - Len(rest)]
    BY <2>1, ConcatProperties
  <2> HIDE DEF r, k
  <2> QED
    BY <2>1, <2>2 DEF rest
<1>4. k \in Nat
  OBVIOUS
<1>5. ASSUME NEW j \in 1 .. r + k PROVE (Rest(text) \o x)[j] = (text \o x)[f + j]
  <2>1. f + j \in 1 .. Len(text) + k
    BY <1>1, <1>4
  <2>2. CASE j <= r
    BY <1>1, <1>2, <1>3, <2>1, <2>2
  <2>3. CASE ~(j <= r)
    <3>1. (f + j) - Len(text) = j - r /\ ~(f + j <= Len(text))
      BY <1>1, <2>3
    <3> QED
      BY <1>2, <1>3, <2>1, <2>3, <3>1
  <2> QED
    BY <2>2, <2>3
<1> QED
  BY <1>1, <1>2, <1>3, <1>4, <1>5
(* The blocks of a text are blocks of the longer text.                     *)
LEMMA BlocksStay ==
  ASSUME NEW V, NEW text \in Seq(V), NEW x \in Seq(V), NEW i \in 1 .. BlocksOf(text)
  PROVE  SubSeq(text \o x, (i - 1) * BLOCK_SIZE + 1, i * BLOCK_SIZE)
         = SubSeq(text, (i - 1) * BLOCK_SIZE + 1, i * BLOCK_SIZE)
<1>1. /\ Len(text) \in Nat /\ BlocksOf(text) \in Nat /\ BLOCK_SIZE \in Nat
      /\ BLOCK_SIZE * BlocksOf(text) \in Nat /\ BLOCK_SIZE * BlocksOf(text) <= Len(text)
  <2>1. /\ Len(text) \in Nat /\ BlocksOf(text) \in Nat /\ Left(text) \in Nat
        /\ BLOCK_SIZE * BlocksOf(text) \in Nat
        /\ Len(text) = BLOCK_SIZE * BlocksOf(text) + Left(text)
    BY PartsOf
  <2>2. PICK f \in Nat : f = BLOCK_SIZE * BlocksOf(text)
    BY <2>1
  <2>3. f <= Len(text)
    BY <2>1, <2>2
  <2> QED
    BY <2>1, <2>2, <2>3, Sizes
<1>2. BLOCK_SIZE * i <= BLOCK_SIZE * BlocksOf(text) /\ i * BLOCK_SIZE = BLOCK_SIZE * i
  BY <1>1, Within
<1>3. i * BLOCK_SIZE \in Nat /\ i * BLOCK_SIZE <= Len(text)
  BY <1>1, <1>2
<1>4. (i - 1) * BLOCK_SIZE + 1 \in Nat /\ (i - 1) * BLOCK_SIZE + 1 > 0
  <2>1. i - 1 \in Nat
    OBVIOUS
  <2>2. (i - 1) * BLOCK_SIZE \in Nat
    BY <2>1, <1>1
  <2> QED
    BY <2>2
<1> QED
  BY <1>3, <1>4, PartBefore

(* One turn of the loop of update: a hash of a text becomes the hash of    *)
(* the text and the chunk.                                                 *)
LEMMA Turned ==
  ASSUME NEW V, NEW c, NEW text, HashOf(V, c, text), NEW x \in Seq(V), Len(x) \in 1 .. BLOCK_SIZE
  PROVE  HashOf(V, UpdateChunk(c, x), text \o x) /\ UpdateChunk(c, x).L = c.L
<1> DEFINE B == BLOCK_SIZE
           q == BlocksOf(text)
           r == Left(text)
           k == Len(x)
           at == Half(q)
           f == B * q
           rest == Rest(text)
           whole == text \o x
           new == UpdateChunk(c, x)
           m == Stored(c.m, c.p, x)
           p == (c.p + k) % BufferSize
<1>1. /\ text \in Seq(V) /\ q \in Nat /\ r \in Nat /\ r < B /\ f \in Nat /\ Len(text) = f + r
      /\ rest \in Seq(V) /\ Len(rest) = r
  BY PartsOf DEF HashOf
<1>2. B \in Nat \ {0} /\ BufferSize = 2 * B /\ BufferSize \in Nat \ {0} /\ k \in Nat /\ k >= 1 /\ k <= B
  BY Sizes
<1>3. at \in {0, B} /\ Half(q + 1) = B - at
  BY <1>1, Halves
<1>4. /\ c.p = at + r /\ c.m \in [1 .. BufferSize -> V] /\ c.L \in Nat
      /\ c.h \in Seq(Seq(V)) /\ Len(c.h) = q
      /\ c = [h |-> c.h, m |-> c.m, p |-> c.p, L |-> c.L]
      /\ \A i \in 1 .. q : c.h[i] = SubSeq(text, (i - 1) * B + 1, i * B)
      /\ \A j \in 1 .. r : c.m[at + j] = rest[j]
  BY <1>1 DEF HashOf, Kept
<1>5. /\ m \in [1 .. BufferSize -> V]
      /\ \A j \in 1 .. r + k : m[Place(at, j)] = (rest \o x)[j]
  <2>1. Kept(V, c.m, at, rest)
    BY DEF HashOf
  <2>2. PICK cm, a : cm = c.m /\ a = at
    OBVIOUS
  <2>3. Kept(V, cm, a, rest) /\ Len(rest) + k <= BufferSize
    BY <1>1, <1>2, <2>1, <2>2
  <2>4. /\ Stored(cm, a + Len(rest), x) \in [1 .. BufferSize -> V]
        /\ \A j \in 1 .. Len(rest) + k : Stored(cm, a + Len(rest), x)[Place(a, j)] = (rest \o x)[j]
    <3> HIDE DEF rest
    <3> QED
      BY <2>3, StoredBehind
  <2> HIDE DEF rest, r, k, at
  <2>5. m = Stored(cm, a + Len(rest), x)
    BY <1>1, <1>4, <2>2
  <2> HIDE DEF m
  <2> QED
    BY <1>1, <2>2, <2>4, <2>5
<1>6. /\ whole \in Seq(V) /\ Len(whole) = f + (r + k)
      /\ \A j \in 1 .. r + k : (rest \o x)[j] = whole[f + j]
  <2>1. f = BLOCK_SIZE * BlocksOf(text)
    OBVIOUS
  <2> HIDE DEF f
  <2> QED
    <3>1. text \in Seq(V)
      BY <1>1
    <3>2. /\ whole \in Seq(V) /\ Len(whole) = f + (Left(text) + Len(x))
          /\ \A j \in 1 .. Left(text) + Len(x) : (Rest(text) \o x)[j] = whole[f + j]
      BY <2>1, <3>1, LongerText
    <3> QED
      BY <3>2
<1>7. \A j \in 1 .. r + k : m[Place(at, j)] = whole[f + j]
  BY <1>5, <1>6
<1>8. new = [h |-> IF c.p < B /\ p >= B THEN Append(c.h, FirstBlock(m))
                   ELSE IF c.p >= B /\ p < B THEN Append(c.h, SecondBlock(m)) ELSE c.h,
             m |-> m, p |-> p, L |-> c.L]
  <2>1. PICK hh, mm, pp, ll : c = [h |-> hh, m |-> mm, p |-> pp, L |-> ll]
    BY <1>4
  <2>2. c.h = hh /\ c.m = mm /\ c.p = pp /\ c.L = ll
    BY <2>1
  <2> DEFINE more == IF c.p < B /\ p >= B THEN Append(c.h, FirstBlock(m))
                     ELSE IF c.p >= B /\ p < B THEN Append(c.h, SecondBlock(m)) ELSE c.h
  <2>3. new = [c EXCEPT !.m = m, !.p = p, !.h = more]
    BY DEF UpdateChunk
  <2> HIDE DEF m, p, more, new
  <2>4. new = [h |-> more, m |-> m, p |-> p, L |-> c.L]
    BY <2>1, <2>2, <2>3
  <2> QED
    BY <2>4 DEF more
<1>9. \A i \in 1 .. q : c.h[i] = SubSeq(whole, (i - 1) * B + 1, i * B)
  BY <1>1, <1>4, BlocksStay
<1> HIDE DEF f, at, rest, whole, new, m, p, q, r, k, B
<1>10. CASE r + k < B
  <2>1. BlocksOf(whole) = q /\ Left(whole) = r + k
    <3>1. Len(whole) = B * q + (r + k) /\ r + k \in Nat
      BY <1>1, <1>2, <1>6 DEF f
    <3>2. Len(whole) \div B = q /\ Len(whole) % B = r + k
      <4>1. PICK n \in Nat, e \in Nat : n = Len(whole) /\ e = r + k
        BY <1>1, <1>6, <3>1
      <4>2. n = B * q + e /\ e < B
        BY <3>1, <4>1, <1>10
      <4>3. n \div B = q /\ n % B = e
        BY <1>1, <1>2, <4>2, Divided
      <4> QED
        BY <4>1, <4>3
    <3> QED
      BY <3>2 DEF BlocksOf, Left, B
  <2>2. p = at + (r + k) /\ (c.p < B <=> p < B)
    <3>1. PICK n \in Nat : n = c.p + k
      BY <1>1, <1>2, <1>3, <1>4
    <3>2. n = BufferSize * 0 + n /\ n < BufferSize
      BY <1>1, <1>2, <1>3, <1>4, <1>10, <3>1
    <3>3. n % BufferSize = n
      BY <1>2, <3>2, Divided
    <3>4. p = n
      BY <3>1, <3>3 DEF p
    <3> QED
      BY <1>1, <1>2, <1>3, <1>4, <1>10, <3>1, <3>4
  <2>3. new = [h |-> c.h, m |-> m, p |-> p, L |-> c.L]
    <3>1. p \in Nat /\ c.p \in Nat
      BY <2>2, <1>1, <1>2, <1>3, <1>4
    <3>2. ~(c.p < B /\ p >= B) /\ ~(c.p >= B /\ p < B)
      BY <2>2, <3>1, <1>2
    <3> QED
      BY <1>8, <3>2
  <2>4. \A j \in 1 .. r + k : m[at + j] = Rest(whole)[j]
    <3>1. \A j \in 1 .. r + k : Rest(whole)[j] = whole[f + j]
      BY <1>6, <2>1, PartsOf DEF f, B
    <3>2. ASSUME NEW j \in 1 .. r + k PROVE Place(at, j) = at + j
      BY <1>1, <1>2, <1>3, <1>10 DEF Place
    <3> QED
      BY <3>1, <3>2, <1>7
  <2>5. /\ new.h = c.h /\ new.m = m /\ new.p = p /\ new.L = c.L
        /\ new = [h |-> new.h, m |-> new.m, p |-> new.p, L |-> new.L]
    BY <2>3
  <2>6. HashOf(V, new, whole)
    <3>1. Kept(V, m, at, Rest(whole))
      BY <1>2, <1>3, <1>5, <1>6, <1>10, <2>1, <2>4, PartsOf DEF Kept, B
    <3> QED
      BY <1>4, <1>6, <1>9, <2>1, <2>2, <2>5, <3>1 DEF HashOf, at, B
  <2> QED
    BY <2>5, <2>6 DEF new, whole
<1>11. CASE ~(r + k < B)
  <2> DEFINE left == r + k - B
             block == SubSeq(whole, f + 1, f + B)
  <2>1. left \in Nat /\ left < B
    BY <1>1, <1>2, <1>11
  <2>2. q + 1 \in Nat /\ f + B = B * (q + 1)
    BY <1>1, <1>2 DEF f
  <2>3. BlocksOf(whole) = q + 1 /\ Left(whole) = left
    <3>1. Len(whole) = (f + B) + left
      BY <1>1, <1>2, <1>6
    <3>2. Len(whole) = B * (q + 1) + left
      BY <3>1, <2>2
    <3>3. Len(whole) \div B = q + 1 /\ Len(whole) % B = left
      <4> HIDE DEF left
      <4>1. PICK n \in Nat, e \in Nat : n = Len(whole) /\ e = q + 1
        BY <1>1, <1>6, <2>2
      <4>2. n = B * e + left
        BY <3>2, <4>1
      <4>3. n \div B = e /\ n % B = left
        BY <1>1, <1>2, <2>1, <4>2, Divided
      <4> QED
        BY <4>1, <4>3
    <3> QED
      BY <3>3 DEF BlocksOf, Left, B
  <2>4. p = (B - at) + left /\ (at = 0 => c.p < B /\ p >= B) /\ (at = B => c.p >= B /\ p < B)
    <3>1. PICK n \in Nat : n = c.p + k
      BY <1>1, <1>2, <1>3, <1>4
    <3>2. CASE at = 0
      <4>1. n = BufferSize * 0 + n /\ n < BufferSize /\ n = B + left
        BY <1>1, <1>2, <1>4, <1>11, <3>1, <3>2
      <4>2. n % BufferSize = n
        BY <1>2, <4>1, Divided
      <4>3. p = n
        BY <3>1, <4>2 DEF p
      <4> QED
        BY <1>1, <1>2, <1>4, <1>11, <2>1, <3>2, <4>1, <4>3
    <3>3. CASE at = B
      <4>1. PICK one \in Nat : one = 1
        OBVIOUS
      <4>2. n = BufferSize * one + left
        BY <1>1, <1>2, <1>4, <1>11, <3>1, <3>3, <4>1
      <4>3. left < BufferSize
        BY <2>1, <1>2
      <4>4. n % BufferSize = left
        <5> HIDE DEF left
        <5> QED
          BY <1>2, <2>1, <4>2, <4>3, Divided
      <4>5. p = left
        BY <3>1, <4>4 DEF p
      <4> QED
        BY <1>1, <1>2, <1>4, <1>11, <2>1, <3>3, <4>5
    <3> QED
      BY <1>3, <3>2, <3>3
  <2>5. /\ block \in Seq(V) /\ Len(block) = B
        /\ \A j \in 1 .. B : block[j] = whole[f + j]
    <3>1. \A i \in f + 1 .. f + B : whole[i] \in V
      <4>1. ASSUME NEW i \in f + 1 .. f + B PROVE i \in 1 .. Len(whole)
        BY <1>1, <1>2, <1>6, <1>11
      <4> QED
        BY <4>1, <1>6, ElementOfSeq
    <3>2. f + 1 \in Int /\ f + B \in Int /\ (f + B) - (f + 1) + 1 = B /\ f + 1 <= f + B
      BY <1>1, <1>2
    <3>3. /\ block \in Seq(V) /\ Len(block) = (f + B) - (f + 1) + 1
          /\ \A j \in 1 .. (f + B) - (f + 1) + 1 : block[j] = whole[f + 1 + j - 1]
      BY <3>1, <3>2, SubSeqProperties
    <3>4. ASSUME NEW j \in 1 .. B PROVE f + 1 + j - 1 = f + j
      BY <1>1, <1>2
    <3> QED
      BY <3>2, <3>3, <3>4
  <2> HIDE DEF block
  <2>6. \A j \in 1 .. B : m[at + j] = block[j]
    <3>1. ASSUME NEW j \in 1 .. B PROVE Place(at, j) = at + j /\ j \in 1 .. r + k
      BY <1>1, <1>2, <1>3, <1>11 DEF Place
    <3> QED
      BY <3>1, <1>7, <2>5
  <2>7. (at = 0 => FirstBlock(m) = block) /\ (at = B => SecondBlock(m) = block)
    <3>1. CASE at = 0
      <4>1. \A i \in 1 .. B : m[i] \in V
        BY <1>2, <1>5
      <4>2. /\ FirstBlock(m) \in Seq(V) /\ Len(FirstBlock(m)) = B - 1 + 1
            /\ \A j \in 1 .. B - 1 + 1 : FirstBlock(m)[j] = m[1 + j - 1]
        BY <1>2, <4>1, SubSeqProperties DEF FirstBlock, B
      <4>3. B - 1 + 1 = B
        BY <1>2
      <4>4. ASSUME NEW j \in 1 .. B PROVE FirstBlock(m)[j] = block[j]
        <5>1. 1 + j - 1 = at + j
          BY <3>1
        <5> QED
          BY <4>2, <4>3, <5>1, <2>6
      <4>5. FirstBlock(m) = block
        BY <2>5, <4>2, <4>3, <4>4, SeqEqual
      <4> QED
        BY <3>1, <4>5, <1>2
    <3>2. CASE at = B
      <4>1. \A i \in B + 1 .. BufferSize : m[i] \in V
        BY <1>2, <1>5
      <4>2. B + 1 \in Int /\ BufferSize \in Int /\ B + 1 <= BufferSize /\ BufferSize - (B + 1) + 1 = B
        BY <1>2
      <4>3. /\ SecondBlock(m) \in Seq(V) /\ Len(SecondBlock(m)) = BufferSize - (B + 1) + 1
            /\ \A j \in 1 .. BufferSize - (B + 1) + 1 : SecondBlock(m)[j] = m[B + 1 + j - 1]
        BY <4>1, <4>2, SubSeqProperties DEF SecondBlock, B
      <4>4. ASSUME NEW j \in 1 .. B PROVE SecondBlock(m)[j] = block[j]
        <5>1. B + 1 + j - 1 = at + j
          BY <3>2, <1>2
        <5> QED
          BY <4>2, <4>3, <5>1, <2>6
      <4>5. SecondBlock(m) = block
        BY <2>5, <4>2, <4>3, <4>4, SeqEqual
      <4> QED
        BY <3>2, <4>5, <1>2
    <3> QED
      BY <1>3, <3>1, <3>2
  <2>8. new = [h |-> Append(c.h, block), m |-> m, p |-> p, L |-> c.L]
    <3>1. c.p \in Nat /\ p \in Nat /\ ~(B < B) /\ 0 < B
      BY <1>1, <1>2, <1>3, <1>4, <2>1, <2>4
    <3>2. CASE at = 0
      BY <1>8, <2>4, <2>7, <3>2
    <3>3. CASE at = B
      <4>1. c.p >= B /\ p < B /\ ~(c.p < B) /\ ~(p >= B)
        BY <2>4, <3>1, <3>3, <1>2
      <4> QED
        BY <1>8, <2>7, <3>3, <4>1
    <3> QED
      BY <1>3, <3>2, <3>3
  <2>9. /\ Append(c.h, block) \in Seq(Seq(V)) /\ Len(Append(c.h, block)) = q + 1
        /\ \A i \in 1 .. q + 1 : Append(c.h, block)[i] = SubSeq(whole, (i - 1) * B + 1, i * B)
    <3>1. Append(c.h, block) \in Seq(Seq(V)) /\ Len(Append(c.h, block)) = q + 1
      BY <1>4, <2>5
    <3>2. ASSUME NEW i \in 1 .. q + 1
          PROVE  Append(c.h, block)[i] = SubSeq(whole, (i - 1) * B + 1, i * B)
      <4>1. CASE i <= q
        <5>1. i \in 1 .. q
          BY <4>1, <1>1
        <5>2. Append(c.h, block)[i] = c.h[i]
          BY <1>4, <2>5, <5>1
        <5> QED
          BY <5>1, <5>2, <1>9
      <4>2. CASE i = q + 1
        <5>1. (i - 1) * B + 1 = f + 1 /\ i * B = f + B
          <6>1. i - 1 = q
            BY <4>2, <1>1
          <6>2. q * B = f
            BY <1>1, <1>2 DEF f
          <6>3. i * B = B * (q + 1)
            BY <4>2, <1>1, <1>2
          <6> QED
            BY <6>1, <6>2, <6>3, <2>2
        <5>2. Append(c.h, block)[i] = block
          BY <1>1, <1>4, <2>5, <4>2
        <5> QED
          BY <5>1, <5>2 DEF block
      <4> QED
        <5>1. i <= q \/ i = q + 1
          BY <1>1
        <5> QED
          BY <4>1, <4>2, <5>1
    <3> QED
      BY <3>1, <3>2
  <2>10. \A j \in 1 .. left : m[(B - at) + j] = Rest(whole)[j]
    <3>1. \A j \in 1 .. left : Rest(whole)[j] = whole[(f + B) + j]
      <4>1. \A j \in 1 .. Left(whole) : Rest(whole)[j] = whole[B * BlocksOf(whole) + j]
        BY <1>6, PartsOf DEF B
      <4> HIDE DEF left
      <4> QED
        BY <4>1, <2>2, <2>3
    <3>2. ASSUME NEW j \in 1 .. left PROVE m[(B - at) + j] = whole[(f + B) + j]
      <4>1. B + j \in 1 .. r + k /\ f + (B + j) = (f + B) + j
        BY <1>1, <1>2, <1>11
      <4>2. Place(at, B + j) = (B - at) + j
        <5>1. CASE at = 0
          BY <1>2, <2>1, <5>1 DEF Place
        <5>2. CASE at = B
          BY <1>2, <2>1, <5>2 DEF Place
        <5> QED
          BY <1>3, <5>1, <5>2
      <4>3. m[Place(at, B + j)] = whole[f + (B + j)]
        BY <1>7, <4>1
      <4> QED
        BY <4>1, <4>2, <4>3
    <3> QED
      BY <3>1, <3>2
  <2>11. /\ new.h = Append(c.h, block) /\ new.m = m /\ new.p = p /\ new.L = c.L
         /\ new = [h |-> new.h, m |-> new.m, p |-> new.p, L |-> new.L]
    BY <2>8
  <2>12. HashOf(V, new, whole)
    <3> HIDE DEF left
    <3>1. Rest(whole) \in Seq(V) /\ Len(Rest(whole)) = left
      BY <1>6, <2>3, PartsOf
    <3>2. B - at \in {0, BLOCK_SIZE}
      BY <1>2, <1>3 DEF B
    <3>3. Kept(V, m, B - at, Rest(whole))
      BY <1>5, <2>1, <2>10, <3>1, <3>2 DEF Kept, B
    <3> QED
      BY <1>3, <1>4, <1>6, <2>3, <2>4, <2>9, <2>11, <3>3 DEF HashOf, B
  <2> QED
    BY <2>11, <2>12 DEF new, whole
<1> QED
  BY <1>10, <1>11
-----------------------------------------------------------------------------
(* How much of a message its first chunks are.                             *)
Taken(msg, i) == IF i * BLOCK_SIZE > Len(msg) THEN Len(msg) ELSE i * BLOCK_SIZE

(* The chunks of a message: full ones and a last one, none of them empty.  *)
LEMMA ChunksAre ==
  ASSUME NEW V, NEW msg \in Seq(V)
  PROVE  /\ Len(Chunks(msg)) \in Nat /\ Taken(msg, 0) = 0 /\ Taken(msg, Len(Chunks(msg))) = Len(msg)
         /\ \A i \in 0 .. Len(Chunks(msg)) : Taken(msg, i) \in 0 .. Len(msg)
         /\ \A i \in 1 .. Len(Chunks(msg)) :
               /\ Chunks(msg)[i] = SubSeq(msg, Taken(msg, i - 1) + 1, Taken(msg, i))
               /\ Taken(msg, i) - Taken(msg, i - 1) \in 1 .. BLOCK_SIZE
<1> DEFINE B == BLOCK_SIZE
           len == Len(msg)
           T == (len + B - 1) \div B
           f == B * T
<1>1. B \in Nat \ {0} /\ len \in Nat
  BY Sizes
<1>2. T \in Nat /\ f \in Nat /\ f >= len /\ f - B < len
  <2>1. PICK n \in Nat, t \in Nat \ {0} : n = len + B - 1 /\ t = B
    <3>1. len + B - 1 \in Nat
      <4> HIDE DEF len, B
      <4> QED
        BY <1>1
    <3> HIDE DEF len, B
    <3> QED
      BY <1>1, <3>1
  <2>2. n = t * (n \div t) + (n % t) /\ n % t \in 0 .. t - 1 /\ n \div t \in Nat
    BY Divides
  <2>3. T = n \div t
    BY <2>1
  <2>4. f = t * (n \div t)
    BY <2>1, <2>3
  <2>5. f \in Nat
    BY <2>2, <2>4
  <2>6. n = f + (n % t)
    BY <2>2, <2>4
  <2> HIDE DEF f, len, B
  <2> QED
    BY <1>1, <2>1, <2>2, <2>3, <2>5, <2>6
<1> HIDE DEF len, B
<1>3. ASSUME NEW i \in 0 .. T PROVE i * B \in Nat
  <2>1. i \in Nat
    BY <1>2
  <2> HIDE DEF T
  <2> QED
    BY <1>1, <2>1
<1>4. ASSUME NEW i \in 0 .. T, i # T PROVE i * B < len /\ Taken(msg, i) = i * B
  <2>1. T - 1 \in Nat /\ i \in Nat /\ i <= T - 1
    BY <1>2, <1>4
  <2> HIDE DEF T
  <2>2. B * (T - 1) = f - B
    BY <1>1, <1>2
  <2>3. B * i <= B * (T - 1)
    BY <1>1, <2>1, Within
  <2>4. i * B = B * i
    BY <1>1, <2>1
  <2>5. i * B \in Nat
    BY <1>1, <2>1
  <2> HIDE DEF f
  <2>6. i * B < len
    BY <1>1, <1>2, <2>2, <2>3, <2>4, <2>5
  <2> QED
    BY <1>1, <2>5, <2>6 DEF Taken, len, B
<1>5. Taken(msg, T) = len
  <2>1. T * B = f
    <3> HIDE DEF T
    <3> QED
      BY <1>1, <1>2
  <2> HIDE DEF T
  <2> QED
    BY <1>1, <1>2, <2>1 DEF Taken, len, B
<1>6. ASSUME NEW i \in 1 .. T
      PROVE  /\ i - 1 \in 0 .. T /\ i - 1 # T /\ (i - 1) * B = i * B - B
             /\ Taken(msg, i) = IF i * B > len THEN len ELSE i * B
  <2>1. i - 1 \in 0 .. T /\ i - 1 # T
    BY <1>2
  <2>2. i \in Nat
    BY <1>2
  <2> HIDE DEF T
  <2> QED
    BY <1>1, <2>1, <2>2 DEF Taken, len, B
<1>7. Chunks(msg) = [i \in 1 .. T |-> SubSeq(msg, (i - 1) * B + 1, Taken(msg, i))]
  BY DEF Chunks, Taken, len, B
<1>8. Len(Chunks(msg)) = T
  <2> HIDE DEF T
  <2>1. DOMAIN Chunks(msg) = 1 .. T
    BY <1>7
  <2>2. ASSUME NEW i \in 1 .. T PROVE SubSeq(msg, (i - 1) * B + 1, Taken(msg, i)) \in Seq(V)
    <3>1. (i - 1) * B = Taken(msg, i - 1) /\ (i - 1) * B \in Nat
      BY <1>3, <1>4, <1>6
    <3>2. Taken(msg, i) \in Nat /\ Taken(msg, i) <= len
      <4>1. i * B \in Nat
        BY <1>2, <1>3
      <4> QED
        BY <1>1, <1>6, <4>1
    <3>3. \A j \in (i - 1) * B + 1 .. Taken(msg, i) : msg[j] \in V
      <4>1. ASSUME NEW j \in (i - 1) * B + 1 .. Taken(msg, i) PROVE j \in 1 .. Len(msg)
        BY <1>1, <3>1, <3>2 DEF len
      <4> QED
        BY <4>1, ElementOfSeq
    <3> QED
      BY <3>1, <3>2, <3>3, SubSeqProperties
  <2>3. Chunks(msg) \in Seq(Seq(V))
    BY <1>2, <1>7, <2>2
  <2> QED
    BY <1>2, <2>1, <2>3, LenProperties
<1>9. Taken(msg, 0) = 0
  BY <1>1 DEF Taken, len, B
<1> HIDE DEF T
<1>10. ASSUME NEW i \in 0 .. T PROVE Taken(msg, i) \in 0 .. len
  BY <1>1, <1>2, <1>3, <1>4, <1>5
<1>11. ASSUME NEW i \in 1 .. T
       PROVE  /\ Chunks(msg)[i] = SubSeq(msg, Taken(msg, i - 1) + 1, Taken(msg, i))
              /\ Taken(msg, i) - Taken(msg, i - 1) \in 1 .. B
  <2>1. Taken(msg, i - 1) = (i - 1) * B /\ (i - 1) * B \in Nat /\ (i - 1) * B < len
    BY <1>3, <1>4, <1>6
  <2>2. Chunks(msg)[i] = SubSeq(msg, (i - 1) * B + 1, Taken(msg, i))
    BY <1>7
  <2>3. i * B \in Nat
    BY <1>2, <1>3
  <2>4. Taken(msg, i) - Taken(msg, i - 1) \in 1 .. B
    BY <1>1, <1>6, <2>1, <2>3
  <2> QED
    BY <2>1, <2>2, <2>4
<1> QED
  BY <1>2, <1>5, <1>8, <1>9, <1>10, <1>11 DEF len, B
(* The turns of update, from the state the first one finds.                *)
Turns(f, c, chunks, n) ==
  f = [i \in 0 .. n |-> IF i = 0 THEN c ELSE UpdateChunk(f[i - 1], chunks[i])]

(* There are turns for any number of chunks.                               *)
LEMMA TurnsExist ==
  ASSUME NEW c, NEW chunks, NEW n \in Nat
  PROVE  \E f : Turns(f, c, chunks, n)
<1> DEFINE S == {i \in Nat : \E f : Turns(f, c, chunks, i)}
<1>1. 0 \in S
  <2> DEFINE f == [i \in 0 .. 0 |-> c]
  <2>1. \A i \in 0 .. 0 : i = 0
    OBVIOUS
  <2>2. Turns(f, c, chunks, 0)
    BY <2>1 DEF Turns
  <2> QED
    BY <2>2
<1>2. ASSUME NEW i \in Nat, i \in S PROVE i + 1 \in S
  <2>1. PICK f : Turns(f, c, chunks, i)
    BY <1>2
  <2> DEFINE g == [j \in 0 .. i + 1 |-> IF j = i + 1 THEN UpdateChunk(f[i], chunks[i + 1]) ELSE f[j]]
  <2>2. ASSUME NEW j \in 0 .. i + 1
        PROVE  g[j] = IF j = 0 THEN c ELSE UpdateChunk(g[j - 1], chunks[j])
    <3>1. CASE j = 0
      <4>1. f[0] = c
        BY <2>1 DEF Turns
      <4> QED
        BY <3>1, <4>1
    <3>2. CASE j # 0 /\ j # i + 1
      <4>1. j \in 0 .. i /\ j - 1 \in 0 .. i /\ j - 1 \in 0 .. i + 1 /\ j - 1 # i + 1
        BY <3>2
      <4>2. f[j] = UpdateChunk(f[j - 1], chunks[j])
        BY <2>1, <3>2, <4>1 DEF Turns
      <4>3. g[j] = f[j] /\ g[j - 1] = f[j - 1]
        BY <3>2, <4>1
      <4> QED
        BY <3>2, <4>2, <4>3
    <3>3. CASE j = i + 1
      <4>1. j - 1 = i /\ i \in 0 .. i + 1 /\ i # i + 1 /\ j # 0
        BY <3>3
      <4>2. g[i] = f[i] /\ g[j] = UpdateChunk(f[i], chunks[i + 1])
        BY <3>3, <4>1
      <4> HIDE DEF g
      <4> QED
        BY <3>3, <4>1, <4>2
    <3> QED
      BY <3>1, <3>2, <3>3
  <2>3. g = [j \in 0 .. i + 1 |-> g[j]]
    OBVIOUS
  <2> HIDE DEF g
  <2>4. Turns(g, c, chunks, i + 1)
    BY <2>2, <2>3 DEF Turns
  <2> QED
    BY <2>4
<1> HIDE DEF S
<1>3. Nat \subseteq S
  BY <1>1, <1>2, Numbers
<1> QED
  BY <1>3 DEF S

(* Update: a hash of a text becomes the hash of the text and the message.  *)
LEMMA Updated ==
  ASSUME NEW V, NEW c, NEW text, HashOf(V, c, text), NEW msg \in Seq(V)
  PROVE  /\ HashOf(V, ShaUpdate(c, msg), text \o msg)
         /\ ShaUpdate(c, msg).L = (c.L + Len(msg)) % LENGTH_RANGE
<1> DEFINE chunks == Chunks(msg)
           n == Len(chunks)
           long == (c.L + Len(msg)) % LENGTH_RANGE
           first == [c EXCEPT !.L = long]
           turn == CHOOSE f : Turns(f, first, chunks, n)
           Upto(i) == text \o SubSeq(msg, 1, Taken(msg, i))
           S == {i \in Nat : i <= n => HashOf(V, turn[i], Upto(i)) /\ turn[i].L = long}
<1>1. ShaUpdate(c, msg) = turn[n]
  BY DEF ShaUpdate, Turns
<1>2. n \in Nat
  BY ChunksAre
<1>3. Turns(turn, first, chunks, n)
  <2> HIDE DEF first, chunks, n
  <2> QED
    BY <1>2, TurnsExist
<1>4. long \in Nat
  <2>1. c.L \in Nat /\ Len(msg) \in Nat /\ LENGTH_RANGE \in Nat \ {0}
    BY Sizes DEF HashOf
  <2>2. PICK m \in Nat : m = c.L + Len(msg)
    BY <2>1
  <2>3. m % LENGTH_RANGE \in 0 .. LENGTH_RANGE - 1
    BY <2>1, Divides
  <2>4. long \in 0 .. LENGTH_RANGE - 1
    BY <2>2, <2>3
  <2> HIDE DEF long
  <2> QED
    BY <2>1, <2>4
<1> HIDE DEF turn, long
<1>5. HashOf(V, first, text) /\ first.L = long
  <2>1. PICK hh, mm, pp, ll : c = [h |-> hh, m |-> mm, p |-> pp, L |-> ll]
    BY DEF HashOf
  <2>2. c.h = hh /\ c.m = mm /\ c.p = pp /\ first = [h |-> hh, m |-> mm, p |-> pp, L |-> long]
    BY <2>1
  <2>3. /\ first.h = c.h /\ first.m = c.m /\ first.p = c.p /\ first.L = long
        /\ first = [h |-> first.h, m |-> first.m, p |-> first.p, L |-> first.L]
    BY <2>2
  <2> HIDE DEF first
  <2> QED
    BY <1>4, <2>3 DEF HashOf
<1> HIDE DEF first
<1>6. 0 \in S
  <2>1. turn[0] = first
    BY <1>2, <1>3 DEF Turns
  <2>2. Upto(0) = text
    <3>1. SubSeq(msg, 1, Taken(msg, 0)) = <<>>
      <4>1. Taken(msg, 0) = 0
        BY ChunksAre
      <4> QED
        BY <4>1, SubSeqEmpty
    <3>2. text \o <<>> = text
      BY ConcatEmptySeq DEF HashOf
    <3> QED
      BY <3>1, <3>2
  <2> QED
    BY <1>5, <2>1, <2>2
<1>7. ASSUME NEW i \in Nat, i \in S PROVE i + 1 \in S
  <2> SUFFICES ASSUME i + 1 <= n PROVE HashOf(V, turn[i + 1], Upto(i + 1)) /\ turn[i + 1].L = long
    OBVIOUS
  <2>1. HashOf(V, turn[i], Upto(i)) /\ turn[i].L = long
    BY <1>2, <1>7
  <2>2. turn[i + 1] = UpdateChunk(turn[i], chunks[i + 1])
    <3>1. i + 1 \in 0 .. n /\ i + 1 # 0 /\ (i + 1) - 1 = i
      BY <1>2
    <3> QED
      BY <1>3, <3>1 DEF Turns
  <2> DEFINE a == Taken(msg, i)
             b == Taken(msg, i + 1)
             x == SubSeq(msg, a + 1, b)
  <2>3. chunks[i + 1] = x /\ b - a \in 1 .. BLOCK_SIZE /\ a \in 0 .. Len(msg) /\ b \in 0 .. Len(msg)
    <3>1. i + 1 \in 1 .. n /\ (i + 1) - 1 = i /\ i \in 0 .. n /\ i + 1 \in 0 .. n
      BY <1>2
    <3> QED
      BY <3>1, ChunksAre
  <2> HIDE DEF a, b
  <2>4. x \in Seq(V) /\ Len(x) \in 1 .. BLOCK_SIZE
    <3>1. \A j \in a + 1 .. b : msg[j] \in V
      <4>1. ASSUME NEW j \in a + 1 .. b PROVE j \in 1 .. Len(msg)
        BY <2>3
      <4> QED
        BY <4>1, ElementOfSeq
    <3>2. a + 1 \in Int /\ b \in Int /\ a + 1 <= b /\ b - (a + 1) + 1 = b - a
      BY <2>3
    <3>3. x \in Seq(V) /\ Len(x) = b - (a + 1) + 1
      BY <3>1, <3>2, SubSeqProperties
    <3> QED
      BY <2>3, <3>2, <3>3
  <2>5. SubSeq(msg, 1, a) \o x = SubSeq(msg, 1, b)
    <3>1. /\ 1 \in 1 .. Len(msg) + 1 /\ a \in 1 - 1 .. Len(msg) /\ b \in a .. Len(msg)
      BY <2>3
    <3> QED
      BY <3>1, ConcatAdjacentSubSeq
  <2>6. Upto(i) \o x = Upto(i + 1)
    <3>1. SubSeq(msg, 1, a) \in Seq(V)
      <4>1. \A j \in 1 .. a : msg[j] \in V
        BY <2>3, ElementOfSeq
      <4> QED
        BY <2>3, <4>1, SubSeqProperties
    <3>2. text \in Seq(V)
      BY DEF HashOf
    <3> DEFINE s == SubSeq(msg, 1, a)
    <3>3. s \in Seq(V) /\ x \in Seq(V)
      BY <2>4, <3>1
    <3> HIDE DEF x, s
    <3>4. (text \o s) \o x = text \o (s \o x)
      BY <3>2, <3>3, ConcatAssociative
    <3> QED
      BY <2>5, <3>4 DEF s, a, b
  <2> HIDE DEF x, Upto, chunks
  <2>7. HashOf(V, UpdateChunk(turn[i], x), Upto(i) \o x) /\ UpdateChunk(turn[i], x).L = turn[i].L
    BY <2>1, <2>4, Turned
  <2> QED
    BY <2>1, <2>2, <2>3, <2>6, <2>7
<1>8. n \in S
  <2> HIDE DEF S, n
  <2>1. Nat \subseteq S
    BY <1>6, <1>7, Numbers
  <2> QED
    BY <1>2, <2>1
<1>9. HashOf(V, turn[n], Upto(n)) /\ turn[n].L = long
  BY <1>2, <1>8
<1>10. Upto(n) = text \o msg
  BY ChunksAre, SubSeqFull
<1> QED
  BY <1>1, <1>9, <1>10 DEF long
-----------------------------------------------------------------------------
(* The two halves of a buffer.                                             *)
LEMMA HalvesOf ==
  ASSUME NEW V, NEW m \in [1 .. BufferSize -> V]
  PROVE  /\ FirstBlock(m) \in Seq(V) /\ Len(FirstBlock(m)) = BLOCK_SIZE
         /\ SecondBlock(m) \in Seq(V) /\ Len(SecondBlock(m)) = BLOCK_SIZE
         /\ \A j \in 1 .. BLOCK_SIZE : FirstBlock(m)[j] = m[j] /\ SecondBlock(m)[j] = m[BLOCK_SIZE + j]
<1> DEFINE B == BLOCK_SIZE
<1>1. B \in Nat \ {0} /\ BufferSize = 2 * B /\ BufferSize \in Nat \ {0}
  BY Sizes
<1> HIDE DEF B
<1>2. /\ \A i \in 1 .. B : m[i] \in V
      /\ \A i \in B + 1 .. BufferSize : m[i] \in V
  BY <1>1
<1>3. /\ FirstBlock(m) \in Seq(V) /\ Len(FirstBlock(m)) = B - 1 + 1
      /\ \A j \in 1 .. B - 1 + 1 : FirstBlock(m)[j] = m[1 + j - 1]
  BY <1>1, <1>2, SubSeqProperties DEF FirstBlock, B
<1>4. B + 1 \in Int /\ BufferSize \in Int /\ B + 1 <= BufferSize /\ BufferSize - (B + 1) + 1 = B
  BY <1>1
<1>5. /\ SecondBlock(m) \in Seq(V) /\ Len(SecondBlock(m)) = BufferSize - (B + 1) + 1
      /\ \A j \in 1 .. BufferSize - (B + 1) + 1 : SecondBlock(m)[j] = m[B + 1 + j - 1]
  BY <1>2, <1>4, SubSeqProperties DEF SecondBlock, B
<1>6. ASSUME NEW j \in 1 .. B PROVE FirstBlock(m)[j] = m[j] /\ SecondBlock(m)[j] = m[B + j]
  <2>1. 1 + j - 1 = j /\ B + 1 + j - 1 = B + j /\ B - 1 + 1 = B
    BY <1>1
  <2>2. j \in 1 .. B - 1 + 1 /\ j \in 1 .. BufferSize - (B + 1) + 1
    BY <1>4, <2>1
  <2> QED
    BY <1>3, <1>5, <2>1, <2>2
<1>7. B - 1 + 1 = B
  BY <1>1
<1> QED
  BY <1>3, <1>4, <1>5, <1>6, <1>7 DEF B

(* The padding of a text of this length, behind what is left of it, and    *)
(* the blocks that end its hash, in the order they are compressed in.      *)
EndingSize(text) == (IF PadFits(Left(text)) THEN BLOCK_SIZE ELSE BufferSize) - Left(text)
Ending(text, L) ==
  (<<Mark>> \o Repeat(Nul, EndingSize(text) - 1 - (LENGTH_SIZE \div 2)))
    \o Repeat(<<"len", L>>, LENGTH_SIZE \div 2)
FirstEnd(text, L) == SubSeq(Rest(text) \o Ending(text, L), 1, BLOCK_SIZE)
LastEnd(text, L) == SubSeq(Rest(text) \o Ending(text, L), BLOCK_SIZE + 1, BufferSize)
Final(text, L) ==
  IF PadFits(Left(text)) THEN <<FirstEnd(text, L)>>
  ELSE IF Half(BlocksOf(text)) = 0 THEN <<FirstEnd(text, L), LastEnd(text, L)>>
  ELSE <<LastEnd(text, L), FirstEnd(text, L)>>

(* A text of one byte, repeated.                                           *)
LEMMA RepeatIs ==
  ASSUME NEW V, NEW x \in V, NEW n \in Nat
  PROVE  Repeat(x, n) \in Seq(V) /\ Len(Repeat(x, n)) = n
BY DEF Repeat

(* The padding fills up one block, or two.                                 *)
LEMMA EndingIs ==
  ASSUME NEW V, NEW text \in Seq(V), NEW L, Mark \in V, Nul \in V, <<"len", L>> \in V
  PROVE  /\ Ending(text, L) \in Seq(V) /\ Len(Ending(text, L)) = EndingSize(text)
         /\ EndingSize(text) \in Nat
         /\ Left(text) + EndingSize(text) = IF PadFits(Left(text)) THEN BLOCK_SIZE ELSE BufferSize
<1> DEFINE low == LENGTH_SIZE \div 2
           size == EndingSize(text)
           zeros == size - 1 - low
           r == Left(text)
<1>1. /\ r \in Nat /\ r < BLOCK_SIZE /\ BLOCK_SIZE \in Nat /\ BufferSize = 2 * BLOCK_SIZE
      /\ low \in Nat /\ low < LENGTH_SIZE /\ LENGTH_SIZE \in Nat /\ LENGTH_SIZE <= BLOCK_SIZE - 2
  BY PartsOf, Sizes
<1> HIDE DEF low, r
<1>2. size \in Nat /\ zeros \in Nat /\ r + size = IF PadFits(r) THEN BLOCK_SIZE ELSE BufferSize
  BY <1>1 DEF EndingSize, PadFits, r
<1> HIDE DEF size, zeros
<1>3. <<Mark>> \in Seq(V) /\ Len(<<Mark>>) = 1
  OBVIOUS
<1>4. Repeat(Nul, zeros) \in Seq(V) /\ Len(Repeat(Nul, zeros)) = zeros
  BY <1>2, RepeatIs
<1>5. Repeat(<<"len", L>>, low) \in Seq(V) /\ Len(Repeat(<<"len", L>>, low)) = low
  BY <1>1, RepeatIs
<1>6. <<Mark>> \o Repeat(Nul, zeros) \in Seq(V) /\ Len(<<Mark>> \o Repeat(Nul, zeros)) = 1 + zeros
  BY <1>3, <1>4, ConcatProperties
<1>7. /\ (<<Mark>> \o Repeat(Nul, zeros)) \o Repeat(<<"len", L>>, low) \in Seq(V)
      /\ Len((<<Mark>> \o Repeat(Nul, zeros)) \o Repeat(<<"len", L>>, low)) = (1 + zeros) + low
  BY <1>5, <1>6, ConcatProperties
<1>8. (1 + zeros) + low = size
  BY <1>1, <1>2 DEF zeros
<1> QED
  BY <1>2, <1>7, <1>8 DEF Ending, size, zeros, low, r

(* Where the code puts the padding of a text.                              *)
LEMMA PadIs ==
  ASSUME NEW V, NEW c, NEW text, HashOf(V, c, text)
  PROVE  /\ Pad(c.p).size = EndingSize(text)
         /\ Pad(c.p).halves = IF ~PadFits(Left(text)) THEN <<1, 2>>
                              ELSE IF Half(BlocksOf(text)) = 0 THEN <<1>> ELSE <<2>>
<1> DEFINE B == BLOCK_SIZE
           r == Left(text)
           at == Half(BlocksOf(text))
           p == c.p
<1>1. r \in Nat /\ r < B /\ BlocksOf(text) \in Nat
  BY PartsOf DEF HashOf
<1>2. /\ B \in Nat \ {0} /\ BufferSize = 2 * B /\ LENGTH_SIZE \in Nat
  BY Sizes
<1>3. at \in {0, B} /\ p = at + r
  BY <1>1, Halves DEF HashOf
<1> HIDE DEF B, r, at, p
<1>4. CASE at = 0
  <2>1. p = r /\ ~(p >= B)
    BY <1>1, <1>2, <1>3, <1>4
  <2>2. p % B = r
    <3>1. p = B * 0 + r
      BY <1>1, <1>2, <2>1
    <3> QED
      BY <1>1, <1>2, <3>1, Divided
  <2>3. Pad(p) = IF PadFits(r) THEN [size |-> B - r, halves |-> <<1>>]
                 ELSE [size |-> BufferSize - r, halves |-> <<1, 2>>]
    BY <2>1, <2>2 DEF Pad, B
  <2> QED
    BY <1>4, <2>3 DEF EndingSize, B, r, at, p
<1>5. CASE at = B
  <2>1. p = B + r /\ p >= B /\ p - B = r /\ BufferSize - p = B - r /\ ~PadFits(p) /\ at # 0
    BY <1>1, <1>2, <1>3, <1>5 DEF PadFits, B
  <2>2. p % B = r
    <3>1. PICK one \in Nat : one = 1
      OBVIOUS
    <3>2. p = B * one + r
      BY <1>1, <1>2, <2>1, <3>1
    <3>3. p \in Nat
      BY <1>1, <1>2, <2>1
    <3> QED
      BY <1>1, <1>2, <3>2, <3>3, Divided
  <2>3. Pad(p) = IF PadFits(r) THEN [size |-> B - r, halves |-> <<2>>]
                 ELSE [size |-> BufferSize - r, halves |-> <<1, 2>>]
    BY <2>1, <2>2 DEF Pad, B
  <2> QED
    BY <2>1, <2>3 DEF EndingSize, B, r, at, p
<1> QED
  BY <1>3, <1>4, <1>5
(* Fini: the blocks of the text, and the padded ones; nothing else that is *)
(* in the buffer counts.                                                   *)
LEMMA Finished ==
  ASSUME NEW V, NEW c, NEW text, HashOf(V, c, text), Mark \in V, Nul \in V, <<"len", c.L>> \in V
  PROVE  ShaFini(c) = c.h \o Final(text, c.L)
<1> DEFINE B == BLOCK_SIZE
           r == Left(text)
           at == Half(BlocksOf(text))
           rest == Rest(text)
           pad == Ending(text, c.L)
           end == rest \o pad
           m == Stored(c.m, c.p, pad)
           one == SubSeq(end, 1, B)
           two == SubSeq(end, B + 1, BufferSize)
           fits == PadFits(r)
<1>1. B \in Nat \ {0} /\ BufferSize = 2 * B /\ BufferSize \in Nat
  BY Sizes
<1>2. /\ text \in Seq(V) /\ r \in Nat /\ r < B /\ BlocksOf(text) \in Nat
      /\ rest \in Seq(V) /\ Len(rest) = r
  BY PartsOf DEF HashOf
<1>3. at \in {0, B}
  BY <1>2, Halves
<1>4. /\ pad \in Seq(V) /\ Len(pad) = EndingSize(text) /\ EndingSize(text) \in Nat
      /\ r + EndingSize(text) = IF fits THEN B ELSE BufferSize
  BY <1>2, EndingIs
<1>5. /\ end \in Seq(V) /\ Len(end) = IF fits THEN B ELSE BufferSize
  <2> HIDE DEF rest, pad, r, fits
  <2>1. end \in Seq(V) /\ Len(end) = Len(rest) + Len(pad)
    BY <1>2, <1>4, ConcatProperties
  <2> HIDE DEF end
  <2> QED
    BY <1>2, <1>4, <2>1
<1>6. /\ m \in [1 .. BufferSize -> V]
      /\ \A j \in 1 .. Len(end) : m[Place(at, j)] = end[j]
  <2>1. PICK cm, a : cm = c.m /\ a = at
    OBVIOUS
  <2>2. Kept(V, cm, a, rest)
    BY <2>1 DEF HashOf
  <2>3. Len(rest) + Len(pad) <= BufferSize
    <3> HIDE DEF rest, pad, r, fits, B
    <3> QED
      BY <1>1, <1>2, <1>4
  <2>4. /\ Stored(cm, a + Len(rest), pad) \in [1 .. BufferSize -> V]
        /\ \A j \in 1 .. Len(rest) + Len(pad) : Stored(cm, a + Len(rest), pad)[Place(a, j)] = (rest \o pad)[j]
    <3> HIDE DEF rest, pad
    <3> QED
      <4>1. pad \in Seq(V)
        BY <1>4
      <4> QED
        BY <2>2, <2>3, <4>1, StoredBehind
  <2>5. c.p = at + r
    BY DEF HashOf
  <2> HIDE DEF rest, pad, r, at
  <2>6. m = Stored(cm, a + Len(rest), pad)
    BY <1>2, <2>1, <2>5
  <2>7. Len(end) = Len(rest) + Len(pad)
    BY <1>2, <1>4, ConcatProperties
  <2> HIDE DEF m
  <2> QED
    BY <2>1, <2>4, <2>6, <2>7
<1> HIDE DEF rest, pad, r, at, m, end, fits
<1>7. /\ Len(FirstBlock(m)) = B /\ FirstBlock(m) \in Seq(V)
      /\ Len(SecondBlock(m)) = B /\ SecondBlock(m) \in Seq(V)
      /\ \A j \in 1 .. B : FirstBlock(m)[j] = m[j] /\ SecondBlock(m)[j] = m[B + j]
  BY <1>6, HalvesOf
<1> HIDE DEF B
<1>8. /\ one \in Seq(V) /\ Len(one) = B /\ \A j \in 1 .. B : one[j] = end[j]
  <2>1. \A j \in 1 .. B : end[j] \in V
    BY <1>1, <1>5, ElementOfSeq
  <2>2. /\ one \in Seq(V) /\ Len(one) = B - 1 + 1
        /\ \A j \in 1 .. B - 1 + 1 : one[j] = end[1 + j - 1]
    BY <1>1, <2>1, SubSeqProperties
  <2>3. B - 1 + 1 = B /\ \A j \in 1 .. B : 1 + j - 1 = j
    BY <1>1
  <2> HIDE DEF one
  <2>4. ASSUME NEW j \in 1 .. B PROVE one[j] = end[j]
    BY <2>2, <2>3
  <2> QED
    BY <2>2, <2>3, <2>4
<1> HIDE DEF one
<1>9. ~fits => two \in Seq(V) /\ Len(two) = B /\ \A j \in 1 .. B : two[j] = end[B + j]
  <2> SUFFICES ASSUME ~fits PROVE two \in Seq(V) /\ Len(two) = B /\ \A j \in 1 .. B : two[j] = end[B + j]
    OBVIOUS
  <2>1. \A j \in B + 1 .. BufferSize : end[j] \in V
    BY <1>1, <1>5, ElementOfSeq
  <2>2. B + 1 \in Int /\ BufferSize \in Int /\ B + 1 <= BufferSize /\ BufferSize - (B + 1) + 1 = B
    BY <1>1
  <2>3. /\ two \in Seq(V) /\ Len(two) = BufferSize - (B + 1) + 1
        /\ \A j \in 1 .. BufferSize - (B + 1) + 1 : two[j] = end[B + 1 + j - 1]
    BY <2>1, <2>2, SubSeqProperties
  <2> HIDE DEF two
  <2>4. ASSUME NEW j \in 1 .. B PROVE two[j] = end[B + j]
    <3>1. B + 1 + j - 1 = B + j
      BY <1>1
    <3> QED
      BY <2>2, <2>3, <3>1
  <2> QED
    BY <2>2, <2>3, <2>4
<1> HIDE DEF two
<1>10. (at = 0 => one = FirstBlock(m)) /\ (at = B => one = SecondBlock(m))
  <2>1. ASSUME NEW j \in 1 .. B PROVE m[Place(at, j)] = one[j] /\ Place(at, j) = at + j
    <3>1. j \in 1 .. Len(end)
      BY <1>1, <1>5
    <3>2. Place(at, j) = at + j
      BY <1>1, <1>3 DEF Place
    <3> QED
      BY <1>6, <1>8, <3>1, <3>2
  <2>2. CASE at = 0
    <3>1. ASSUME NEW j \in 1 .. B PROVE one[j] = FirstBlock(m)[j]
      <4>1. at + j = j
        BY <2>2
      <4> QED
        BY <1>7, <2>1, <4>1
    <3>2. one = FirstBlock(m)
      BY <1>7, <1>8, <3>1, SeqEqual
    <3> QED
      BY <1>1, <2>2, <3>2
  <2>3. CASE at = B
    <3>1. ASSUME NEW j \in 1 .. B PROVE one[j] = SecondBlock(m)[j]
      BY <1>7, <2>1, <2>3
    <3>2. one = SecondBlock(m)
      BY <1>7, <1>8, <3>1, SeqEqual
    <3> QED
      BY <1>1, <2>3, <3>2
  <2> QED
    BY <1>3, <2>2, <2>3
<1>11. ~fits => (at = 0 => two = SecondBlock(m)) /\ (at = B => two = FirstBlock(m))
  <2> SUFFICES ASSUME ~fits PROVE (at = 0 => two = SecondBlock(m)) /\ (at = B => two = FirstBlock(m))
    OBVIOUS
  <2>1. ASSUME NEW j \in 1 .. B PROVE m[Place(at, B + j)] = two[j]
    <3>1. B + j \in 1 .. Len(end)
      BY <1>1, <1>5
    <3> QED
      BY <1>6, <1>9, <3>1
  <2>2. CASE at = 0
    <3>1. ASSUME NEW j \in 1 .. B PROVE two[j] = SecondBlock(m)[j]
      <4>1. Place(at, B + j) = B + j
        BY <1>1, <2>2 DEF Place
      <4> QED
        BY <1>7, <2>1, <4>1
    <3>2. two = SecondBlock(m)
      BY <1>7, <1>9, <3>1, SeqEqual
    <3> QED
      BY <1>1, <2>2, <3>2
  <2>3. CASE at = B
    <3>1. ASSUME NEW j \in 1 .. B PROVE two[j] = FirstBlock(m)[j]
      <4>1. Place(at, B + j) = j
        BY <1>1, <2>3 DEF Place
      <4> QED
        BY <1>7, <2>1, <4>1
    <3>2. two = FirstBlock(m)
      BY <1>7, <1>9, <3>1, SeqEqual
    <3> QED
      BY <1>1, <2>3, <3>2
  <2> QED
    BY <1>3, <2>2, <2>3
<1> DEFINE H(i) == IF i = 1 THEN FirstBlock(m) ELSE SecondBlock(m)
           halves == Pad(c.p).halves
<1>12. /\ Pad(c.p).size = EndingSize(text)
       /\ halves = IF ~fits THEN <<1, 2>> ELSE IF at = 0 THEN <<1>> ELSE <<2>>
  BY PadIs DEF fits, at, r
<1>13. ShaFini(c) = c.h \o [i \in DOMAIN halves |-> H(halves[i])]
  BY <1>12 DEF ShaFini, Ending, m, pad
<1>14. [i \in DOMAIN halves |-> H(halves[i])] =
         IF ~fits THEN <<FirstBlock(m), SecondBlock(m)>>
         ELSE IF at = 0 THEN <<FirstBlock(m)>> ELSE <<SecondBlock(m)>>
  <2> HIDE DEF halves
  <2> QED
    BY <1>12
<1>15. Final(text, c.L) = IF fits THEN <<one>> ELSE IF at = 0 THEN <<one, two>> ELSE <<two, one>>
  BY DEF Final, FirstEnd, LastEnd, one, two, end, rest, pad, fits, at, r, B
<1>16. [i \in DOMAIN halves |-> H(halves[i])] = Final(text, c.L)
  <2> DEFINE hs == [i \in DOMAIN halves |-> H(halves[i])]
  <2> HIDE DEF hs, halves, H
  <2>1. B # 0
    BY <1>1
  <2>2. CASE at = 0
    BY <1>10, <1>11, <1>14, <1>15, <2>2 DEF hs
  <2>3. CASE at = B
    BY <1>10, <1>11, <1>14, <1>15, <2>1, <2>3 DEF hs
  <2> QED
    BY <1>3, <2>2, <2>3 DEF hs
<1> QED
  BY <1>13, <1>16
(* What is a hash of a text is one of it among more bytes.                 *)
LEMMA MoreBytes ==
  ASSUME NEW V, NEW W, V \subseteq W, NEW c, NEW text, HashOf(V, c, text)
  PROVE  HashOf(W, c, text)
<1>1. text \in Seq(W)
  BY SeqMonotonic DEF HashOf
<1>2. c.h \in Seq(Seq(W))
  <2>1. \A s \in Seq(V) : s \in Seq(W)
    BY SeqMonotonic
  <2>2. Seq(V) \subseteq Seq(W)
    BY <2>1
  <2> QED
    BY <2>2, SeqMonotonic DEF HashOf
<1>3. Kept(W, c.m, Half(BlocksOf(text)), Rest(text))
  <2>1. Rest(text) \in Seq(W)
    BY <1>1, PartsOf
  <2>2. c.m \in [1 .. BufferSize -> W]
    BY DEF HashOf, Kept
  <2> QED
    BY <2>1, <2>2 DEF HashOf, Kept
<1> QED
  BY <1>1, <1>2, <1>3 DEF HashOf
(* A hash is that of its text, whatever the pieces it came in and whatever *)
(* the buffer held.                                                        *)
LEMMA OneHashOfText ==
  ASSUME NEW V, NEW c, NEW d, NEW text, HashOf(V, c, text), HashOf(V, d, text), c.L = d.L
  PROVE  ShaFini(c) = ShaFini(d)
<1> DEFINE W == V \cup {Mark, Nul, <<"len", c.L>>}
<1>1. HashOf(W, c, text) /\ HashOf(W, d, text)
  BY MoreBytes
<1> HIDE DEF W
<1>2. Mark \in W /\ Nul \in W /\ <<"len", c.L>> \in W
  BY DEF W
<1>3. ShaFini(c) = c.h \o Final(text, c.L) /\ ShaFini(d) = d.h \o Final(text, c.L)
  BY <1>1, <1>2, Finished
<1>4. c.h = d.h
  <2>1. /\ c.h \in Seq(Seq(V)) /\ d.h \in Seq(Seq(V)) /\ Len(c.h) = Len(d.h)
        /\ \A i \in 1 .. Len(c.h) : c.h[i] = d.h[i]
    BY DEF HashOf
  <2> QED
    BY <2>1, SeqEqual
<1> QED
  BY <1>3, <1>4

(* A hash that was fed nothing.                                            *)
LEMMA EmptyHash ==
  ASSUME NEW V, <<"old">> \in V
  PROVE  HashOf(V, ShaInit, <<>>)
<1>1. <<>> \in Seq(V) /\ Len(<<>>) = 0 /\ <<>> \in Seq(Seq(V))
  BY EmptySeq
<1>2. BlocksOf(<<>>) = 0 /\ Left(<<>>) = 0
  <2>1. 0 = BLOCK_SIZE * 0 + 0
    BY Sizes
  <2>2. 0 \div BLOCK_SIZE = 0 /\ 0 % BLOCK_SIZE = 0
    BY <2>1, Sizes, Divided
  <2> QED
    BY <1>1, <2>2 DEF BlocksOf, Left
<1>3. Half(0) = 0
  <2>1. 0 % 2 = 0
    OBVIOUS
  <2> QED
    BY <2>1 DEF Half
<1>4. Rest(<<>>) \in Seq(V) /\ Len(Rest(<<>>)) = 0
  BY <1>1, <1>2, PartsOf
<1>5. ShaInit.m \in [1 .. BufferSize -> V]
  BY Sizes DEF ShaInit, Repeat
<1>6. Kept(V, ShaInit.m, 0, Rest(<<>>))
  BY <1>4, <1>5, Sizes DEF Kept
<1>7. /\ ShaInit.h = <<>> /\ ShaInit.p = 0 /\ ShaInit.L = 0
      /\ ShaInit = [h |-> ShaInit.h, m |-> ShaInit.m, p |-> ShaInit.p, L |-> ShaInit.L]
  BY DEF ShaInit
<1> QED
  BY <1>1, <1>2, <1>3, <1>6, <1>7 DEF HashOf

(* Calc is the hash of its text.                                           *)
LEMMA CalcIs ==
  ASSUME NEW V, <<"old">> \in V, NEW text \in Seq(V), NEW c, HashOf(V, c, text),
         c.L = Len(text) % LENGTH_RANGE
  PROVE  ShaGet(ShaFini(c), HASH_SIZE) = ShaCalc(text)
<1>1. HashOf(V, ShaUpdate(ShaInit, text), <<>> \o text)
      /\ ShaUpdate(ShaInit, text).L = (ShaInit.L + Len(text)) % LENGTH_RANGE
  BY EmptyHash, Updated
<1>2. <<>> \o text = text /\ ShaInit.L + Len(text) = Len(text)
  <2>1. Len(text) \in Nat /\ ShaInit.L = 0
    BY DEF ShaInit
  <2> QED
    BY <2>1, ConcatEmptySeq
<1>3. HashOf(V, ShaUpdate(ShaInit, text), text) /\ ShaUpdate(ShaInit, text).L = c.L
  BY <1>1, <1>2
<1>4. ShaFini(c) = ShaFini(ShaUpdate(ShaInit, text))
  BY <1>3, OneHashOfText
<1> QED
  BY <1>4 DEF ShaCalc
-----------------------------------------------------------------------------
(* The chunks of a text of whole blocks are its blocks.                    *)
LEMMA FullChunks ==
  ASSUME NEW V, NEW z \in Seq(V), NEW t \in Nat, Len(z) = BLOCK_SIZE * t
  PROVE  /\ Chunks(z) \in Seq(Seq(V)) /\ Len(Chunks(z)) = t
         /\ \A i \in 1 .. t : Chunks(z)[i] = SubSeq(z, (i - 1) * BLOCK_SIZE + 1, i * BLOCK_SIZE)
<1> DEFINE B == BLOCK_SIZE
           len == Len(z)
           T == (len + B - 1) \div B
           Upto(i) == IF i * B > len THEN len ELSE i * B
           Part(i) == SubSeq(z, (i - 1) * B + 1, i * B)
<1>1. B \in Nat \ {0} /\ len \in Nat /\ len = B * t
  BY Sizes
<1> HIDE DEF B, len
<1>2. T = t
  <2>1. PICK n, e \in Nat : n = len + B - 1 /\ e = B - 1
    BY <1>1
  <2>2. n = B * t + e /\ e < B
    BY <1>1, <2>1
  <2>3. n \div B = t
    BY <1>1, <2>1, <2>2, Divided
  <2> QED
    BY <2>1, <2>3
<1>3. Chunks(z) = [i \in 1 .. T |-> SubSeq(z, (i - 1) * B + 1, Upto(i))]
  BY DEF Chunks, B, len
<1> HIDE DEF T
<1>4. ASSUME NEW i \in 1 .. t PROVE Upto(i) = i * B /\ i * B \in Nat /\ i * B <= len
  <2>1. B * i <= B * t /\ i * B = B * i
    BY <1>1, Within
  <2>2. i * B \in Nat
    BY <1>1
  <2>3. i * B <= len
    BY <1>1, <2>1
  <2> QED
    BY <1>1, <2>2, <2>3
<1> HIDE DEF Upto
<1>5. Chunks(z) = [i \in 1 .. t |-> Part(i)]
  BY <1>2, <1>3, <1>4
<1>6. ASSUME NEW i \in 1 .. t PROVE Part(i) \in Seq(V)
  <2>1. i - 1 \in Nat
    OBVIOUS
  <2>2. (i - 1) * B \in Nat
    BY <1>1, <2>1
  <2>3. \A j \in (i - 1) * B + 1 .. i * B : z[j] \in V
    <3>1. ASSUME NEW j \in (i - 1) * B + 1 .. i * B PROVE j \in 1 .. Len(z)
      BY <1>1, <1>4, <2>2 DEF len
    <3> QED
      BY <3>1, ElementOfSeq
  <2>4. (i - 1) * B + 1 \in Int /\ i * B \in Int
    BY <1>4, <2>2
  <2> QED
    BY <2>3, <2>4, SubSeqProperties
<1> HIDE DEF Part
<1>7. Chunks(z) \in Seq(Seq(V)) /\ DOMAIN Chunks(z) = 1 .. t
  BY <1>5, <1>6
<1>8. Len(Chunks(z)) = t
  BY <1>7, LenProperties
<1> QED
  BY <1>5, <1>7, <1>8 DEF Part, B

(* A part of what is left of a longer text is a part of that text.         *)
LEMMA PartOfLonger ==
  ASSUME NEW V, NEW text \in Seq(V), NEW x \in Seq(V), NEW a \in Nat, NEW b \in Nat, a <= b,
         b <= Left(text) + Len(x)
  PROVE  SubSeq(Rest(text) \o x, a + 1, b)
         = SubSeq(text \o x, BLOCK_SIZE * BlocksOf(text) + a + 1, BLOCK_SIZE * BlocksOf(text) + b)
<1> DEFINE f == BLOCK_SIZE * BlocksOf(text)
           end == Rest(text) \o x
           z == text \o x
           n == Left(text) + Len(x)
<1>1. /\ f \in Nat /\ n \in Nat /\ z \in Seq(V) /\ Len(z) = f + n /\ end \in Seq(V) /\ Len(end) = n
      /\ \A j \in 1 .. n : end[j] = z[f + j]
  <2>1. Left(text) \in Nat /\ Len(x) \in Nat /\ f \in Nat
    BY PartsOf
  <2> QED
    <3>1. /\ text \o x \in Seq(V)
          /\ Len(text \o x) = BLOCK_SIZE * BlocksOf(text) + (Left(text) + Len(x))
          /\ Rest(text) \o x \in Seq(V) /\ Len(Rest(text) \o x) = Left(text) + Len(x)
          /\ \A j \in 1 .. Left(text) + Len(x) :
                (Rest(text) \o x)[j] = (text \o x)[BLOCK_SIZE * BlocksOf(text) + j]
      BY LongerText
    <3>2. n \in Nat
      BY <2>1
    <3> QED
      BY <2>1, <3>1, <3>2
<1>2. b <= n
  OBVIOUS
<1> HIDE DEF f, end, z, n
<1>3. \A j \in a + 1 .. b : end[j] \in V
  BY <1>1, <1>2, ElementOfSeq
<1>4. \A j \in f + a + 1 .. f + b : z[j] \in V
  <2>1. ASSUME NEW j \in f + a + 1 .. f + b PROVE j \in 1 .. Len(z)
    BY <1>1, <1>2
  <2> QED
    BY <1>1, <2>1, ElementOfSeq
<1> DEFINE u == SubSeq(end, a + 1, b)
           v == SubSeq(z, f + a + 1, f + b)
<1>5. /\ u \in Seq(V) /\ Len(u) = IF a + 1 <= b THEN b - (a + 1) + 1 ELSE 0
      /\ \A j \in 1 .. b - (a + 1) + 1 : u[j] = end[a + 1 + j - 1]
  BY <1>3, SubSeqProperties
<1>6. f + a + 1 \in Int /\ f + b \in Int
  BY <1>1
<1>7. /\ v \in Seq(V) /\ Len(v) = IF f + a + 1 <= f + b THEN (f + b) - (f + a + 1) + 1 ELSE 0
      /\ \A j \in 1 .. (f + b) - (f + a + 1) + 1 : v[j] = z[f + a + 1 + j - 1]
  BY <1>4, <1>6, SubSeqProperties
<1> HIDE DEF u, v
<1>8. Len(u) = b - a /\ Len(v) = b - a
  BY <1>1, <1>5, <1>7
<1>9. ASSUME NEW j \in 1 .. b - a PROVE u[j] = v[j]
  <2>1. b - (a + 1) + 1 = b - a /\ (f + b) - (f + a + 1) + 1 = b - a
    BY <1>1
  <2>2. a + 1 + j - 1 = a + j /\ f + a + 1 + j - 1 = f + (a + j)
    BY <1>1
  <2>3. a + j \in 1 .. n
    BY <1>1, <1>2
  <2> QED
    BY <1>1, <1>5, <1>7, <2>1, <2>2, <2>3
<1>10. u = v
  BY <1>5, <1>7, <1>8, <1>9, SeqEqual
<1> QED
  BY <1>10 DEF u, v, end, z, f

(* The padding of the standard is the code's unless it is misplaced.       *)
LEMMA PaddedIs ==
  ASSUME NEW V, NEW text \in Seq(V), ~Misplaced(Len(text)), Mark \in V, Nul \in V,
         <<"len", Len(text)>> \in V
  PROVE  /\ Padded(text) = text \o Ending(text, Len(text))
         /\ ~PadFits(Left(text)) => Half(BlocksOf(text)) = 0
<1> DEFINE B == BLOCK_SIZE
           n == Len(text)
           q == BlocksOf(text)
           r == Left(text)
           f == B * q
           LS == LENGTH_SIZE
           low == LS \div 2
           used == n + 1 + LS
           zeros == (B - (used % B)) % B
<1>1. /\ B \in Nat \ {0} /\ BufferSize = 2 * B /\ BufferSize \in Nat \ {0}
      /\ LS \in Nat /\ LS >= 2 /\ LS <= B - 2 /\ low \in Nat /\ low < LS
  BY Sizes
<1>2. n \in Nat /\ q \in Nat /\ r \in Nat /\ r < B /\ n = f + r /\ f \in Nat
  BY PartsOf
<1>3. n % BufferSize = Half(q) + r /\ (Half(q) + r) % B = r /\ Half(q) \in {0, B}
  <2> DEFINE at == Half(q)
  <2>1. at \in {0, B} /\ at = IF q % 2 = 0 THEN 0 ELSE B
    BY <1>2, Halves DEF Half
  <2> HIDE DEF at, q, r, n, B
  <2>2. q = 2 * (q \div 2) + (q % 2) /\ q % 2 \in {0, 1} /\ q \div 2 \in Nat
    BY <1>2
  <2>3. PICK h \in Nat : h = q \div 2
    BY <2>2
  <2>4. B * (2 * h) = BufferSize * h
    BY <1>1
  <2>5. f = BufferSize * h + at
    <3>1. CASE q % 2 = 0
      <4>1. q = 2 * h
        BY <2>2, <2>3, <3>1
      <4>2. BufferSize * h \in Nat
        BY <1>1
      <4> QED
        BY <2>1, <2>4, <3>1, <4>1, <4>2
    <3>2. CASE q % 2 = 1
      <4>1. q = 2 * h + 1
        BY <2>2, <2>3, <3>2
      <4>2. B * (2 * h + 1) = B * (2 * h) + B
        BY <1>1
      <4> QED
        BY <2>1, <2>4, <3>2, <4>1, <4>2
    <3> QED
      BY <2>2, <3>1, <3>2
  <2>6. PICK e \in Nat : e = at + r
    BY <1>1, <1>2, <2>1
  <2>7. e < BufferSize
    BY <1>1, <1>2, <2>1, <2>6
  <2>8. n = BufferSize * h + e
    <3>1. BufferSize * h \in Nat
      BY <1>1
    <3> HIDE DEF f
    <3> QED
      BY <1>1, <1>2, <2>1, <2>5, <2>6, <3>1
  <2>9. n % BufferSize = e
    BY <1>1, <2>7, <2>8, Divided
  <2>10. e % B = r
    <3>1. CASE at = 0
      <4>1. e = B * 0 + r
        BY <1>1, <1>2, <2>6, <3>1
      <4> QED
        BY <1>1, <1>2, <4>1, Divided
    <3>2. CASE at = B
      <4>1. PICK one \in Nat : one = 1
        OBVIOUS
      <4>2. e = B * one + r
        BY <1>1, <1>2, <2>6, <3>2, <4>1
      <4> QED
        BY <1>1, <1>2, <4>2, Divided
    <3> QED
      BY <2>1, <3>1, <3>2
  <2> QED
    BY <2>1, <2>6, <2>9, <2>10 DEF at
<1>4. r # B - LS - 1 /\ ~(Half(q) + r >= BufferSize - LS - 1)
  <2> HIDE DEF q, r, n
  <2> QED
    BY <1>3 DEF Misplaced, n
<1> HIDE DEF q, r, n, B, LS, f
<1>5. ~PadFits(r) => Half(q) = 0
  BY <1>1, <1>2, <1>3, <1>4 DEF PadFits, B, LS
<1>6. zeros = EndingSize(text) - 1 - LS
  <2> DEFINE rest == r + 1 + LS
  <2>1. rest \in Nat /\ used = f + rest
    BY <1>1, <1>2
  <2>2. CASE PadFits(r)
    <3>1. rest < B /\ EndingSize(text) = B - r
      BY <1>1, <1>2, <2>2 DEF PadFits, EndingSize, B, LS, r
    <3>2. used % B = rest
      <4>1. PICK m \in Nat : m = used
        BY <1>1, <1>2
      <4> HIDE DEF used, rest
      <4>2. m = B * q + rest
        BY <2>1, <4>1 DEF f
      <4> QED
        <5>1. rest \in Nat /\ rest < B /\ q \in Nat /\ B \in Nat \ {0}
          BY <1>1, <1>2, <2>1, <3>1
        <5>2. m % B = rest
          BY <4>2, <5>1, Divided
        <5> QED
          BY <4>1, <5>2
    <3>3. zeros = B - rest
      <4>1. PICK m \in Nat : m = B - rest
        BY <1>1, <2>1, <3>1
      <4>2. m = B * 0 + m /\ m < B
        BY <1>1, <1>2, <4>1
      <4>3. m % B = m
        BY <1>1, <4>2, Divided
      <4> HIDE DEF used, rest
      <4> QED
        BY <3>2, <4>1, <4>3
    <3> HIDE DEF zeros
    <3> QED
      BY <1>1, <1>2, <3>1, <3>3
  <2>3. CASE ~PadFits(r)
    <3>1. rest - B \in Nat /\ rest - B < B /\ rest - B > 0 /\ EndingSize(text) = BufferSize - r
      BY <1>1, <1>2, <1>4, <2>3 DEF PadFits, EndingSize, B, LS, r
    <3>2. used % B = rest - B
      <4>1. PICK m \in Nat, e \in Nat, k \in Nat : m = used /\ e = rest - B /\ k = q + 1
        BY <1>1, <1>2, <3>1
      <4>2. B * k = f + B
        BY <1>1, <1>2, <4>1 DEF f
      <4>3. m = B * k + e
        BY <1>1, <1>2, <2>1, <4>1, <4>2
      <4> HIDE DEF used, rest
      <4> QED
        <5>1. e \in Nat /\ e < B /\ k \in Nat /\ B \in Nat \ {0}
          BY <1>1, <3>1, <4>1
        <5>2. m % B = e
          BY <4>3, <5>1, Divided
        <5> QED
          BY <4>1, <5>2
    <3>3. zeros = BufferSize - rest
      <4>1. PICK m \in Nat : m = BufferSize - rest
        BY <1>1, <2>1, <3>1
      <4>2. m = B * 0 + m /\ m < B /\ B - (rest - B) = m
        BY <1>1, <1>2, <2>1, <3>1, <4>1
      <4>3. m % B = m
        BY <1>1, <4>2, Divided
      <4> HIDE DEF used, rest
      <4> QED
        BY <3>2, <4>1, <4>2, <4>3
    <3> HIDE DEF zeros
    <3> QED
      BY <1>1, <1>2, <3>1, <3>3
  <2> QED
    BY <2>2, <2>3
<1>7. Padded(text) = ((text \o <<Mark>>) \o Repeat(Nul, zeros + LS - low)) \o Repeat(<<"len", n>>, low)
  BY DEF Padded, n, B, LS
<1> HIDE DEF zeros, low, used
<1>8. zeros + LS - low = EndingSize(text) - 1 - low /\ EndingSize(text) - 1 - low \in Nat
  <2>1. EndingSize(text) \in Nat /\ EndingSize(text) = (IF PadFits(r) THEN B ELSE BufferSize) - r
    BY <1>1, <1>2 DEF EndingSize, r, B
  <2>2. EndingSize(text) >= 1 + LS
    BY <1>1, <1>2, <2>1 DEF PadFits, B, LS
  <2> QED
    BY <1>1, <1>6, <2>1, <2>2
<1> DEFINE k == EndingSize(text) - 1 - low
           a == Repeat(Nul, k)
           b == Repeat(<<"len", n>>, low)
           one == <<Mark>>
<1>9. one \in Seq(V) /\ a \in Seq(V) /\ b \in Seq(V)
  <2>1. one \in Seq(V)
    OBVIOUS
  <2>2. a \in Seq(V)
    BY <1>8, RepeatIs
  <2>3. b \in Seq(V)
    BY <1>1, RepeatIs DEF n
  <2> QED
    BY <2>1, <2>2, <2>3
<1>10. Padded(text) = ((text \o one) \o a) \o b
  BY <1>7, <1>8
<1>11. Ending(text, n) = (one \o a) \o b
  BY DEF Ending, low, LS
<1> HIDE DEF one, a, b, k
<1>12. (text \o one) \o a = text \o (one \o a)
  BY <1>9, ConcatAssociative
<1>13. one \o a \in Seq(V)
  BY <1>9, ConcatProperties
<1>14. (text \o (one \o a)) \o b = text \o ((one \o a) \o b)
  BY <1>9, <1>13, ConcatAssociative
<1> QED
  BY <1>5, <1>10, <1>11, <1>12, <1>14 DEF n, r, q
(* A hash whose length is not misplaced is the one of the standard.        *)
LEMMA StandardIs ==
  ASSUME NEW V, NEW c, NEW text, HashOf(V, c, text), c.L = Len(text), ~Misplaced(Len(text))
  PROVE  ShaFini(c) = StandardBlocks(text)
<1> DEFINE W == V \cup {Mark, Nul, <<"len", c.L>>}
           B == BLOCK_SIZE
           q == BlocksOf(text)
           r == Left(text)
           f == B * q
           E == Ending(text, c.L)
           z == text \o E
           F == Final(text, c.L)
           more == IF PadFits(r) THEN 1 ELSE 2
           t == q + more
<1>1. HashOf(W, c, text)
  BY MoreBytes
<1>2. Mark \in W /\ Nul \in W /\ <<"len", c.L>> \in W
  OBVIOUS
<1> HIDE DEF W
<1>3. ShaFini(c) = c.h \o F
  BY <1>1, <1>2, Finished
<1>4. text \in Seq(W)
  BY <1>1 DEF HashOf
<1>5. Padded(text) = z /\ (~PadFits(r) => Half(q) = 0)
  BY <1>2, <1>4, PaddedIs
<1>6. /\ B \in Nat \ {0} /\ BufferSize = 2 * B /\ BufferSize \in Nat
      /\ q \in Nat /\ r \in Nat /\ f \in Nat /\ Len(text) = f + r
  BY <1>4, PartsOf, Sizes
<1>7. E \in Seq(W) /\ Len(E) \in Nat /\ r + Len(E) = IF PadFits(r) THEN B ELSE BufferSize
  BY <1>2, <1>4, EndingIs
<1>8. /\ z \in Seq(W) /\ Len(z) = f + (r + Len(E))
  <2> HIDE DEF E
  <2>1. z \in Seq(W) /\ Len(z) = Len(text) + Len(E)
    BY <1>4, <1>7, ConcatProperties
  <2> HIDE DEF z, f, q, r
  <2> QED
    BY <1>6, <1>7, <2>1
<1>9. Len(z) = B * t /\ t \in Nat
  <2> HIDE DEF z, q, r, E
  <2>1. CASE PadFits(r)
    <3>1. t = q + 1 /\ Len(z) = f + B
      BY <1>6, <1>7, <1>8, <2>1
    <3>2. B * (q + 1) = f + B
      BY <1>6
    <3> QED
      BY <1>6, <3>1, <3>2
  <2>2. CASE ~PadFits(r)
    <3>1. t = q + 2 /\ Len(z) = f + 2 * B
      BY <1>6, <1>7, <1>8, <2>2
    <3>2. B * (q + 2) = f + 2 * B
      BY <1>6
    <3> QED
      BY <1>6, <3>1, <3>2
  <2> QED
    BY <2>1, <2>2
<1>10. /\ Chunks(z) \in Seq(Seq(W)) /\ Len(Chunks(z)) = t
       /\ \A i \in 1 .. t : Chunks(z)[i] = SubSeq(z, (i - 1) * B + 1, i * B)
  <2> HIDE DEF z, t
  <2> QED
    BY <1>8, <1>9, FullChunks
<1>11. /\ c.h \in Seq(Seq(W)) /\ Len(c.h) = q
       /\ \A i \in 1 .. q : c.h[i] = SubSeq(text, (i - 1) * B + 1, i * B)
  BY <1>1 DEF HashOf
<1>12. ASSUME NEW i \in 1 .. q PROVE SubSeq(z, (i - 1) * B + 1, i * B) = SubSeq(text, (i - 1) * B + 1, i * B)
  <2> HIDE DEF E
  <2> QED
    BY <1>4, <1>7, BlocksStay
<1>13. FirstEnd(text, c.L) = SubSeq(z, f + 1, f + B)
  <2> DEFINE zero == 0
  <2>1. zero \in Nat /\ B \in Nat /\ zero <= B /\ B <= r + Len(E)
    BY <1>6, <1>7
  <2>2. SubSeq(Rest(text) \o E, zero + 1, B) = SubSeq(z, f + zero + 1, f + B)
    <3> HIDE DEF E, zero
    <3> QED
      BY <1>4, <1>7, <2>1, PartOfLonger
  <2>3. zero + 1 = 1 /\ f + zero + 1 = f + 1
    BY <1>6
  <2> QED
    BY <2>2, <2>3 DEF FirstEnd
<1>14. ~PadFits(r) => LastEnd(text, c.L) = SubSeq(z, f + B + 1, f + BufferSize)
  <2> SUFFICES ASSUME ~PadFits(r) PROVE LastEnd(text, c.L) = SubSeq(z, f + B + 1, f + BufferSize)
    OBVIOUS
  <2>1. B \in Nat /\ BufferSize \in Nat /\ B <= BufferSize /\ BufferSize <= r + Len(E)
    BY <1>6, <1>7
  <2>2. SubSeq(Rest(text) \o E, B + 1, BufferSize) = SubSeq(z, f + B + 1, f + BufferSize)
    <3> HIDE DEF E
    <3> QED
      BY <1>4, <1>7, <2>1, PartOfLonger
  <2> QED
    BY <2>2 DEF LastEnd
<1> DEFINE one == FirstEnd(text, c.L)
           two == LastEnd(text, c.L)
<1>15. F = IF PadFits(r) THEN <<one>> ELSE <<one, two>>
  BY <1>5 DEF Final
<1> HIDE DEF one, two
<1>16. Chunks(z)[q + 1] = one /\ (~PadFits(r) => Chunks(z)[q + 2] = two)
  <2>1. Chunks(z)[q + 1] = SubSeq(z, ((q + 1) - 1) * B + 1, (q + 1) * B)
    <3>1. q + 1 \in 1 .. t
      BY <1>6
    <3> HIDE DEF z, t, q
    <3> QED
      BY <1>10, <3>1
  <2>2. ((q + 1) - 1) * B + 1 = f + 1 /\ (q + 1) * B = f + B
    <3> HIDE DEF q
    <3>1. (q + 1) - 1 = q
      BY <1>6
    <3>2. q * B = f /\ (q + 1) * B = f + B
      BY <1>6
    <3> QED
      BY <3>1, <3>2
  <2>3. ASSUME ~PadFits(r) PROVE Chunks(z)[q + 2] = two
    <3>1. Chunks(z)[q + 2] = SubSeq(z, ((q + 2) - 1) * B + 1, (q + 2) * B)
      <4>1. q + 2 \in 1 .. t
        BY <1>6, <2>3
      <4> HIDE DEF z, t, q
      <4> QED
        BY <1>10, <4>1
    <3>2. ((q + 2) - 1) * B + 1 = f + B + 1 /\ (q + 2) * B = f + BufferSize
      <4> HIDE DEF q
      <4>1. (q + 2) - 1 = q + 1
        BY <1>6
      <4>2. (q + 1) * B = f + B /\ (q + 2) * B = f + 2 * B
        BY <1>6
      <4> QED
        BY <1>6, <4>1, <4>2
    <3> QED
      BY <1>14, <2>3, <3>1, <3>2 DEF two
  <2> QED
    BY <1>13, <2>1, <2>2, <2>3 DEF one
<1>17. one \in Seq(W) /\ (~PadFits(r) => two \in Seq(W))
  <2>1. q + 1 \in 1 .. Len(Chunks(z)) /\ (~PadFits(r) => q + 2 \in 1 .. Len(Chunks(z)))
    <3> HIDE DEF z
    <3> QED
      BY <1>6, <1>10
  <2> DEFINE ch == Chunks(z)
  <2> HIDE DEF z
  <2>2. \A i \in 1 .. Len(ch) : ch[i] \in Seq(W)
    BY <1>10, ElementOfSeq
  <2> QED
    BY <1>16, <2>1, <2>2
<1>18. F \in Seq(Seq(W)) /\ Len(F) = more /\ F[1] = one /\ (~PadFits(r) => F[2] = two)
  <2> HIDE DEF F
  <2>1. CASE PadFits(r)
    BY <1>15, <1>17, <2>1
  <2>2. CASE ~PadFits(r)
    BY <1>15, <1>17, <2>2
  <2> QED
    BY <2>1, <2>2
<1> DEFINE ch == Chunks(z)
           whole == c.h \o F
           h == c.h
<1>19. more \in {1, 2} /\ (more = 2 <=> ~PadFits(r)) /\ more \in Nat
  OBVIOUS
<1>20. /\ whole \in Seq(Seq(W)) /\ Len(whole) = q + more
       /\ \A i \in 1 .. q + more : whole[i] = IF i <= q THEN h[i] ELSE F[i - q]
  <2> HIDE DEF F, more
  <2>1. /\ h \o F \in Seq(Seq(W)) /\ Len(h \o F) = Len(h) + Len(F)
        /\ \A i \in 1 .. Len(h) + Len(F) : (h \o F)[i] = IF i <= Len(h) THEN h[i] ELSE F[i - Len(h)]
    <3>1. h \in Seq(Seq(W)) /\ F \in Seq(Seq(W))
      BY <1>11, <1>18
    <3> HIDE DEF h
    <3> QED
      BY <3>1, ConcatProperties
  <2> QED
    BY <1>11, <1>18, <2>1
<1> HIDE DEF F, more, z, q, whole, h, ch
<1>21. ASSUME NEW i \in 1 .. t PROVE whole[i] = ch[i]
  <2>1. CASE i <= q
    <3>1. i \in 1 .. q
      BY <1>6, <2>1
    <3>2. whole[i] = h[i]
      BY <1>20, <2>1
    <3> QED
      BY <1>10, <1>11, <1>12, <3>1, <3>2 DEF h, ch
  <2>2. CASE i = q + 1
    <3>1. i - q = 1 /\ ~(i <= q)
      BY <1>6, <2>2
    <3> QED
      BY <1>16, <1>18, <1>20, <2>2, <3>1 DEF ch
  <2>3. CASE i = q + 2 /\ more = 2
    <3>1. i - q = 2 /\ ~(i <= q)
      BY <1>6, <2>3
    <3> QED
      BY <1>16, <1>18, <1>19, <1>20, <2>3, <3>1 DEF ch
  <2>4. i <= q \/ i = q + 1 \/ (i = q + 2 /\ more = 2)
    BY <1>6, <1>19
  <2> QED
    BY <2>1, <2>2, <2>3, <2>4
<1>22. whole = ch
  <2>1. Len(whole) = t /\ Len(ch) = t /\ whole \in Seq(Seq(W)) /\ ch \in Seq(Seq(W))
    BY <1>10, <1>20 DEF ch
  <2> QED
    BY <1>21, <2>1, SeqEqual
<1> QED
  BY <1>3, <1>5, <1>22 DEF StandardBlocks, whole, ch, h
-----------------------------------------------------------------------------
(* The rest of a sum is that of the rest of a part of it.                  *)
LEMMA RestOfSum ==
  ASSUME NEW a \in Nat, NEW b \in Nat, NEW t \in Nat \ {0}
  PROVE  ((a % t) + b) % t = (a + b) % t
<1>1. PICK q \in Nat, r \in Nat : a = t * q + r /\ r = a % t
  <2>1. a = t * (a \div t) + (a % t) /\ a % t \in 0 .. t - 1 /\ a \div t \in Nat
    BY Divides
  <2>2. a % t \in Nat
    BY <2>1
  <2> QED
    BY <2>1, <2>2
<1>2. PICK s \in Nat : s = r + b
  OBVIOUS
<1>3. PICK p \in Nat, e \in Nat : s = t * p + e /\ e = s % t /\ e < t
  <2>1. s = t * (s \div t) + (s % t) /\ s % t \in 0 .. t - 1 /\ s \div t \in Nat
    BY Divides
  <2>2. s % t \in Nat /\ s % t < t
    BY <2>1
  <2> QED
    BY <2>1, <2>2
<1>4. PICK k \in Nat : k = q + p
  OBVIOUS
<1>5. a + b = t * k + e
  <2>1. t * k = t * q + t * p
    BY <1>4
  <2>2. t * q \in Nat /\ t * p \in Nat
    OBVIOUS
  <2> QED
    <3>1. PICK x \in Nat, y \in Nat : x = t * q /\ y = t * p
      BY <2>2
    <3>2. t * k = x + y /\ a = x + r /\ s = y + e
      BY <1>1, <1>3, <2>1, <3>1
    <3>3. t * k \in Nat
      OBVIOUS
    <3>4. PICK z \in Nat : z = t * k
      BY <3>3
    <3>5. a + b = z + e
      BY <1>2, <3>2, <3>4
    <3> QED
      BY <3>4, <3>5
<1>6. PICK n \in Nat : n = a + b
  OBVIOUS
<1>7. n % t = e
  BY <1>3, <1>5, <1>6, Divided
<1> QED
  BY <1>1, <1>2, <1>3, <1>6, <1>7

(* The hash of a text that comes in two pieces is the hash of the text     *)
(* (Sha512::update, fini), for blocks and texts of any size.               *)
THEOREM HashOfPieces ==
  ASSUME NEW S, NEW a \in Seq(S), NEW b \in Seq(S)
  PROVE  ShaFini(ShaUpdate(ShaUpdate(ShaInit, a), b)) = ShaFini(ShaUpdate(ShaInit, a \o b))
<1> DEFINE V == S \cup {<<"old">>}
           c == ShaUpdate(ShaInit, a)
           d == ShaUpdate(ShaInit, a \o b)
           e == ShaUpdate(c, b)
<1>1. a \in Seq(V) /\ b \in Seq(V) /\ HashOf(V, ShaInit, <<>>)
  BY SeqMonotonic, EmptyHash
<1> HIDE DEF V
<1>2. /\ a \o b \in Seq(V) /\ Len(a \o b) = Len(a) + Len(b) /\ Len(a) \in Nat /\ Len(b) \in Nat
      /\ <<>> \o a = a /\ <<>> \o (a \o b) = a \o b
  BY <1>1, ConcatProperties, ConcatEmptySeq
<1>3. ShaInit.L = 0
  BY DEF ShaInit
<1>4. HashOf(V, c, <<>> \o a) /\ c.L = (ShaInit.L + Len(a)) % LENGTH_RANGE
  BY <1>1, Updated
<1>5. HashOf(V, d, <<>> \o (a \o b)) /\ d.L = (ShaInit.L + Len(a \o b)) % LENGTH_RANGE
  BY <1>1, <1>2, Updated
<1> HIDE DEF c, d
<1>6. HashOf(V, e, a \o b) /\ e.L = (c.L + Len(b)) % LENGTH_RANGE
  BY <1>1, <1>2, <1>4, Updated
<1> HIDE DEF e
<1>7. c.L = Len(a) % LENGTH_RANGE /\ d.L = (Len(a) + Len(b)) % LENGTH_RANGE
  <2>1. 0 + Len(a) = Len(a) /\ 0 + Len(a \o b) = Len(a) + Len(b)
    BY <1>2
  <2> QED
    BY <1>3, <1>4, <1>5, <2>1
<1>8. e.L = d.L
  <2>1. ((Len(a) % LENGTH_RANGE) + Len(b)) % LENGTH_RANGE = (Len(a) + Len(b)) % LENGTH_RANGE
    BY <1>2, RestOfSum, Sizes
  <2> QED
    BY <1>6, <1>7, <2>1
<1>9. HashOf(V, d, a \o b)
  BY <1>2, <1>5
<1>10. ShaFini(e) = ShaFini(d)
  BY <1>6, <1>8, <1>9, OneHashOfText
<1> QED
  BY <1>10 DEF c, d, e

-----------------------------------------------------------------------------
(* HMAC.                                                                   *)
Elements(s) == {s[i] : i \in DOMAIN s}

(* The blocks of a key are sequences.                                      *)
LEMMA KeyBlockIs ==
  ASSUME NEW pad, NEW k
  PROVE  KeyBlock(pad, k) \in Seq(Elements(KeyBlock(pad, k))) /\ Len(KeyBlock(pad, k)) = BLOCK_SIZE
<1> DEFINE s == KeyBlock(pad, k)
<1>1. s = [i \in 1 .. BLOCK_SIZE |-> s[i]] /\ DOMAIN s = 1 .. BLOCK_SIZE
  BY DEF KeyBlock
<1> HIDE DEF s
<1>2. \A i \in 1 .. BLOCK_SIZE : s[i] \in Elements(s)
  BY <1>1 DEF Elements
<1>3. s \in Seq(Elements(s))
  BY <1>1, <1>2, Sizes
<1>4. Len(s) = BLOCK_SIZE
  BY <1>1, <1>3, Sizes, LenProperties
<1> QED
  BY <1>3, <1>4 DEF s

(* So are the bytes of a hash.                                             *)
LEMMA HashBytesAre ==
  ASSUME NEW h, NEW n \in Nat
  PROVE  ShaGet(h, n) \in Seq(Elements(ShaGet(h, n))) /\ Len(ShaGet(h, n)) = n
<1> DEFINE s == ShaGet(h, n)
<1>1. s = [i \in 1 .. n |-> s[i]] /\ DOMAIN s = 1 .. n
  BY DEF ShaGet
<1> HIDE DEF s
<1>2. \A i \in 1 .. n : s[i] \in Elements(s)
  BY <1>1 DEF Elements
<1>3. s \in Seq(Elements(s))
  BY <1>1, <1>2
<1>4. Len(s) = n
  BY <1>1, <1>3, LenProperties
<1> QED
  BY <1>3, <1>4 DEF s

(* An HMAC under a key that was fed the text, in whatever pieces.          *)
MacOf(V, c, k, text) ==
  /\ <<"old">> \in V /\ KeyBlock("36", KeyOf(k)) \in Seq(V) /\ text \in Seq(V)
  /\ c = [i_sha |-> c.i_sha, o_sha |-> c.o_sha]
  /\ HashOf(V, c.i_sha, KeyBlock("36", KeyOf(k)) \o text)
  /\ c.i_sha.L = (BLOCK_SIZE + Len(text)) % LENGTH_RANGE
  /\ c.o_sha = ShaUpdate(ShaInit, KeyBlock("5c", KeyOf(k)))

(* Start: an HMAC that was fed nothing.                                    *)
LEMMA MacStarted ==
  ASSUME NEW V, NEW k, <<"old">> \in V, Elements(KeyBlock("36", KeyOf(k))) \subseteq V
  PROVE  MacOf(V, HmacStart(k), k, <<>>)
<1> DEFINE kb == KeyBlock("36", KeyOf(k))
           c == HmacStart(k)
<1>1. kb \in Seq(V) /\ Len(kb) = BLOCK_SIZE
  <2>1. kb \in Seq(Elements(kb)) /\ Len(kb) = BLOCK_SIZE
    BY KeyBlockIs
  <2> HIDE DEF kb
  <2> QED
    BY <2>1, SeqMonotonic DEF kb
<1>2. c = [i_sha |-> ShaUpdate(ShaInit, kb), o_sha |-> ShaUpdate(ShaInit, KeyBlock("5c", KeyOf(k)))]
  BY DEF HmacStart, KeyOf
<1> HIDE DEF kb, c
<1>3. HashOf(V, ShaUpdate(ShaInit, kb), <<>> \o kb)
      /\ ShaUpdate(ShaInit, kb).L = (ShaInit.L + Len(kb)) % LENGTH_RANGE
  BY <1>1, EmptyHash, Updated
<1>4. /\ <<>> \o kb = kb /\ kb \o <<>> = kb /\ <<>> \in Seq(V)
      /\ ShaInit.L + Len(kb) = BLOCK_SIZE + Len(<<>>)
  BY <1>1, ConcatEmptySeq, EmptySeq, Sizes DEF ShaInit
<1>5. c.i_sha = ShaUpdate(ShaInit, kb) /\ c.o_sha = ShaUpdate(ShaInit, KeyBlock("5c", KeyOf(k)))
  BY <1>2
<1> QED
  BY <1>1, <1>2, <1>3, <1>4, <1>5 DEF MacOf, kb, c

(* Next: the text is one longer.                                           *)
LEMMA MacFed ==
  ASSUME NEW V, NEW c, NEW k, NEW text, MacOf(V, c, k, text), NEW msg \in Seq(V)
  PROVE  MacOf(V, HmacNext(c, msg), k, text \o msg)
<1> DEFINE kb == KeyBlock("36", KeyOf(k))
           i == c.i_sha
           d == HmacNext(c, msg)
<1>1. kb \in Seq(V) /\ text \in Seq(V) /\ HashOf(V, i, kb \o text)
      /\ i.L = (BLOCK_SIZE + Len(text)) % LENGTH_RANGE
  BY DEF MacOf
<1>2. d = [i_sha |-> ShaUpdate(i, msg), o_sha |-> c.o_sha]
  <2>1. PICK ii, oo : c = [i_sha |-> ii, o_sha |-> oo]
    BY DEF MacOf
  <2>2. c.i_sha = ii /\ c.o_sha = oo
    BY <2>1
  <2> QED
    BY <2>1, <2>2 DEF HmacNext
<1> HIDE DEF kb, i, d
<1>3. HashOf(V, ShaUpdate(i, msg), (kb \o text) \o msg)
      /\ ShaUpdate(i, msg).L = (i.L + Len(msg)) % LENGTH_RANGE
  BY <1>1, Updated
<1>4. (kb \o text) \o msg = kb \o (text \o msg)
  BY <1>1, ConcatAssociative
<1>5. text \o msg \in Seq(V) /\ Len(text \o msg) = Len(text) + Len(msg)
  BY <1>1, ConcatProperties
<1>6. ShaUpdate(i, msg).L = (BLOCK_SIZE + Len(text \o msg)) % LENGTH_RANGE
  <2>1. PICK a \in Nat, b \in Nat : a = BLOCK_SIZE + Len(text) /\ b = Len(msg)
    BY <1>1, Sizes
  <2>2. ((a % LENGTH_RANGE) + b) % LENGTH_RANGE = (a + b) % LENGTH_RANGE
    BY RestOfSum, Sizes
  <2>3. a + b = BLOCK_SIZE + Len(text \o msg)
    BY <1>1, <1>5, <2>1, Sizes
  <2> QED
    BY <1>1, <1>3, <2>1, <2>2, <2>3
<1>7. d.i_sha = ShaUpdate(i, msg) /\ d.o_sha = c.o_sha
  BY <1>2
<1> QED
  BY <1>2, <1>3, <1>4, <1>5, <1>6, <1>7 DEF MacOf, kb, d

CutTo(hash, size) == SubSeq(hash, 1, IF size > HASH_SIZE THEN HASH_SIZE ELSE size)

(* End: the outer hash of the inner one.                                   *)
LEMMA MacEnded ==
  ASSUME NEW V, NEW c, NEW k, NEW text, MacOf(V, c, k, text), NEW size
  PROVE  HmacEnd(c, size) = CutTo(HmacOf(k, text), size)
<1> DEFINE kb == KeyBlock("36", KeyOf(k))
           ob == KeyBlock("5c", KeyOf(k))
           i == ShaGet(ShaFini(c.i_sha), HASH_SIZE)
           o == ShaUpdate(c.o_sha, i)
           W == {<<"old">>} \cup Elements(ob) \cup Elements(i)
<1>1. i = ShaCalc(kb \o text)
  <2>1. /\ <<"old">> \in V /\ kb \in Seq(V) /\ text \in Seq(V) /\ HashOf(V, c.i_sha, kb \o text)
        /\ c.i_sha.L = (BLOCK_SIZE + Len(text)) % LENGTH_RANGE
    BY DEF MacOf
  <2>2. Len(kb) = BLOCK_SIZE
    BY KeyBlockIs
  <2> HIDE DEF kb
  <2>3. kb \o text \in Seq(V) /\ Len(kb \o text) = BLOCK_SIZE + Len(text)
    BY <2>1, <2>2, ConcatProperties
  <2> QED
    BY <2>1, <2>3, CalcIs
<1>2. i \in Seq(Elements(i)) /\ Len(i) = HASH_SIZE
  BY HashBytesAre, Sizes
<1>3. ob \in Seq(Elements(ob)) /\ Len(ob) = BLOCK_SIZE
  BY KeyBlockIs
<1>4. c.o_sha = ShaUpdate(ShaInit, ob)
  BY DEF MacOf
<1>5. HmacEnd(c, size) = CutTo(ShaGet(ShaFini(o), HASH_SIZE), size)
  BY DEF HmacEnd, CutTo
<1> HIDE DEF i, ob, o
<1>6. i \in Seq(W) /\ ob \in Seq(W) /\ <<"old">> \in W
  <2>1. Elements(i) \subseteq W /\ Elements(ob) \subseteq W /\ <<"old">> \in W
    OBVIOUS
  <2> HIDE DEF W
  <2> QED
    BY <1>2, <1>3, <2>1, SeqMonotonic
<1> HIDE DEF W
<1>7. HashOf(W, c.o_sha, <<>> \o ob) /\ c.o_sha.L = (ShaInit.L + Len(ob)) % LENGTH_RANGE
  BY <1>4, <1>6, EmptyHash, Updated
<1>8. <<>> \o ob = ob /\ ShaInit.L + Len(ob) = BLOCK_SIZE
  BY <1>3, <1>6, ConcatEmptySeq, Sizes DEF ShaInit
<1>9. HashOf(W, c.o_sha, ob) /\ c.o_sha.L = BLOCK_SIZE % LENGTH_RANGE
  BY <1>7, <1>8
<1>10. HashOf(W, o, ob \o i) /\ o.L = (c.o_sha.L + Len(i)) % LENGTH_RANGE
  BY <1>6, <1>9, Updated DEF o
<1>11. ob \o i \in Seq(W) /\ Len(ob \o i) = BLOCK_SIZE + HASH_SIZE
  BY <1>2, <1>3, <1>6, ConcatProperties
<1>12. o.L = Len(ob \o i) % LENGTH_RANGE
  <2>1. ((BLOCK_SIZE % LENGTH_RANGE) + HASH_SIZE) % LENGTH_RANGE = (BLOCK_SIZE + HASH_SIZE) % LENGTH_RANGE
    BY RestOfSum, Sizes
  <2> QED
    BY <1>2, <1>9, <1>10, <1>11, <2>1
<1>13. ShaGet(ShaFini(o), HASH_SIZE) = ShaCalc(ob \o i)
  BY <1>6, <1>10, <1>11, <1>12, CalcIs
<1>14. HmacOf(k, text) = ShaCalc(ob \o ShaCalc(kb \o text))
  BY DEF HmacOf, ob
<1> QED
  BY <1>1, <1>5, <1>13, <1>14

(* The HMAC of a text is the one of RFC 2104, cut to the size asked for.   *)
LEMMA HmacIs ==
  ASSUME NEW S, NEW k, NEW text \in Seq(S), NEW size
  PROVE  Hmac(k, text, size) = CutTo(HmacOf(k, text), size)
<1> DEFINE V == S \cup {<<"old">>} \cup Elements(KeyBlock("36", KeyOf(k)))
<1>1. text \in Seq(V) /\ <<"old">> \in V /\ Elements(KeyBlock("36", KeyOf(k))) \subseteq V
  BY SeqMonotonic
<1> HIDE DEF V
<1>2. MacOf(V, HmacNext(HmacStart(k), text), k, <<>> \o text)
  BY <1>1, MacStarted, MacFed
<1>3. <<>> \o text = text
  BY ConcatEmptySeq
<1> QED
  BY <1>2, <1>3, MacEnded DEF Hmac

(* A derived key is HMAC of the purpose and a one, under the HMAC of the   *)
(* shared secret.                                                          *)
LEMMA HkdfIs ==
  ASSUME NEW S, NEW k, NEW text \in Seq(S), NEW I, NEW info \in Seq(I), NEW size
  PROVE  Hkdf(k, text, info, size) = CutTo(HmacOf(HmacOf(k, text), info \o <<<<"01">>>>), size)
<1> DEFINE prk == HmacOf(k, text)
           V == I \cup {<<"01">>, <<"old">>} \cup Elements(KeyBlock("36", KeyOf(prk)))
           one == <<<<"01">>>>
<1>1. Hmac(k, text, HASH_SIZE) = prk
  <2>1. Hmac(k, text, HASH_SIZE) = CutTo(prk, HASH_SIZE)
    BY HmacIs
  <2>2. prk \in Seq(Elements(prk)) /\ Len(prk) = HASH_SIZE
    BY HashBytesAre, Sizes DEF HmacOf, ShaCalc
  <2> HIDE DEF prk
  <2>3. SubSeq(prk, 1, Len(prk)) = prk
    BY <2>2, SubSeqFull
  <2> QED
    BY <2>1, <2>2, <2>3 DEF CutTo
<1> HIDE DEF prk
<1>2. /\ info \in Seq(V) /\ one \in Seq(V) /\ <<"old">> \in V
      /\ Elements(KeyBlock("36", KeyOf(prk))) \subseteq V
  <2>1. I \subseteq V /\ <<"01">> \in V
    OBVIOUS
  <2>2. <<"old">> \in V /\ Elements(KeyBlock("36", KeyOf(prk))) \subseteq V
    OBVIOUS
  <2> HIDE DEF V
  <2> QED
    BY <2>1, <2>2, SeqMonotonic
<1> HIDE DEF V, one
<1>3. MacOf(V, HmacNext(HmacNext(HmacStart(prk), info), one), prk, (<<>> \o info) \o one)
  BY <1>2, MacStarted, MacFed
<1>4. <<>> \o info = info
  BY ConcatEmptySeq
<1> QED
  <2>1. HmacEnd(HmacNext(HmacNext(HmacStart(prk), info), one), size) = CutTo(HmacOf(prk, info \o one), size)
    BY <1>3, <1>4, MacEnded
  <2>2. Hkdf(k, text, info, size) = HmacEnd(HmacNext(HmacNext(HmacStart(prk), info), one), size)
    BY <1>1 DEF Hkdf, one
  <2> QED
    BY <2>1, <2>2 DEF prk, one
-----------------------------------------------------------------------------
(* The bytes that can be in the buffers of the hash and the inner hash.    *)
Bytes(k) == Symbol \cup {<<"old">>} \cup Elements(KeyBlock("36", KeyOf(k)))

(* Both objects were fed what was fed of the message.                      *)
StreamInv ==
  /\ HashTypeOK
  /\ HashOf(Bytes(key), sha, Fed)
  /\ sha.L = Len(Fed) % LENGTH_RANGE
  /\ MacOf(Bytes(key), mac, key, Fed)

(* What was fed is a part of the message, and its bytes are known.         *)
LEMMA FedIs ==
  ASSUME HashTypeOK
  PROVE  /\ Len(Message) \in Nat /\ fed \in Nat /\ fed <= Len(Message)
         /\ Fed \in Seq(Symbol) /\ Len(Fed) = fed
         /\ Symbol \subseteq Bytes(key) /\ <<"old">> \in Bytes(key)
         /\ Fed \in Seq(Bytes(key))
<1>1. Message \in Seq(Symbol) /\ Len(Message) \in Nat /\ fed \in 0 .. Len(Message)
  BY HashStreamAssumption DEF HashTypeOK
<1>2. \A i \in 1 .. fed : Message[i] \in Symbol
  BY <1>1, ElementOfSeq
<1>3. Fed \in Seq(Symbol) /\ Len(Fed) = IF 1 <= fed THEN fed - 1 + 1 ELSE 0
  BY <1>1, <1>2, SubSeqProperties DEF Fed
<1>4. Symbol \subseteq Bytes(key) /\ <<"old">> \in Bytes(key)
  BY DEF Bytes
<1> QED
  BY <1>1, <1>3, <1>4, SeqMonotonic

(* Nothing was fed at first.                                               *)
LEMMA StreamInit ==
  ASSUME HashInit PROVE StreamInv
<1>1. HashTypeOK /\ fed = 0 /\ key \in Keys
  <2>1. Len(Message) \in Nat
    BY HashStreamAssumption
  <2> QED
    BY <2>1 DEF HashInit, HashTypeOK
<1>2. Fed = <<>>
  BY <1>1, SubSeqEmpty DEF Fed
<1>3. <<"old">> \in Bytes(key) /\ Elements(KeyBlock("36", KeyOf(key))) \subseteq Bytes(key)
  BY DEF Bytes
<1>4. HashOf(Bytes(key), sha, Fed)
  BY <1>2, <1>3, EmptyHash DEF HashInit
<1>5. sha.L = Len(Fed) % LENGTH_RANGE
  <2>1. 0 % LENGTH_RANGE = 0
    <3>1. 0 = LENGTH_RANGE * 0 + 0
      BY Sizes
    <3> QED
      BY <3>1, Sizes, Divided
  <2> QED
    BY <1>2, <2>1 DEF HashInit, ShaInit
<1>6. MacOf(Bytes(key), mac, key, Fed)
  BY <1>2, <1>3, MacStarted DEF HashInit
<1> QED
  BY <1>1, <1>4, <1>5, <1>6 DEF StreamInv

(* A piece more, of any length.                                            *)
LEMMA StreamFeed ==
  ASSUME StreamInv, NEW n \in fed .. Len(Message), Feed(n) PROVE StreamInv'
<1> DEFINE V == Bytes(key)
           piece == SubSeq(Message, fed + 1, n)
<1>1. /\ Len(Message) \in Nat /\ fed \in Nat /\ fed <= Len(Message)
      /\ Symbol \subseteq V /\ Fed \in Seq(V) /\ Len(Fed) = fed
  BY FedIs DEF StreamInv
<1>2. fed' = n /\ key' = key /\ sha' = ShaUpdate(sha, piece) /\ mac' = HmacNext(mac, piece)
  BY DEF Feed
<1>3. HashTypeOK'
  BY <1>1, <1>2 DEF StreamInv, HashTypeOK
<1>4. piece \in Seq(V)
  <2>1. \A i \in fed + 1 .. n : Message[i] \in V
    BY <1>1, HashStreamAssumption, ElementOfSeq
  <2> HIDE DEF V
  <2> QED
    BY <1>1, <2>1, SubSeqProperties
<1>5. Fed \o piece = Fed'
  <2>1. 1 \in 1 .. Len(Message) + 1 /\ fed \in 1 - 1 .. Len(Message) /\ n \in fed .. Len(Message)
    BY <1>1
  <2>2. SubSeq(Message, 1, fed) \o SubSeq(Message, fed + 1, n) = SubSeq(Message, 1, n)
    BY <2>1, HashStreamAssumption, ConcatAdjacentSubSeq
  <2> QED
    BY <1>2, <2>2 DEF Fed
<1>6. Len(Fed') = Len(Fed) + Len(piece) /\ Len(Fed) \in Nat /\ Len(piece) \in Nat
  <2> HIDE DEF piece, V
  <2>1. Len(Fed \o piece) = Len(Fed) + Len(piece)
    BY <1>1, <1>4, ConcatProperties
  <2> QED
    BY <1>1, <1>4, <1>5, <2>1
<1> HIDE DEF piece
<1>7. HashOf(V, sha', Fed') /\ sha'.L = (sha.L + Len(piece)) % LENGTH_RANGE
  BY <1>2, <1>4, <1>5, Updated DEF StreamInv
<1>8. sha'.L = Len(Fed') % LENGTH_RANGE
  <2>1. ((Len(Fed) % LENGTH_RANGE) + Len(piece)) % LENGTH_RANGE = (Len(Fed) + Len(piece)) % LENGTH_RANGE
    BY <1>6, RestOfSum, Sizes
  <2>2. sha.L = Len(Fed) % LENGTH_RANGE
    BY DEF StreamInv
  <2> QED
    BY <1>6, <1>7, <2>1, <2>2
<1>9. MacOf(V, mac', key, Fed')
  BY <1>2, <1>4, <1>5, MacFed DEF StreamInv
<1>10. Bytes(key)' = V
  BY <1>2 DEF Bytes
<1> QED
  BY <1>2, <1>3, <1>7, <1>8, <1>9, <1>10 DEF StreamInv

(* Every step keeps them so.                                                *)
LEMMA StreamStep ==
  ASSUME StreamInv, [HashNext]_hashVars PROVE StreamInv'
<1>1. CASE HashNext
  BY <1>1, StreamFeed DEF HashNext
<1>2. CASE UNCHANGED hashVars
  BY <1>2 DEF hashVars, StreamInv, HashTypeOK, Bytes, Fed
<1> QED
  BY <1>1, <1>2

(* The objects hold what was fed of the message, in whatever pieces it was *)
(* fed (Sha512::update, HmacSha512::start, next).                          *)
THEOREM StreamInvariant == HashSpec => []StreamInv
<1>1. HashInit => StreamInv
  BY StreamInit
<1>2. StreamInv /\ [HashNext]_hashVars => StreamInv'
  BY StreamStep
<1> QED
  BY <1>1, <1>2, PTL DEF HashSpec

(* A hash is the one of the whole text, and the one of the standard unless *)
(* its padding is misplaced, for blocks and messages of any size           *)
(* (Sha512::update, fini).                                                 *)
THEOREM HashesAreStandard == HashSpec => []HashIsStandard
<1>1. ASSUME StreamInv PROVE HashIsStandard
  <2> DEFINE V == Bytes(key)
             whole == ShaUpdate(ShaInit, Fed)
  <2>1. /\ Fed \in Seq(V) /\ Len(Fed) = fed /\ fed \in Nat /\ <<"old">> \in V
    BY <1>1, FedIs DEF StreamInv
  <2>2. HashOf(V, sha, Fed) /\ sha.L = fed % LENGTH_RANGE
    BY <1>1, <2>1 DEF StreamInv
  <2> HIDE DEF V
  <2>3. HashOf(V, whole, <<>> \o Fed) /\ whole.L = (ShaInit.L + Len(Fed)) % LENGTH_RANGE
    BY <2>1, EmptyHash, Updated
  <2>4. <<>> \o Fed = Fed /\ ShaInit.L + Len(Fed) = fed
    BY <2>1, ConcatEmptySeq DEF ShaInit
  <2> HIDE DEF whole
  <2>5. HashOf(V, whole, Fed) /\ whole.L = sha.L
    BY <2>2, <2>3, <2>4
  <2>6. ShaFini(sha) = ShaFini(whole)
    BY <2>2, <2>5, OneHashOfText
  <2>7. ASSUME ~Misplaced(fed), fed < LENGTH_RANGE PROVE ShaFini(sha) = StandardBlocks(Fed)
    <3>1. fed % LENGTH_RANGE = fed
      <4>1. fed = LENGTH_RANGE * 0 + fed
        BY <2>1, Sizes
      <4> QED
        BY <2>1, <2>7, <4>1, Sizes, Divided
    <3>2. sha.L = Len(Fed) /\ ~Misplaced(Len(Fed))
      BY <2>1, <2>2, <2>7, <3>1
    <3> QED
      BY <2>2, <3>2, StandardIs
  <2> QED
    BY <2>6, <2>7 DEF HashIsStandard, whole
<1> QED
  BY <1>1, StreamInvariant, PTL

(* A sequence of one.                                                      *)
LEMMA Single == \A x : <<x>> \in Seq({x})
OBVIOUS

(* The purpose of a key, and the one behind it.                            *)
LEMMA PurposeAndOne == <<"info">> \o <<<<"01">>>> = <<"info", <<"01">>>>
<1> DEFINE V == {"info", <<"01">>}
<1>1. PICK x, y \in V : x = "info" /\ y = <<"01">>
  OBVIOUS
<1> HIDE DEF V
<1>2. <<x>> \in Seq(V) /\ <<y>> \in Seq(V) /\ <<x, y>> \in Seq(V)
  OBVIOUS
<1>3. <<x>> \o <<y>> = <<x, y>>
  <2>1. PICK a \in Seq(V), b \in Seq(V), c \in Seq(V) : a = <<x>> /\ b = <<y>> /\ c = <<x, y>>
    BY <1>2
  <2>2. Len(a) = 1 /\ Len(b) = 1 /\ Len(c) = 2 /\ a[1] = x /\ b[1] = y /\ c[1] = x /\ c[2] = y
    BY <2>1
  <2>3. /\ a \o b \in Seq(V) /\ Len(a \o b) = Len(a) + Len(b)
        /\ \A i \in 1 .. Len(a) + Len(b) : (a \o b)[i] = IF i <= Len(a) THEN a[i] ELSE b[i - Len(a)]
    BY ConcatProperties
  <2>4. ASSUME NEW i \in 1 .. 2 PROVE (a \o b)[i] = c[i]
    <3>1. (a \o b)[i] = IF i <= 1 THEN a[i] ELSE b[i - 1]
      BY <2>2, <2>3
    <3>2. i = 1 \/ i = 2
      OBVIOUS
    <3> QED
      BY <2>2, <3>1, <3>2
  <2>5. a \o b = c
    <3>1. Len(a \o b) = 2
      BY <2>2, <2>3
    <3> QED
      BY <2>2, <2>3, <2>4, <3>1, SeqEqual
  <2> QED
    BY <2>1, <2>5
<1> QED
  BY <1>1, <1>3

(* An HMAC and a key derived with it are those of RFC 2104 and RFC 5869,   *)
(* for keys and messages of any length in any pieces (HmacSha512,          *)
(* HkdfSha512).                                                            *)
THEOREM HmacsAreNested == HashSpec => []HmacIsNested
<1>1. ASSUME StreamInv PROVE HmacIsNested
  <2>1. Fed \in Seq(Symbol)
    BY <1>1, FedIs DEF StreamInv
  <2>2. MacOf(Bytes(key), mac, key, Fed)
    BY <1>1 DEF StreamInv
  <2>3. ASSUME NEW size
        PROVE  /\ HmacEnd(mac, size) = CutTo(HmacOf(key, Fed), size)
               /\ Hkdf(key, Fed, <<"info">>, size)
                  = CutTo(HmacOf(HmacOf(key, Fed), <<"info", <<"01">>>>), size)
    <3>1. HmacEnd(mac, size) = CutTo(HmacOf(key, Fed), size)
      BY <2>2, MacEnded
    <3>2. PICK info \in Seq({"info"}) : info = <<"info">>
      BY Single
    <3>3. Hkdf(key, Fed, info, size) = CutTo(HmacOf(HmacOf(key, Fed), info \o <<<<"01">>>>), size)
      BY <2>1, HkdfIs
    <3>4. info \o <<<<"01">>>> = <<"info", <<"01">>>>
      BY <3>2, PurposeAndOne
    <3> QED
      BY <3>1, <3>2, <3>3, <3>4
  <2> QED
    BY <2>3 DEF HmacIsNested, CutTo
<1> QED
  BY <1>1, StreamInvariant, PTL

-----------------------------------------------------------------------------
(* A recursive function of the numbers up to n exists.                     *)
Recursive(f, D, z, G, n) ==
  f \in [0 .. n -> D] /\ f[0] = z /\ \A i \in 1 .. n : f[i] = G[<<i, f[i - 1]>>]

LEMMA Recursion ==
  ASSUME NEW D, NEW z \in D, NEW G, NEW n \in Nat,
         \A i \in 1 .. n, d \in D : G[<<i, d>>] \in D
  PROVE  \E f : Recursive(f, D, z, G, n)
<1> DEFINE Is(f, m) == f \in [0 .. m -> D] /\ f = [i \in 0 .. m |-> IF i = 0 THEN z ELSE G[<<i, f[i - 1]>>]]
           S == {m \in Nat : m <= n => \E f : Is(f, m)}
<1>1. 0 \in S
  <2> DEFINE f == [i \in 0 .. 0 |-> z]
  <2>1. \A i \in 0 .. 0 : i = 0
    OBVIOUS
  <2>2. Is(f, 0)
    BY <2>1
  <2> HIDE DEF Is
  <2> QED
    BY <2>2
<1>2. ASSUME NEW m \in Nat, m \in S PROVE m + 1 \in S
  <2> SUFFICES ASSUME m + 1 <= n PROVE \E f : Is(f, m + 1)
    OBVIOUS
  <2>1. PICK f : Is(f, m)
    <3> HIDE DEF Is
    <3> QED
      BY <1>2
  <2> DEFINE g == [i \in 0 .. m + 1 |-> IF i = m + 1 THEN G[<<m + 1, f[m]>>] ELSE f[i]]
  <2>2. f[m] \in D /\ G[<<m + 1, f[m]>>] \in D
    BY <2>1
  <2>3. g \in [0 .. m + 1 -> D]
    BY <2>1, <2>2
  <2>4. ASSUME NEW i \in 0 .. m + 1 PROVE g[i] = IF i = 0 THEN z ELSE G[<<i, g[i - 1]>>]
    <3>1. CASE i = 0
      BY <2>1, <3>1
    <3>2. CASE i # 0 /\ i # m + 1
      <4>1. i \in 0 .. m /\ i - 1 \in 0 .. m /\ i - 1 \in 0 .. m + 1 /\ i - 1 # m + 1
        BY <3>2
      <4>2. f[i] = G[<<i, f[i - 1]>>]
        BY <2>1, <3>2, <4>1
      <4>3. g[i] = f[i] /\ g[i - 1] = f[i - 1]
        BY <3>2, <4>1
      <4> QED
        BY <3>2, <4>2, <4>3
    <3>3. CASE i = m + 1
      <4>1. i - 1 = m /\ m \in 0 .. m + 1 /\ m # m + 1 /\ i # 0
        BY <3>3
      <4>2. g[m] = f[m] /\ g[i] = G[<<m + 1, f[m]>>]
        BY <3>3, <4>1
      <4> HIDE DEF g
      <4> QED
        BY <3>3, <4>1, <4>2
    <3> QED
      BY <3>1, <3>2, <3>3
  <2>5. g = [i \in 0 .. m + 1 |-> g[i]]
    OBVIOUS
  <2> HIDE DEF g
  <2>6. Is(g, m + 1)
    BY <2>3, <2>4, <2>5
  <2> HIDE DEF Is
  <2> QED
    BY <2>6
<1> HIDE DEF S
<1>3. Nat \subseteq S
  BY <1>1, <1>2, Numbers
<1> QED
  <2>1. PICK f : Is(f, n)
    <3>1. n \in S
      BY <1>3
    <3> HIDE DEF Is
    <3> QED
      BY <3>1 DEF S
  <2>2. f \in [0 .. n -> D] /\ \A i \in 0 .. n : f[i] = IF i = 0 THEN z ELSE G[<<i, f[i - 1]>>]
    BY <2>1
  <2>3. 0 \in 0 .. n /\ \A i \in 1 .. n : i \in 0 .. n /\ i # 0
    OBVIOUS
  <2>4. f[0] = z /\ \A i \in 1 .. n : f[i] = G[<<i, f[i - 1]>>]
    BY <2>2, <2>3
  <2> QED
    BY <2>2, <2>4 DEF Recursive

(* Sequences of numbers, one behind the other.                             *)
LEMMA JoinOfNats == \A x, y \in Seq(Nat) :
  /\ x \o y \in Seq(Nat) /\ Len(x \o y) = Len(x) + Len(y)
  /\ \A i \in 1 .. Len(x) + Len(y) : (x \o y)[i] = IF i <= Len(x) THEN x[i] ELSE y[i - Len(x)]
<1> DEFINE S == Nat
<1>1. \A x, y \in Seq(S) :
         /\ x \o y \in Seq(S) /\ Len(x \o y) = Len(x) + Len(y)
         /\ \A i \in 1 .. Len(x) + Len(y) : (x \o y)[i] = IF i <= Len(x) THEN x[i] ELSE y[i - Len(x)]
  <2> HIDE DEF S
  <2> QED
    BY ConcatProperties
<1> QED
  BY <1>1

-----------------------------------------------------------------------------
(* TLV: what is laid out in the buffer of a message, item after item.      *)
TlvItem == [type : TlvTypes, value : Seq(Nat)]

Places(e, buf, its) ==
  /\ e \in [0 .. Len(its) -> Nat] /\ e[0] = 0 /\ e[Len(its)] = Len(buf)
  /\ \A i \in 0 .. Len(its) : e[i] <= Len(buf)
  /\ \A i \in 1 .. Len(its) :
       /\ e[i] = e[i - 1] + 2 + Len(its[i].value)
       /\ buf[e[i - 1] + 1] = its[i].type
       /\ buf[e[i - 1] + 2] = Len(its[i].value)
       /\ \A k \in 1 .. Len(its[i].value) : buf[e[i - 1] + 2 + k] = its[i].value[k]

Laid(buf, its) ==
  /\ buf \in Seq(Nat) /\ its \in Seq(TlvItem)
  /\ \E e : Places(e, buf, its)

(* One more item is laid behind the others.                                *)
LEMMA LaidNext ==
  ASSUME NEW buf, NEW its, Laid(buf, its), NEW t \in TlvTypes, NEW d \in Seq(Nat)
  PROVE  Laid((buf \o <<t, Len(d)>>) \o d, Append(its, [type |-> t, value |-> d]))
<1> DEFINE n == Len(its)
           l == Len(buf)
           m == Len(d)
           head == <<t, m>>
           long == (buf \o head) \o d
           item == [type |-> t, value |-> d]
           more == Append(its, item)
<1>1. PICK e : Places(e, buf, its)
  BY DEF Laid
<1>2. /\ buf \in Seq(Nat) /\ its \in Seq(TlvItem) /\ n \in Nat /\ l \in Nat /\ m \in Nat
      /\ item \in TlvItem /\ t \in Nat
  BY TlvAssumption DEF Laid, TlvItem, TlvTypes
<1>3. head \in Seq(Nat) /\ Len(head) = 2 /\ head[1] = t /\ head[2] = m
  BY <1>2
<1>4. /\ long \in Seq(Nat) /\ Len(long) = l + 2 + m
      /\ \A i \in 1 .. l : long[i] = buf[i]
      /\ long[l + 1] = t /\ long[l + 2] = m
      /\ \A k \in 1 .. m : long[l + 2 + k] = d[k]
  <2> DEFINE both == buf \o head
  <2> HIDE DEF head
  <2>1. /\ both \in Seq(Nat) /\ Len(both) = l + 2
        /\ \A i \in 1 .. l + 2 : both[i] = IF i <= l THEN buf[i] ELSE head[i - l]
    <3>1. /\ both \in Seq(Nat) /\ Len(both) = Len(buf) + Len(head)
          /\ \A i \in 1 .. Len(buf) + Len(head) : both[i] = IF i <= Len(buf) THEN buf[i] ELSE head[i - Len(buf)]
      <4> HIDE DEF l
      <4> QED
        BY <1>2, <1>3, JoinOfNats
    <3> HIDE DEF both
    <3> QED
      BY <1>2, <1>3, <3>1
  <2> HIDE DEF both
  <2>2. /\ both \o d \in Seq(Nat) /\ Len(both \o d) = (l + 2) + m
        /\ \A i \in 1 .. (l + 2) + m : (both \o d)[i] = IF i <= l + 2 THEN both[i] ELSE d[i - (l + 2)]
    <3>1. /\ both \o d \in Seq(Nat) /\ Len(both \o d) = Len(both) + Len(d)
          /\ \A i \in 1 .. Len(both) + Len(d) : (both \o d)[i] = IF i <= Len(both) THEN both[i] ELSE d[i - Len(both)]
      BY <1>2, <2>1, JoinOfNats
    <3> QED
      BY <1>2, <2>1, <3>1
  <2>3. long = both \o d
    BY DEF both
  <2> HIDE DEF long
  <2>4. ASSUME NEW i \in 1 .. l PROVE long[i] = buf[i]
    BY <1>2, <2>1, <2>2, <2>3
  <2>5. long[l + 1] = t
    <3>1. l + 1 \in 1 .. l + 2 /\ ~(l + 1 <= l) /\ (l + 1) - l = 1 /\ l + 1 \in 1 .. (l + 2) + m /\ l + 1 <= l + 2
      BY <1>2
    <3> QED
      BY <1>3, <2>1, <2>2, <2>3, <3>1
  <2>6. long[l + 2] = m
    <3>1. l + 2 \in 1 .. l + 2 /\ ~(l + 2 <= l) /\ (l + 2) - l = 2 /\ l + 2 \in 1 .. (l + 2) + m
      BY <1>2
    <3> QED
      BY <1>3, <2>1, <2>2, <2>3, <3>1
  <2>7. ASSUME NEW k \in 1 .. m PROVE long[l + 2 + k] = d[k]
    <3>1. l + 2 + k \in 1 .. (l + 2) + m /\ ~(l + 2 + k <= l + 2) /\ (l + 2 + k) - (l + 2) = k
      BY <1>2
    <3> QED
      BY <2>2, <2>3, <3>1
  <2> QED
    BY <2>2, <2>3, <2>4, <2>5, <2>6, <2>7
<1>5. /\ more \in Seq(TlvItem) /\ Len(more) = n + 1 /\ more[n + 1] = item
      /\ \A i \in 1 .. n : more[i] = its[i]
  BY <1>2, AppendProperties
<1> DEFINE f == [i \in 0 .. n + 1 |-> IF i = n + 1 THEN l + 2 + m ELSE e[i]]
<1>6. /\ e \in [0 .. n -> Nat] /\ e[0] = 0 /\ e[n] = l
      /\ \A i \in 0 .. n : e[i] <= l
      /\ \A i \in 1 .. n :
           /\ e[i] = e[i - 1] + 2 + Len(its[i].value)
           /\ buf[e[i - 1] + 1] = its[i].type
           /\ buf[e[i - 1] + 2] = Len(its[i].value)
           /\ \A k \in 1 .. Len(its[i].value) : buf[e[i - 1] + 2 + k] = its[i].value[k]
  BY <1>1 DEF Places
<1>7. f \in [0 .. n + 1 -> Nat] /\ f[n + 1] = l + 2 + m /\ \A i \in 0 .. n : f[i] = e[i]
  BY <1>2, <1>6
<1> HIDE DEF f, long, more, n, l, m, item
<1>8. ASSUME NEW i \in 1 .. n + 1
      PROVE  /\ f[i] = f[i - 1] + 2 + Len(more[i].value)
             /\ long[f[i - 1] + 1] = more[i].type
             /\ long[f[i - 1] + 2] = Len(more[i].value)
             /\ \A k \in 1 .. Len(more[i].value) : long[f[i - 1] + 2 + k] = more[i].value[k]
  <2>1. CASE i <= n
    <3>1. i \in 1 .. n /\ i \in 0 .. n /\ i - 1 \in 0 .. n
      BY <1>2, <2>1
    <3>2. f[i] = e[i] /\ f[i - 1] = e[i - 1] /\ more[i] = its[i]
      BY <1>5, <1>7, <3>1
    <3>3. PICK a, b, v : a = e[i - 1] /\ b = e[i] /\ v = its[i].value /\ v \in Seq(Nat)
      <4>1. its[i] \in TlvItem
        BY <1>2, <3>1 DEF n
      <4> QED
        <5>1. its[i].value \in Seq(Nat)
          BY <4>1 DEF TlvItem
        <5> QED
          BY <5>1
    <3>4. /\ b = a + 2 + Len(v) /\ a \in Nat /\ b <= l
          /\ buf[a + 1] = its[i].type /\ buf[a + 2] = Len(v)
          /\ \A k \in 1 .. Len(v) : buf[a + 2 + k] = v[k]
      BY <1>6, <3>1, <3>3
    <3>5. /\ a + 1 \in 1 .. l /\ a + 2 \in 1 .. l /\ \A k \in 1 .. Len(v) : a + 2 + k \in 1 .. l
      <4>0. v \in Seq(Nat)
        BY <3>3
      <4>1. PICK w : w = Len(v) /\ w \in Nat
        BY <4>0
      <4>2. l \in Nat /\ a \in Nat /\ a + 2 + w <= l
        BY <1>2, <3>4, <4>1
      <4>3. a + 1 \in 1 .. l /\ a + 2 \in 1 .. l /\ \A k \in 1 .. w : a + 2 + k \in 1 .. l
        BY <4>1, <4>2
      <4> QED
        BY <4>1, <4>3
    <3>6. long[a + 1] = its[i].type /\ long[a + 2] = Len(v) /\ \A k \in 1 .. Len(v) : long[a + 2 + k] = v[k]
      BY <1>4, <3>4, <3>5
    <3> QED
      BY <3>2, <3>3, <3>4, <3>6
  <2>2. CASE i = n + 1
    <3>1. i - 1 = n /\ n \in 0 .. n
      BY <1>2, <2>2
    <3>2. f[i] = l + 2 + m /\ f[i - 1] = l /\ more[i] = item
      BY <1>5, <1>6, <1>7, <2>2, <3>1
    <3>3. item.type = t /\ item.value = d /\ Len(d) = m
      BY DEF item, m
    <3> QED
      BY <1>4, <3>2, <3>3
  <2> QED
    BY <1>2, <2>1, <2>2
<1>9. ASSUME NEW i \in 0 .. n + 1 PROVE f[i] <= l + 2 + m
  <2>1. CASE i \in 0 .. n
    BY <1>2, <1>6, <1>7, <2>1
  <2>2. CASE i = n + 1
    BY <1>2, <1>7, <2>2
  <2> QED
    BY <1>2, <2>1, <2>2
<1>10. 0 \in 0 .. n /\ f[0] = 0
  BY <1>2, <1>6, <1>7
<1>11. Places(f, long, more)
  BY <1>4, <1>5, <1>7, <1>8, <1>9, <1>10 DEF Places
<1>12. Laid(long, more)
  BY <1>4, <1>5, <1>11 DEF Laid
<1> QED
  BY <1>12 DEF long, more, item, m

(* The parser finds the items that are laid out.                           *)
Reads(p, its) ==
  /\ TlvCount(p) = Len(its)
  /\ \A i \in 1 .. Len(its) : TlvType(p, i) = its[i].type /\ TlvValue(p, i) = its[i].value
  /\ \A i \in Nat : i > Len(its) => TlvType(p, i) = Invalid

(* The offsets the parser goes through.                                    *)
Offsets(f, buf) ==
  f = [i \in 0 .. MaxTlv |->
         IF i = 0 THEN 1
         ELSE IF f[i - 1] + 1 > Len(buf) THEN f[i - 1]
         ELSE f[i - 1] + 2 + buf[f[i - 1] + 1]]

(* The parser's offsets are defined for every buffer.                      *)
LEMMA OffsetsExist ==
  ASSUME NEW buf \in Seq(Nat)
  PROVE  \E f : Offsets(f, buf)
<1> DEFINE D == Nat \ {0}
           G == [p \in Nat \X D |-> IF p[2] + 1 > Len(buf) THEN p[2] ELSE p[2] + 2 + buf[p[2] + 1]]
<1>1. \A i \in Nat, d \in D : G[<<i, d>>] = IF d + 1 > Len(buf) THEN d ELSE d + 2 + buf[d + 1]
  OBVIOUS
<1>2. \A i \in 1 .. MaxTlv, d \in D : G[<<i, d>>] \in D
  <2> SUFFICES ASSUME NEW i \in 1 .. MaxTlv, NEW d \in D PROVE G[<<i, d>>] \in D
    OBVIOUS
  <2>1. G[<<i, d>>] = IF d + 1 > Len(buf) THEN d ELSE d + 2 + buf[d + 1]
    BY <1>1, TlvAssumption
  <2>2. d + 1 <= Len(buf) => buf[d + 1] \in Nat
    OBVIOUS
  <2> HIDE DEF G
  <2> QED
    BY <2>1, <2>2
<1> HIDE DEF G
<1>3. 1 \in D /\ MaxTlv \in Nat
  BY TlvAssumption
<1>7. PICK f : Recursive(f, D, 1, G, MaxTlv)
  <2> HIDE DEF D
  <2> QED
    BY <1>2, <1>3, Recursion
<1>4. f \in [0 .. MaxTlv -> D] /\ f[0] = 1 /\ \A i \in 1 .. MaxTlv : f[i] = G[<<i, f[i - 1]>>]
  BY <1>7 DEF Recursive
<1>5. ASSUME NEW i \in 0 .. MaxTlv
      PROVE  f[i] = IF i = 0 THEN 1
                    ELSE IF f[i - 1] + 1 > Len(buf) THEN f[i - 1]
                    ELSE f[i - 1] + 2 + buf[f[i - 1] + 1]
  <2>1. CASE i = 0
    BY <1>4, <2>1
  <2>2. CASE i # 0
    <3>1. i - 1 \in 0 .. MaxTlv /\ i \in Nat
      BY <1>3, <2>2
    <3>2. f[i - 1] \in D
      BY <1>4, <3>1
    <3>3. f[i] = G[<<i, f[i - 1]>>]
      BY <1>4, <2>2
    <3> QED
      BY <1>1, <2>2, <3>1, <3>2, <3>3
  <2> QED
    BY <2>1, <2>2
<1>6. f = [i \in 0 .. MaxTlv |-> f[i]]
  BY <1>4
<1>8. Offsets(f, buf)
  BY <1>5, <1>6 DEF Offsets
<1> QED
  BY <1>8

(* The parser finds every item that is laid out, and no other.             *)
LEMMA Parsed ==
  ASSUME NEW buf, NEW its, Laid(buf, its), Len(its) <= MaxTlv
  PROVE  Reads(TlvParse(buf), its)
<1> DEFINE n == Len(its)
           next == CHOOSE f : Offsets(f, buf)
           Stops(k) == /\ k = MaxTlv \/ next[k] + 1 > Len(buf)
                       /\ \A i \in 0 .. k - 1 : next[i] + 1 <= Len(buf)
           count == CHOOSE k \in 0 .. MaxTlv : Stops(k)
           p == TlvParse(buf)
<1>1. PICK e : Places(e, buf, its)
  BY DEF Laid
<1>2. /\ buf \in Seq(Nat) /\ its \in Seq(TlvItem) /\ n \in Nat /\ MaxTlv \in Nat /\ n <= MaxTlv
      /\ Len(buf) \in Nat
  BY TlvAssumption DEF Laid
<1>3. /\ e \in [0 .. n -> Nat] /\ e[0] = 0 /\ e[n] = Len(buf)
      /\ \A i \in 0 .. n : e[i] <= Len(buf)
      /\ \A i \in 1 .. n :
           /\ e[i] = e[i - 1] + 2 + Len(its[i].value)
           /\ buf[e[i - 1] + 1] = its[i].type
           /\ buf[e[i - 1] + 2] = Len(its[i].value)
           /\ \A k \in 1 .. Len(its[i].value) : buf[e[i - 1] + 2 + k] = its[i].value[k]
  BY <1>1 DEF Places
<1>4. p = [buf |-> buf, off |-> [i \in 1 .. count |-> next[i - 1]]]
  BY DEF TlvParse, Offsets
<1>5. Offsets(next, buf)
  BY <1>2, OffsetsExist
<1>6. \A i \in 1 .. n : its[i].value \in Seq(Nat) /\ Len(its[i].value) \in Nat
  <2> SUFFICES ASSUME NEW i \in 1 .. n PROVE its[i].value \in Seq(Nat) /\ Len(its[i].value) \in Nat
    OBVIOUS
  <2>1. its[i] \in TlvItem
    BY <1>2
  <2>2. its[i].value \in Seq(Nat)
    BY <2>1 DEF TlvItem
  <2>3. PICK v : v = its[i].value
    OBVIOUS
  <2> QED
    BY <2>2, <2>3
<1> HIDE DEF next, n, p
<1>0. \A i \in 0 .. MaxTlv :
         next[i] = IF i = 0 THEN 1
                   ELSE IF next[i - 1] + 1 > Len(buf) THEN next[i - 1]
                   ELSE next[i - 1] + 2 + buf[next[i - 1] + 1]
  BY <1>5 DEF Offsets
<1>7. \A i \in 0 .. n : next[i] = e[i] + 1
  <2> DEFINE S == {i \in Nat : i <= n => next[i] = e[i] + 1}
  <2>1. 0 \in S
    BY <1>2, <1>3, <1>5 DEF Offsets
  <2>2. ASSUME NEW i \in Nat, i \in S PROVE i + 1 \in S
    <3> SUFFICES ASSUME i + 1 <= n PROVE next[i + 1] = e[i + 1] + 1
      OBVIOUS
    <3>1. i + 1 \in 1 .. n /\ i \in 0 .. n /\ i + 1 \in 0 .. n /\ i + 1 \in 0 .. MaxTlv /\ i + 1 # 0 /\ (i + 1) - 1 = i
      BY <1>2
    <3>2. next[i] = e[i] + 1
      BY <2>2, <3>1
    <3>3. next[i + 1] = IF next[i] + 1 > Len(buf) THEN next[i] ELSE next[i] + 2 + buf[next[i] + 1]
      BY <1>0, <3>1
    <3>4. /\ e[i + 1] = e[i] + 2 + Len(its[i + 1].value) /\ buf[e[i] + 2] = Len(its[i + 1].value)
          /\ e[i + 1] <= Len(buf) /\ e[i] \in Nat /\ e[i + 1] \in Nat /\ Len(its[i + 1].value) \in Nat
      BY <1>3, <1>6, <3>1
    <3>5. PICK a, b, l : a = e[i] /\ b = e[i + 1] /\ l = Len(its[i + 1].value)
      OBVIOUS
    <3>6. /\ a \in Nat /\ b \in Nat /\ l \in Nat /\ b = a + 2 + l /\ buf[a + 2] = l /\ b <= Len(buf)
          /\ next[i] = a + 1
      BY <3>2, <3>4, <3>5
    <3>7. (a + 1) + 1 = a + 2 /\ ~((a + 1) + 1 > Len(buf)) /\ (a + 1) + 2 + l = b + 1
      BY <1>2, <3>6
    <3>8. next[i + 1] = (a + 1) + 2 + buf[a + 2]
      BY <3>3, <3>6, <3>7
    <3> QED
      BY <3>5, <3>6, <3>7, <3>8
  <2> HIDE DEF S
  <2>3. Nat \subseteq S
    BY <2>1, <2>2, Numbers
  <2> QED
    BY <1>2, <2>3 DEF S
<1>8. \A i \in 0 .. n - 1 : next[i] + 1 <= Len(buf)
  <2> SUFFICES ASSUME NEW i \in 0 .. n - 1 PROVE next[i] + 1 <= Len(buf)
    OBVIOUS
  <2>1. i + 1 \in 1 .. n /\ i \in 0 .. n /\ i + 1 \in 0 .. n /\ (i + 1) - 1 = i
    BY <1>2
  <2>2. /\ e[i + 1] = e[i] + 2 + Len(its[i + 1].value)
        /\ e[i + 1] <= Len(buf) /\ e[i] \in Nat /\ e[i + 1] \in Nat /\ Len(its[i + 1].value) \in Nat
    BY <1>3, <1>6, <2>1
  <2> QED
    <3>1. PICK a, b, l : a = e[i] /\ b = e[i + 1] /\ l = Len(its[i + 1].value)
      OBVIOUS
    <3>2. /\ a \in Nat /\ b \in Nat /\ l \in Nat /\ b = a + 2 + l /\ b <= Len(buf) /\ next[i] = a + 1
      BY <1>7, <2>1, <2>2, <3>1
    <3> QED
      BY <1>2, <3>2
<1>9. next[n] + 1 > Len(buf)
  BY <1>2, <1>3, <1>7
<1>16. \A i \in 0 .. n : next[i] \in Nat
  BY <1>3, <1>7
<1>10. count = n
  <2>1. n \in 0 .. MaxTlv /\ Stops(n)
    BY <1>2, <1>8, <1>9
  <2>2. ASSUME NEW k \in 0 .. MaxTlv, Stops(k) PROVE k = n
    <3>1. CASE k < n
      <4>1. k \in 0 .. n - 1 /\ k \in 0 .. n /\ k # MaxTlv
        BY <1>2, <3>1
      <4>2. next[k] + 1 <= Len(buf) /\ next[k] + 1 > Len(buf) /\ next[k] \in Nat
        BY <1>8, <1>16, <2>2, <4>1
      <4> QED
        BY <1>2, <4>2
    <3>2. CASE k > n
      <4>1. n \in 0 .. k - 1 /\ n \in 0 .. n
        BY <1>2, <3>2
      <4>2. next[n] + 1 <= Len(buf) /\ next[n] + 1 > Len(buf) /\ next[n] \in Nat
        BY <1>9, <1>16, <2>2, <4>1
      <4> QED
        BY <1>2, <4>2
    <3> QED
      BY <1>2, <3>1, <3>2
  <2> HIDE DEF Stops
  <2> QED
    BY <2>1, <2>2
<1> HIDE DEF count
<1>11. p.buf = buf /\ p.off = [i \in 1 .. n |-> next[i - 1]]
  BY <1>4, <1>10
<1>12. TlvCount(p) = n
  BY <1>2, <1>11 DEF TlvCount
<1>13. ASSUME NEW i \in 1 .. n
       PROVE  TlvType(p, i) = its[i].type /\ TlvValue(p, i) = its[i].value
  <2>1. i - 1 \in 0 .. n /\ ~(i > n)
    BY <1>2
  <2>2. PICK a, v : a = e[i - 1] /\ v = its[i].value
    OBVIOUS
  <2>3. a \in Nat /\ v \in Seq(Nat) /\ Len(v) \in Nat
    BY <1>3, <1>6, <2>1, <2>2
  <2>4. p.off[i] = a + 1
    BY <1>7, <1>11, <2>1, <2>2
  <2>5. /\ buf[a + 1] = its[i].type /\ buf[a + 2] = Len(v)
        /\ \A k \in 1 .. Len(v) : buf[a + 2 + k] = v[k]
        /\ a + 2 + Len(v) <= Len(buf)
    <3>1. i \in 0 .. n
      BY <1>2
    <3> QED
      BY <1>3, <2>2, <3>1
  <2>6. TlvType(p, i) = its[i].type
    BY <1>11, <1>12, <2>1, <2>4, <2>5 DEF TlvType
  <2>7. TlvLength(p, i) = Len(v)
    <3>1. (a + 1) + 1 = a + 2
      BY <2>3
    <3> QED
      BY <1>11, <1>12, <2>1, <2>4, <2>5, <3>1 DEF TlvLength
  <2>8. TlvValue(p, i) = [k \in 1 .. Len(v) |-> ByteAt(buf, (a + 1) + 1 + k)]
    BY <1>11, <2>4, <2>7 DEF TlvValue
  <2>9. ASSUME NEW k \in 1 .. Len(v) PROVE ByteAt(buf, (a + 1) + 1 + k) = v[k]
    <3>1. (a + 1) + 1 + k = a + 2 + k /\ a + 2 + k \in 1 .. Len(buf)
      BY <1>2, <2>3, <2>5
    <3>2. DOMAIN buf = 1 .. Len(buf)
      BY <1>2
    <3> QED
      BY <2>5, <3>1, <3>2 DEF ByteAt
  <2>10. v = [k \in 1 .. Len(v) |-> v[k]]
    BY <2>3
  <2>11. TlvValue(p, i) = v
    BY <2>8, <2>9, <2>10
  <2> QED
    BY <2>2, <2>6, <2>11
<1>14. ASSUME NEW i \in Nat, i > n PROVE TlvType(p, i) = Invalid
  BY <1>12, <1>14 DEF TlvType
<1>15. Reads(p, its)
  BY <1>12, <1>13, <1>14 DEF Reads, n
<1> QED
  BY <1>15 DEF p

-----------------------------------------------------------------------------
(* What an add does to a message of which every add succeeded: it lays out *)
(* some more items, or remembers that it failed.                           *)
Creator == {c \in [buf : Seq(Nat), size : Nat, ok : BOOLEAN] : Len(c.buf) <= c.size}

Grown(c, x, more) ==
  /\ x \in Creator /\ x.size = c.size
  /\ x.ok => c.ok /\ \A its : Laid(c.buf, its) => Laid(x.buf, its \o more)

FirstItems(t, parts, k) == [i \in 1 .. k |-> [type |-> t, value |-> parts[i]]]
ItemsAs(t, parts) == FirstItems(t, parts, Len(parts))

(* An item behind others.                                                  *)
LEMMA ItemBehind ==
  ASSUME NEW its \in Seq(TlvItem), NEW t \in TlvTypes, NEW d \in Seq(Nat)
  PROVE  its \o <<[type |-> t, value |-> d]>> = Append(its, [type |-> t, value |-> d])
<1>1. PICK x : x = [type |-> t, value |-> d]
  OBVIOUS
<1>2. x \in TlvItem
  BY <1>1 DEF TlvItem
<1>3. Append(its, x) = its \o <<x>>
  BY <1>2, AppendIsConcat
<1> QED
  BY <1>1, <1>3

(* The fields of a message.                                                *)
LEMMA Fields ==
  ASSUME NEW c \in Creator
  PROVE  /\ c = [buf |-> c.buf, size |-> c.size, ok |-> c.ok]
         /\ c.buf \in Seq(Nat) /\ c.size \in Nat /\ c.ok \in BOOLEAN
         /\ Len(c.buf) \in Nat /\ Len(c.buf) <= c.size
<1> DEFINE S == Seq(Nat)
<1>1. c \in [buf : S, size : Nat, ok : BOOLEAN] /\ Len(c.buf) <= c.size
  BY DEF Creator
<1>2. c = [buf |-> c.buf, size |-> c.size, ok |-> c.ok] /\ c.buf \in S /\ c.size \in Nat /\ c.ok \in BOOLEAN
  <2> HIDE DEF S
  <2> QED
    BY <1>1
<1>3. PICK b : b = c.buf
  OBVIOUS
<1>4. Len(b) \in Nat
  BY <1>2, <1>3
<1> QED
  BY <1>1, <1>2, <1>3, <1>4

(* A message made of its fields.                                           *)
LEMMA Made ==
  ASSUME NEW b \in Seq(Nat), NEW n \in Nat, NEW o \in BOOLEAN, Len(b) <= n
  PROVE  [buf |-> b, size |-> n, ok |-> o] \in Creator
<1> DEFINE S == Seq(Nat)
           x == [buf |-> b, size |-> n, ok |-> o]
<1>1. x \in [buf : S, size : Nat, ok : BOOLEAN]
  <2>1. b \in S
    OBVIOUS
  <2> HIDE DEF S
  <2> QED
    BY <2>1
<1>2. x.buf = b /\ x.size = n
  OBVIOUS
<1> HIDE DEF x
<1>3. x \in Creator
  BY <1>1, <1>2 DEF Creator
<1> QED
  BY <1>3 DEF x

(* A failed add only remembers that.                                       *)
LEMMA FailedGrown ==
  ASSUME NEW c \in Creator, NEW more
  PROVE  Grown(c, Failed(c), more)
<1> DEFINE x == Failed(c)
<1>1. x = [buf |-> c.buf, size |-> c.size, ok |-> FALSE]
  <2>1. PICK b, n, o : c = [buf |-> b, size |-> n, ok |-> o]
    BY Fields
  <2> QED
    <3>1. c.buf = b /\ c.size = n
      BY <2>1
    <3>2. \A f : [[buf |-> b, size |-> n, ok |-> o] EXCEPT !.ok = f] = [buf |-> b, size |-> n, ok |-> f]
      OBVIOUS
    <3> QED
      BY <2>1, <3>1, <3>2 DEF Failed
<1>2. x \in Creator
  <2>1. c.buf \in Seq(Nat) /\ c.size \in Nat /\ Len(c.buf) <= c.size /\ FALSE \in BOOLEAN
    BY Fields
  <2>2. [buf |-> c.buf, size |-> c.size, ok |-> FALSE] \in Creator
    BY <2>1, Made
  <2> QED
    BY <1>1, <2>2
<1>3. x.size = c.size /\ x.ok = FALSE
  BY <1>1
<1> HIDE DEF x
<1>4. Grown(c, x, more)
  BY <1>2, <1>3 DEF Grown
<1> QED
  BY <1>4 DEF x

(* addBytes.                                                               *)
LEMMA BytesAdded ==
  ASSUME NEW c \in Creator, NEW t \in TlvTypes, NEW d \in Seq(Nat)
  PROVE  Grown(c, TlvAddBytes(c, t, d), <<[type |-> t, value |-> d]>>)
<1>1. CASE Room(c) < Len(d) + 2
  BY <1>1, FailedGrown DEF TlvAddBytes
<1>2. CASE ~(Room(c) < Len(d) + 2)
  <2> DEFINE head == <<t, Len(d)>>
             long == (c.buf \o head) \o d
             x == TlvAddBytes(c, t, d)
             one == <<[type |-> t, value |-> d]>>
  <2>1. /\ t \in Nat /\ Len(d) \in Nat /\ Len(c.buf) \in Nat /\ c.size \in Nat /\ c.ok \in BOOLEAN
        /\ c.buf \in Seq(Nat)
    BY Fields, TlvAssumption DEF TlvTypes
  <2>2. head \in Seq(Nat) /\ Len(head) = 2
    BY <2>1
  <2>3. x = [buf |-> long, size |-> c.size, ok |-> c.ok]
    <3>1. PICK b, n, o : c = [buf |-> b, size |-> n, ok |-> o]
      BY Fields
    <3> QED
      BY <1>2, <3>1 DEF TlvAddBytes
  <2>4. long \in Seq(Nat) /\ Len(long) = Len(c.buf) + 2 + Len(d)
    <3> HIDE DEF head
    <3>1. c.buf \o head \in Seq(Nat) /\ Len(c.buf \o head) = Len(c.buf) + 2
      BY <2>1, <2>2, JoinOfNats
    <3>2. long \in Seq(Nat) /\ Len(long) = Len(c.buf \o head) + Len(d)
      BY <3>1, JoinOfNats
    <3> QED
      BY <2>1, <3>1, <3>2
  <2>5. Len(long) <= c.size
    <3>1. PICK m, l, k : m = Len(long) /\ l = Len(c.buf) /\ k = Len(d)
      OBVIOUS
    <3>2. m = l + 2 + k /\ ~(c.size - l < k + 2) /\ l \in Nat /\ k \in Nat
      BY <1>2, <2>1, <2>4, <3>1 DEF Room
    <3>3. m <= c.size
      BY <2>1, <3>2
    <3> QED
      BY <3>1, <3>3
  <2>6. ASSUME NEW its, Laid(c.buf, its) PROVE Laid(long, its \o one)
    <3>1. Laid(long, Append(its, [type |-> t, value |-> d]))
      BY <2>6, LaidNext
    <3>2. its \in Seq(TlvItem)
      BY <2>6 DEF Laid
    <3> HIDE DEF long
    <3> QED
      BY <3>1, <3>2, ItemBehind
  <2> HIDE DEF long, x, one
  <2>7. x \in Creator
    BY <2>1, <2>3, <2>4, <2>5, Made
  <2>8. x.size = c.size /\ x.ok = c.ok /\ x.buf = long
    BY <2>3
  <2>9. Grown(c, x, one)
    BY <2>6, <2>7, <2>8 DEF Grown
  <2> QED
    BY <2>9 DEF x, one
<1> QED
  BY <1>1, <1>2

(* add of an item without value is addBytes of nothing.                    *)
LEMMA EmptyAdded ==
  ASSUME NEW c \in Creator, NEW t \in TlvTypes
  PROVE  Grown(c, TlvAddEmpty(c, t), <<[type |-> t, value |-> <<>>]>>)
<1>1. PICK d \in Seq(Nat) : d = <<>>
  BY EmptySeq
<1>2. Len(d) = 0
  BY <1>1
<1>3. (c.buf \o <<t, 0>>) \o d = c.buf \o <<t, 0>>
  <2>1. t \in Nat /\ c.buf \in Seq(Nat)
    BY Fields, TlvAssumption DEF TlvTypes
  <2>2. PICK head : head = <<t, 0>>
    OBVIOUS
  <2>3. head \in Seq(Nat)
    BY <2>1, <2>2
  <2>4. c.buf \o head \in Seq(Nat)
    BY <2>1, <2>3, JoinOfNats
  <2>5. PICK w : w = c.buf \o head
    OBVIOUS
  <2>6. w \o <<>> = w
    BY <2>4, <2>5, ConcatEmptySeq
  <2> QED
    BY <1>1, <2>2, <2>5, <2>6
<1>4. Room(c) < 2 <=> Room(c) < Len(d) + 2
  BY <1>2
<1>5. TlvAddEmpty(c, t) = TlvAddBytes(c, t, d)
  <2>1. PICK b, n, o : c = [buf |-> b, size |-> n, ok |-> o]
    BY Fields
  <2> QED
    BY <1>2, <1>3, <1>4, <2>1 DEF TlvAddEmpty, TlvAddBytes
<1>6. Grown(c, TlvAddBytes(c, t, d), <<[type |-> t, value |-> d]>>)
  BY BytesAdded
<1> QED
  BY <1>1, <1>5, <1>6

(* The items data is spread over.                                          *)
ItemEnd(d, i) == IF i * MaxItem > Len(d) THEN Len(d) ELSE i * MaxItem

LEMMA ItemsAre ==
  ASSUME NEW d \in Seq(Nat)
  PROVE  /\ ItemsOf(d) \in Seq(Seq(Nat))
         /\ Len(ItemsOf(d)) = (Len(d) + MaxItem - 1) \div MaxItem
         /\ \A i \in 1 .. Len(ItemsOf(d)) :
               ItemsOf(d)[i] = SubSeq(d, (i - 1) * MaxItem + 1, ItemEnd(d, i))
<1> DEFINE m == (Len(d) + MaxItem - 1) \div MaxItem
           parts == ItemsOf(d)
           S == Seq(Nat)
<1>1. m \in Nat /\ Len(d) \in Nat /\ MaxItem \in Nat \ {0}
  <2>1. Len(d) \in Nat /\ MaxItem \in Nat \ {0}
    BY TlvAssumption
  <2>2. PICK n : n = Len(d) + MaxItem - 1
    OBVIOUS
  <2>3. n \in Nat
    BY <2>1, <2>2
  <2>4. n \div MaxItem \in Nat
    BY <2>1, <2>3, Divides
  <2> QED
    BY <2>1, <2>2, <2>4
<1>2. parts = [i \in 1 .. m |-> SubSeq(d, (i - 1) * MaxItem + 1, ItemEnd(d, i))]
  BY DEF ItemsOf, ItemEnd
<1>3. ASSUME NEW i \in 1 .. m
      PROVE  SubSeq(d, (i - 1) * MaxItem + 1, ItemEnd(d, i)) \in S
  <2>1. PICK a, b : a = (i - 1) * MaxItem /\ b = i * MaxItem
    OBVIOUS
  <2>2. a \in Nat /\ b \in Nat
    <3>1. i \in Nat /\ i - 1 \in Nat
      BY <1>1
    <3> QED
      BY <1>1, <2>1, <3>1
  <2>3. ItemEnd(d, i) \in Nat /\ ItemEnd(d, i) <= Len(d)
    BY <1>1, <2>1, <2>2 DEF ItemEnd
  <2>4. \A j \in a + 1 .. ItemEnd(d, i) : d[j] \in Nat
    BY <1>1, <2>2, <2>3
  <2>5. a + 1 \in Int /\ ItemEnd(d, i) \in Int
    BY <2>2, <2>3
  <2>6. SubSeq(d, a + 1, ItemEnd(d, i)) \in Seq(Nat)
    BY <2>4, <2>5, SubSeqProperties
  <2> QED
    BY <2>1, <2>6
<1> HIDE DEF m, parts, S
<1>4. parts \in Seq(S) /\ Len(parts) = m
  BY <1>1, <1>2, <1>3
<1> QED
  BY <1>2, <1>4 DEF parts, m, S

(* add of data.                                                            *)
Adds(f, c, t, parts) ==
  f = [i \in 0 .. Len(parts) |->
         IF i = 0 THEN [c EXCEPT !.ok = TRUE]
         ELSE IF f[i - 1].ok THEN TlvAddBytes(f[i - 1], t, parts[i])
                             ELSE f[i - 1]]

(* What addBytes returns is a message, in the same buffer.                 *)
LEMMA BytesIn ==
  ASSUME NEW c \in Creator, NEW t \in TlvTypes, NEW d \in Seq(Nat)
  PROVE  TlvAddBytes(c, t, d) \in Creator /\ TlvAddBytes(c, t, d).size = c.size
BY BytesAdded DEF Grown

(* The messages after the items added so far.                              *)
LEMMA AddsExist ==
  ASSUME NEW c \in Creator, NEW t \in TlvTypes, NEW parts \in Seq(Seq(Nat))
  PROVE  \E f : Adds(f, c, t, parts)
<1> DEFINE n == Len(parts)
           z == [c EXCEPT !.ok = TRUE]
           G == [p \in Nat \X Creator |-> IF p[2].ok THEN TlvAddBytes(p[2], t, parts[p[1]]) ELSE p[2]]
<1>1. n \in Nat /\ \A i \in 1 .. n : parts[i] \in Seq(Nat)
  <2> DEFINE S == Seq(Nat)
  <2>1. parts \in Seq(S)
    OBVIOUS
  <2>2. n \in Nat /\ \A i \in 1 .. n : parts[i] \in S
    <3> HIDE DEF S
    <3> QED
      BY <2>1
  <2> QED
    BY <2>2
<1>2. z \in Creator /\ z = [buf |-> c.buf, size |-> c.size, ok |-> TRUE]
  <2>1. PICK b, k, o : c = [buf |-> b, size |-> k, ok |-> o]
    BY Fields
  <2>2. c.buf = b /\ c.size = k
    BY <2>1
  <2>3. \A f : [[buf |-> b, size |-> k, ok |-> o] EXCEPT !.ok = f] = [buf |-> b, size |-> k, ok |-> f]
    OBVIOUS
  <2>4. z = [buf |-> c.buf, size |-> c.size, ok |-> TRUE]
    BY <2>1, <2>2, <2>3
  <2>5. c.buf \in Seq(Nat) /\ c.size \in Nat /\ Len(c.buf) <= c.size /\ TRUE \in BOOLEAN
    BY Fields
  <2>6. [buf |-> c.buf, size |-> c.size, ok |-> TRUE] \in Creator
    BY <2>5, Made
  <2> QED
    BY <2>4, <2>6
<1>3. \A i \in Nat, x \in Creator : G[<<i, x>>] = IF x.ok THEN TlvAddBytes(x, t, parts[i]) ELSE x
  OBVIOUS
<1> HIDE DEF G, z
<1>4. \A i \in 1 .. n, x \in Creator : G[<<i, x>>] \in Creator
  <2> SUFFICES ASSUME NEW i \in 1 .. n, NEW x \in Creator PROVE G[<<i, x>>] \in Creator
    OBVIOUS
  <2>1. i \in Nat /\ parts[i] \in Seq(Nat)
    BY <1>1
  <2>2. TlvAddBytes(x, t, parts[i]) \in Creator
    BY <2>1, BytesIn
  <2> QED
    BY <1>3, <2>1, <2>2
<1>5. PICK f : Recursive(f, Creator, z, G, n)
  <2> HIDE DEF n
  <2> QED
    BY <1>1, <1>2, <1>4, Recursion
<1>6. f \in [0 .. n -> Creator] /\ f[0] = z /\ \A i \in 1 .. n : f[i] = G[<<i, f[i - 1]>>]
  BY <1>5 DEF Recursive
<1>7. ASSUME NEW i \in 0 .. n
      PROVE  f[i] = IF i = 0 THEN z
                    ELSE IF f[i - 1].ok THEN TlvAddBytes(f[i - 1], t, parts[i]) ELSE f[i - 1]
  <2>1. CASE i = 0
    BY <1>6, <2>1
  <2>2. CASE i # 0
    <3>1. i - 1 \in 0 .. n /\ i \in Nat /\ i \in 1 .. n
      BY <1>1, <2>2
    <3>2. f[i - 1] \in Creator
      BY <1>6, <3>1
    <3>3. f[i] = G[<<i, f[i - 1]>>]
      BY <1>6, <3>1
    <3> QED
      BY <1>3, <2>2, <3>1, <3>2, <3>3
  <2> QED
    BY <2>1, <2>2
<1>8. f = [i \in 0 .. n |-> f[i]]
  BY <1>6
<1>9. Adds(f, c, t, parts)
  BY <1>7, <1>8 DEF Adds, z
<1> QED
  BY <1>9

(* Items, behind others, behind others.                                    *)
LEMMA Associative ==
  ASSUME NEW T, NEW a \in Seq(T), NEW b \in Seq(T), NEW d \in Seq(T)
  PROVE  (a \o b) \o d = a \o (b \o d)
BY ConcatAssociative

(* One more of the items of the data.                                      *)
LEMMA NextItem ==
  ASSUME NEW t \in TlvTypes, NEW parts \in Seq(Seq(Nat)), NEW k \in Nat, k + 1 <= Len(parts),
         NEW its \in Seq(TlvItem)
  PROVE  /\ its \o FirstItems(t, parts, k) \in Seq(TlvItem)
         /\ (its \o FirstItems(t, parts, k)) \o <<[type |-> t, value |-> parts[k + 1]]>>
            = its \o FirstItems(t, parts, k + 1)
<1> DEFINE x == FirstItems(t, parts, k)
           z == FirstItems(t, parts, k + 1)
           y == [type |-> t, value |-> parts[k + 1]]
           S == Seq(Nat)
<1>1. Len(parts) \in Nat /\ \A i \in 1 .. Len(parts) : parts[i] \in S
  <2>1. parts \in Seq(S)
    OBVIOUS
  <2> HIDE DEF S
  <2> QED
    BY <2>1
<1>2. \A i \in 1 .. k + 1 : [type |-> t, value |-> parts[i]] \in TlvItem
  <2> SUFFICES ASSUME NEW i \in 1 .. k + 1 PROVE [type |-> t, value |-> parts[i]] \in TlvItem
    OBVIOUS
  <2>1. parts[i] \in Seq(Nat)
    BY <1>1
  <2>2. PICK v : v = parts[i]
    OBVIOUS
  <2> QED
    BY <2>1, <2>2 DEF TlvItem
<1>3. x = [i \in 1 .. k |-> z[i]] /\ z \in [1 .. k + 1 -> TlvItem] /\ z[k + 1] = y
  <2>1. z = [i \in 1 .. k + 1 |-> [type |-> t, value |-> parts[i]]]
    BY DEF FirstItems
  <2>2. x = [i \in 1 .. k |-> [type |-> t, value |-> parts[i]]]
    BY DEF FirstItems
  <2> HIDE DEF x, z
  <2> QED
    BY <1>2, <2>1, <2>2
<1> HIDE DEF x, z, y, S
<1>4. /\ x \in Seq(TlvItem) /\ z \in Seq(TlvItem) /\ Len(x) = k /\ Len(z) = k + 1 /\ y \in TlvItem
      /\ \A i \in 1 .. k : x[i] = z[i]
  <2>1. y \in TlvItem
    BY <1>3
  <2>2. \A i \in 1 .. k : z[i] \in TlvItem
    BY <1>3
  <2>3. x \in Seq(TlvItem) /\ Len(x) = k
    BY <1>3, <2>2
  <2>4. z \in Seq(TlvItem) /\ Len(z) = k + 1
    BY <1>3
  <2> QED
    BY <1>3, <2>1, <2>3, <2>4
<1>5. Append(x, y) = z
  <2>1. /\ Append(x, y) \in Seq(TlvItem) /\ Len(Append(x, y)) = k + 1
        /\ \A i \in 1 .. k : Append(x, y)[i] = x[i]
        /\ Append(x, y)[k + 1] = y
    BY <1>4, AppendProperties
  <2>2. PICK w : w = Append(x, y)
    OBVIOUS
  <2>3. \A i \in 1 .. k + 1 : w[i] = z[i]
    BY <1>3, <1>4, <2>1, <2>2
  <2> QED
    BY <1>4, <2>1, <2>2, <2>3, SeqEqual
<1>6. x \o <<y>> = z
  BY <1>4, <1>5, AppendIsConcat
<1>7. <<y>> \in Seq(TlvItem)
  BY <1>4
<1>8. (its \o x) \o <<y>> = its \o (x \o <<y>>)
  <2>1. PICK u : u = <<y>>
    OBVIOUS
  <2>2. u \in Seq(TlvItem) /\ x \in Seq(TlvItem)
    BY <1>4, <1>7, <2>1
  <2>3. PICK T : T = TlvItem
    OBVIOUS
  <2>4. (its \o x) \o u = its \o (x \o u)
    <3>1. its \in Seq(T) /\ x \in Seq(T) /\ u \in Seq(T)
      BY <2>2, <2>3
    <3> QED
      BY <3>1, Associative
  <2> QED
    BY <2>1, <2>4
<1>9. its \o x \in Seq(TlvItem)
  BY <1>4, ConcatProperties
<1> QED
  BY <1>6, <1>8, <1>9 DEF x, y, z

(* Data lays out all its items, or the message has failed.                 *)
LEMMA DataAdded ==
  ASSUME NEW c \in Creator, NEW t \in TlvTypes, NEW d \in Seq(Nat)
  PROVE  Grown(c, TlvAddData(c, t, d), ItemsAs(t, ItemsOf(d)))
<1> DEFINE parts == ItemsOf(d)
           n == Len(parts)
           f == CHOOSE g : Adds(g, c, t, parts)
           Is(k) == /\ f[k] \in Creator /\ f[k].size = c.size
                    /\ f[k].ok => \A its : Laid(c.buf, its) => Laid(f[k].buf, its \o FirstItems(t, parts, k))
           x == TlvAddData(c, t, d)
<1>1. parts \in Seq(Seq(Nat)) /\ n \in Nat /\ \A i \in 1 .. n : parts[i] \in Seq(Nat)
  <2> DEFINE S == Seq(Nat)
  <2>1. parts \in Seq(S)
    BY ItemsAre
  <2> HIDE DEF S, parts
  <2>2. n \in Nat /\ \A i \in 1 .. n : parts[i] \in S
    BY <2>1
  <2> QED
    BY <2>1, <2>2 DEF S
<1>2. x = [f[n] EXCEPT !.ok = @ /\ c.ok]
  BY DEF TlvAddData, Adds
<1> HIDE DEF parts
<1>3. Adds(f, c, t, parts)
  BY <1>1, AddsExist
<1> HIDE DEF f, n, x
<1>4. \A i \in 0 .. n :
         f[i] = IF i = 0 THEN [c EXCEPT !.ok = TRUE]
                ELSE IF f[i - 1].ok THEN TlvAddBytes(f[i - 1], t, parts[i])
                                    ELSE f[i - 1]
  BY <1>3 DEF Adds, n
<1>5. Is(0)
  <2>1. f[0] = [buf |-> c.buf, size |-> c.size, ok |-> TRUE]
    <3>1. PICK b, k, o : c = [buf |-> b, size |-> k, ok |-> o]
      BY Fields
    <3>2. c.buf = b /\ c.size = k
      BY <3>1
    <3>3. \A g : [[buf |-> b, size |-> k, ok |-> o] EXCEPT !.ok = g] = [buf |-> b, size |-> k, ok |-> g]
      OBVIOUS
    <3>4. 0 \in 0 .. n
      BY <1>1
    <3>5. f[0] = [c EXCEPT !.ok = TRUE]
      BY <1>4, <3>4
    <3> QED
      BY <3>1, <3>2, <3>3, <3>5
  <2>2. c.buf \in Seq(Nat) /\ c.size \in Nat /\ Len(c.buf) <= c.size /\ TRUE \in BOOLEAN
    BY Fields
  <2>3. [buf |-> c.buf, size |-> c.size, ok |-> TRUE] \in Creator
    BY <2>2, Made
  <2>4. f[0].size = c.size /\ f[0].buf = c.buf
    BY <2>1
  <2>5. ASSUME NEW its, Laid(c.buf, its) PROVE Laid(f[0].buf, its \o FirstItems(t, parts, 0))
    <3>1. its \in Seq(TlvItem)
      BY <2>5 DEF Laid
    <3>2. FirstItems(t, parts, 0) = <<>>
      BY DEF FirstItems
    <3>3. its \o <<>> = its
      BY <3>1, ConcatEmptySeq
    <3> QED
      BY <2>4, <2>5, <3>2, <3>3
  <2> QED
    BY <2>1, <2>3, <2>4, <2>5
<1>6. ASSUME NEW k \in Nat, k + 1 <= n, Is(k) PROVE Is(k + 1)
  <2>1. k + 1 \in 0 .. n /\ k + 1 # 0 /\ (k + 1) - 1 = k /\ k + 1 \in 1 .. n
    BY <1>1, <1>6
  <2>2. f[k + 1] = IF f[k].ok THEN TlvAddBytes(f[k], t, parts[k + 1]) ELSE f[k]
    BY <1>4, <2>1
  <2>3. CASE ~ f[k].ok
    <3>1. f[k + 1] = f[k]
      BY <2>2, <2>3
    <3> QED
      BY <1>6, <2>3, <3>1
  <2>4. CASE f[k].ok
    <3>1. f[k + 1] = TlvAddBytes(f[k], t, parts[k + 1])
      BY <2>2, <2>4
    <3>2. Grown(f[k], f[k + 1], <<[type |-> t, value |-> parts[k + 1]]>>)
      <4>1. f[k] \in Creator /\ parts[k + 1] \in Seq(Nat)
        BY <1>1, <1>6, <2>1
      <4> QED
        BY <3>1, <4>1, BytesAdded
    <3>3. /\ f[k + 1] \in Creator /\ f[k + 1].size = c.size
          /\ f[k + 1].ok => \A its : Laid(f[k].buf, its) =>
                                      Laid(f[k + 1].buf, its \o <<[type |-> t, value |-> parts[k + 1]]>>)
      BY <1>6, <3>2 DEF Grown
    <3>4. ASSUME f[k + 1].ok, NEW its, Laid(c.buf, its)
          PROVE  Laid(f[k + 1].buf, its \o FirstItems(t, parts, k + 1))
      <4>1. Laid(f[k].buf, its \o FirstItems(t, parts, k))
        BY <1>6, <2>4, <3>4
      <4>2. Laid(f[k + 1].buf, (its \o FirstItems(t, parts, k)) \o <<[type |-> t, value |-> parts[k + 1]]>>)
        BY <3>3, <3>4, <4>1
      <4>3. its \in Seq(TlvItem)
        BY <3>4 DEF Laid
      <4>4. (its \o FirstItems(t, parts, k)) \o <<[type |-> t, value |-> parts[k + 1]]>>
            = its \o FirstItems(t, parts, k + 1)
        BY <1>1, <1>6, <4>3, NextItem DEF n
      <4> QED
        BY <4>2, <4>4
    <3> QED
      BY <3>3, <3>4
  <2> QED
    BY <2>3, <2>4
<1> HIDE DEF Is
<1>7. Is(n)
  <2> DEFINE S == {k \in Nat : k <= n => Is(k)}
  <2>1. 0 \in S
    BY <1>5
  <2>2. \A k \in Nat : k \in S => k + 1 \in S
    BY <1>1, <1>6
  <2> HIDE DEF S
  <2>3. Nat \subseteq S
    BY <2>1, <2>2, Numbers
  <2> QED
    BY <1>1, <2>3 DEF S
<1>8. /\ f[n] \in Creator /\ f[n].size = c.size
      /\ f[n].ok => \A its : Laid(c.buf, its) => Laid(f[n].buf, its \o FirstItems(t, parts, n))
  BY <1>7 DEF Is
<1>9. x = [buf |-> f[n].buf, size |-> f[n].size, ok |-> f[n].ok /\ c.ok]
  <2>1. PICK b, k, o : f[n] = [buf |-> b, size |-> k, ok |-> o]
    <3>1. PICK q : q = f[n] /\ q \in Creator
      BY <1>8
    <3>2. q = [buf |-> q.buf, size |-> q.size, ok |-> q.ok]
      BY <3>1, Fields
    <3> QED
      BY <3>1, <3>2
  <2>2. f[n].buf = b /\ f[n].size = k /\ f[n].ok = o
    BY <2>1
  <2>3. \A g : [[buf |-> b, size |-> k, ok |-> o] EXCEPT !.ok = g] = [buf |-> b, size |-> k, ok |-> g]
    OBVIOUS
  <2>4. x = [f[n] EXCEPT !.ok = f[n].ok /\ c.ok]
    BY <1>2
  <2>5. PICK g : g = (f[n].ok /\ c.ok)
    OBVIOUS
  <2>6. x = [f[n] EXCEPT !.ok = g]
    BY <2>4, <2>5
  <2>7. x = [buf |-> b, size |-> k, ok |-> g]
    BY <2>1, <2>3, <2>6
  <2> QED
    BY <2>2, <2>5, <2>7
<1>10. x \in Creator /\ x.size = c.size /\ x.buf = f[n].buf /\ (x.ok => f[n].ok /\ c.ok)
  <2>1. PICK g : g = (f[n].ok /\ c.ok) /\ g \in BOOLEAN
    OBVIOUS
  <2>2. x = [buf |-> f[n].buf, size |-> f[n].size, ok |-> g]
    BY <1>9, <2>1
  <2>3. f[n].buf \in Seq(Nat) /\ f[n].size \in Nat /\ Len(f[n].buf) <= f[n].size
    <3>1. PICK q : q = f[n] /\ q \in Creator
      BY <1>8
    <3>2. q.buf \in Seq(Nat) /\ q.size \in Nat /\ Len(q.buf) <= q.size
      BY <3>1, Fields
    <3> QED
      BY <3>1, <3>2
  <2>4. [buf |-> f[n].buf, size |-> f[n].size, ok |-> g] \in Creator
    BY <2>1, <2>3, Made
  <2>5. x.size = f[n].size /\ x.buf = f[n].buf /\ x.ok = g
    BY <2>2
  <2> QED
    BY <1>8, <2>1, <2>2, <2>4, <2>5
<1>11. Grown(c, x, ItemsAs(t, parts))
  BY <1>8, <1>10 DEF Grown, ItemsAs, n
<1> QED
  BY <1>11 DEF x, parts

-----------------------------------------------------------------------------
(* A set of numbers has a least one.                                       *)
LEMMA LeastNumber ==
  ASSUME NEW S, S \subseteq Nat, NEW x \in S
  PROVE  \E y \in S : \A z \in S : y <= z
<1> DEFINE T == {k \in Nat : \A z \in S : ~ (z <= k)}
<1> SUFFICES ASSUME \A y \in S : \E z \in S : ~ (y <= z) PROVE FALSE
  OBVIOUS
<1>1. 0 \in T
  OBVIOUS
<1>2. ASSUME NEW k \in Nat, k \in T PROVE k + 1 \in T
  <2>1. ASSUME NEW z \in S, z <= k + 1 PROVE FALSE
    <3>1. \A w \in S : w \in Nat /\ ~ (w <= k)
      BY <1>2
    <3>2. z = k + 1
      BY <2>1, <3>1
    <3>3. PICK w \in S : ~ (z <= w)
      BY <2>1
    <3> QED
      BY <3>1, <3>2, <3>3
  <2> QED
    BY <2>1
<1> HIDE DEF T
<1>3. Nat \subseteq T
  BY <1>1, <1>2, Numbers
<1> QED
  BY <1>3 DEF T

(* The bytes of an integer, and the integer of the bytes.                  *)
Rests(f, v) == f = [i \in 0 .. v + 1 |-> IF i = 0 THEN v ELSE f[i - 1] \div OneByte]
Sums(f, bytes) ==
  f = [i \in 0 .. Len(bytes) |-> IF i = 0 THEN 0 ELSE bytes[Len(bytes) + 1 - i] + OneByte * f[i - 1]]

(* There are at least two bytes.                                           *)
LEMMA OneByteIs == OneByte \in Nat /\ OneByte >= 2
BY TlvAssumption DEF OneByte

(* What is left of a number, byte after byte.                              *)
LEMMA RestsAre ==
  ASSUME NEW v \in Nat
  PROVE  \E f : Rests(f, v) /\ f \in [0 .. v + 1 -> Nat]
<1> DEFINE G == [p \in Nat \X Nat |-> p[2] \div OneByte]
<1>1. \A i, d \in Nat : G[<<i, d>>] = d \div OneByte
  OBVIOUS
<1>2. \A i \in 1 .. v + 1, d \in Nat : G[<<i, d>>] \in Nat
  <2> SUFFICES ASSUME NEW i \in 1 .. v + 1, NEW d \in Nat PROVE G[<<i, d>>] \in Nat
    OBVIOUS
  <2>1. G[<<i, d>>] = d \div OneByte
    BY <1>1
  <2>2. PICK b : b = OneByte
    OBVIOUS
  <2>3. b \in Nat \ {0}
    BY <2>2, OneByteIs
  <2>4. d \div b \in Nat
    BY <2>3, Divides
  <2> HIDE DEF G
  <2> QED
    BY <2>1, <2>2, <2>4
<1> HIDE DEF G
<1>3. v + 1 \in Nat
  OBVIOUS
<1>4. PICK f : Recursive(f, Nat, v, G, v + 1)
  BY <1>2, <1>3, Recursion
<1>5. f \in [0 .. v + 1 -> Nat] /\ f[0] = v /\ \A i \in 1 .. v + 1 : f[i] = G[<<i, f[i - 1]>>]
  BY <1>4 DEF Recursive
<1>6. ASSUME NEW i \in 0 .. v + 1 PROVE f[i] = IF i = 0 THEN v ELSE f[i - 1] \div OneByte
  <2>1. CASE i = 0
    BY <1>5, <2>1
  <2>2. CASE i # 0
    <3>1. i - 1 \in 0 .. v + 1 /\ i \in Nat /\ i \in 1 .. v + 1
      BY <2>2
    <3>2. f[i - 1] \in Nat /\ f[i] = G[<<i, f[i - 1]>>]
      BY <1>5, <3>1
    <3> QED
      BY <1>1, <2>2, <3>1, <3>2
  <2> QED
    BY <2>1, <2>2
<1>7. f = [i \in 0 .. v + 1 |-> f[i]]
  BY <1>5
<1>8. Rests(f, v)
  BY <1>6, <1>7 DEF Rests
<1> QED
  BY <1>5, <1>8

(* What the bytes read so far make.                                        *)
LEMMA SumsAre ==
  ASSUME NEW bytes \in Seq(Nat)
  PROVE  \E f : Sums(f, bytes) /\ f \in [0 .. Len(bytes) -> Nat]
<1> DEFINE n == Len(bytes)
           G == [p \in Nat \X Nat |-> bytes[n + 1 - p[1]] + OneByte * p[2]]
<1>1. \A i, d \in Nat : G[<<i, d>>] = bytes[n + 1 - i] + OneByte * d
  OBVIOUS
<1>2. n \in Nat
  OBVIOUS
<1>3. \A i \in 1 .. n, d \in Nat : G[<<i, d>>] \in Nat
  <2> SUFFICES ASSUME NEW i \in 1 .. n, NEW d \in Nat PROVE G[<<i, d>>] \in Nat
    OBVIOUS
  <2>1. G[<<i, d>>] = bytes[n + 1 - i] + OneByte * d
    BY <1>1, <1>2
  <2>2. n + 1 - i \in 1 .. n
    BY <1>2
  <2>3. bytes[n + 1 - i] \in Nat
    BY <2>2
  <2>4. PICK m : m = OneByte * d
    OBVIOUS
  <2>5. m \in Nat
    BY <2>4, OneByteIs
  <2> HIDE DEF G, n
  <2> QED
    BY <2>1, <2>3, <2>4, <2>5
<1> HIDE DEF G
<1>4. PICK f : Recursive(f, Nat, 0, G, n)
  <2> HIDE DEF n
  <2> QED
    BY <1>2, <1>3, Recursion
<1>5. f \in [0 .. n -> Nat] /\ f[0] = 0 /\ \A i \in 1 .. n : f[i] = G[<<i, f[i - 1]>>]
  BY <1>4 DEF Recursive
<1>6. ASSUME NEW i \in 0 .. n PROVE f[i] = IF i = 0 THEN 0 ELSE bytes[n + 1 - i] + OneByte * f[i - 1]
  <2>1. CASE i = 0
    BY <1>5, <2>1
  <2>2. CASE i # 0
    <3>1. i - 1 \in 0 .. n /\ i \in Nat /\ i \in 1 .. n
      BY <1>2, <2>2
    <3>2. f[i - 1] \in Nat /\ f[i] = G[<<i, f[i - 1]>>]
      BY <1>5, <3>1
    <3> QED
      BY <1>1, <2>2, <3>1, <3>2
  <2> QED
    BY <2>1, <2>2
<1>7. f = [i \in 0 .. n |-> f[i]]
  BY <1>5
<1>8. Sums(f, bytes)
  BY <1>6, <1>7 DEF Sums
<1> QED
  BY <1>5, <1>8

(* A number that is left gets smaller with every byte.                     *)
LEMMA Smaller ==
  ASSUME NEW r \in Nat
  PROVE  /\ r \div OneByte \in Nat /\ r % OneByte \in Nat
         /\ r = OneByte * (r \div OneByte) + (r % OneByte)
         /\ r # 0 => r \div OneByte < r
         /\ r = 0 => r \div OneByte = 0
<1>1. PICK q, m, b : q = r \div OneByte /\ m = r % OneByte /\ b = OneByte
  OBVIOUS
<1>2. /\ q \in Nat /\ m \in 0 .. b - 1 /\ r = b * q + m /\ b \in Nat /\ b >= 2
  <2>1. b \in Nat \ {0} /\ b >= 2
    BY <1>1, OneByteIs
  <2>2. r = b * (r \div b) + (r % b) /\ r % b \in 0 .. b - 1 /\ r \div b \in Nat
    BY <2>1, Divides
  <2> QED
    BY <1>1, <2>1, <2>2
<1>3. (b - 2) * q \in Nat /\ b * q = 2 * q + (b - 2) * q
  BY <1>2
<1>4. r >= 2 * q
  BY <1>2, <1>3
<1>5. (r # 0 => q < r) /\ (r = 0 => q = 0)
  BY <1>2, <1>4
<1> QED
  BY <1>1, <1>2, <1>5

LeftBy(r, q, m) == m \in Nat /\ r = OneByte * q + m

(* The bytes of an integer make that integer again.                        *)
LEMMA IntBack ==
  ASSUME NEW v \in Nat
  PROVE  IntBytes(v) \in Seq(Nat) /\ IntOf(IntBytes(v)) = v
<1> DEFINE rest == CHOOSE f : Rests(f, v)
           Ends(n) == rest[n] = 0 /\ \A i \in 1 .. n - 1 : rest[i] # 0
           n == CHOOSE k \in 1 .. v + 1 : Ends(k)
           bytes == IntBytes(v)
<1>1. bytes = [i \in 1 .. n |-> rest[i - 1] % OneByte]
  BY DEF IntBytes, Rests
<1>2. Rests(rest, v)
  BY RestsAre
<1> HIDE DEF rest, bytes
<1>3. rest[0] = v /\ \A i \in 1 .. v + 1 : rest[i] = rest[i - 1] \div OneByte
  <2>1. \A i \in 0 .. v + 1 : rest[i] = IF i = 0 THEN v ELSE rest[i - 1] \div OneByte
    BY <1>2 DEF Rests
  <2>2. 0 \in 0 .. v + 1 /\ \A i \in 1 .. v + 1 : i \in 0 .. v + 1 /\ i # 0
    OBVIOUS
  <2> QED
    BY <2>1, <2>2
<1>4. \A i \in 0 .. v + 1 : rest[i] \in Nat /\ (rest[i] = 0 \/ rest[i] + i <= v)
  <2> DEFINE S == {i \in Nat : i <= v + 1 => rest[i] \in Nat /\ (rest[i] = 0 \/ rest[i] + i <= v)}
  <2>1. 0 \in S
    BY <1>3
  <2>2. ASSUME NEW i \in Nat, i \in S PROVE i + 1 \in S
    <3> SUFFICES ASSUME i + 1 <= v + 1 PROVE rest[i + 1] \in Nat /\ (rest[i + 1] = 0 \/ rest[i + 1] + (i + 1) <= v)
      OBVIOUS
    <3>1. i + 1 \in 1 .. v + 1 /\ (i + 1) - 1 = i /\ i <= v + 1
      OBVIOUS
    <3>2. PICK r, q : r = rest[i] /\ q = rest[i + 1]
      OBVIOUS
    <3>3. q = r \div OneByte /\ r \in Nat /\ (r = 0 \/ r + i <= v)
      BY <1>3, <2>2, <3>1, <3>2
    <3>4. q \in Nat /\ (r # 0 => q < r) /\ (r = 0 => q = 0)
      BY <3>3, Smaller
    <3>5. q = 0 \/ q + (i + 1) <= v
      BY <3>3, <3>4
    <3> QED
      BY <3>2, <3>4, <3>5
  <2> HIDE DEF S
  <2>3. Nat \subseteq S
    BY <2>1, <2>2, Numbers
  <2> QED
    BY <2>3 DEF S
<1>5. \E k \in 1 .. v + 1 : Ends(k)
  <2> DEFINE S == {k \in 1 .. v + 1 : rest[k] = 0}
  <2>1. v + 1 \in S
    <3>1. v + 1 \in 0 .. v + 1 /\ v + 1 \in 1 .. v + 1
      OBVIOUS
    <3>2. PICK r : r = rest[v + 1]
      OBVIOUS
    <3>3. r \in Nat /\ (r = 0 \/ r + (v + 1) <= v)
      BY <1>4, <3>1, <3>2
    <3> QED
      BY <3>1, <3>2, <3>3
  <2>2. S \subseteq Nat
    OBVIOUS
  <2>3. PICK k \in S : \A z \in S : k <= z
    <3> HIDE DEF S
    <3> QED
      BY <2>1, <2>2, LeastNumber
  <2>4. ASSUME NEW i \in 1 .. k - 1, rest[i] = 0 PROVE FALSE
    <3>1. i \in S /\ ~ (k <= i)
      BY <2>4
    <3> QED
      BY <2>3, <3>1
  <2> QED
    BY <2>4
<1>6. n \in 1 .. v + 1 /\ Ends(n)
  <2> HIDE DEF Ends
  <2> QED
    BY <1>5
<1> HIDE DEF n
<1>7. \A i \in 1 .. n : LeftBy(rest[i - 1], rest[i], rest[i - 1] % OneByte)
  <2> SUFFICES ASSUME NEW i \in 1 .. n PROVE LeftBy(rest[i - 1], rest[i], rest[i - 1] % OneByte)
    OBVIOUS
  <2>1. i \in 1 .. v + 1 /\ i - 1 \in 0 .. v + 1
    BY <1>6
  <2>2. PICK r : r = rest[i - 1]
    OBVIOUS
  <2>3. r \in Nat /\ rest[i] = r \div OneByte
    BY <1>3, <1>4, <2>1, <2>2
  <2>4. LeftBy(r, r \div OneByte, r % OneByte)
    BY <2>3, Smaller DEF LeftBy
  <2> QED
    BY <2>2, <2>3, <2>4
<1>8. bytes \in Seq(Nat) /\ Len(bytes) = n
  <2>1. n \in Nat
    BY <1>6
  <2>2. \A i \in 1 .. n : rest[i - 1] % OneByte \in Nat
    BY <1>7 DEF LeftBy
  <2> DEFINE g(i) == rest[i - 1] % OneByte
  <2>3. bytes = [i \in 1 .. n |-> g(i)] /\ \A i \in 1 .. n : g(i) \in Nat
    BY <1>1, <2>2
  <2> HIDE DEF g
  <2> QED
    BY <2>1, <2>3
<1> DEFINE from == CHOOSE f : Sums(f, bytes)
<1>9. IntOf(bytes) = from[n]
  BY <1>8 DEF IntOf, Sums
<1>10. Sums(from, bytes)
  BY <1>8, SumsAre
<1> HIDE DEF from
<1>11. from[0] = 0 /\ \A i \in 1 .. n : from[i] = bytes[n + 1 - i] + OneByte * from[i - 1]
  <2>1. \A i \in 0 .. n : from[i] = IF i = 0 THEN 0 ELSE bytes[n + 1 - i] + OneByte * from[i - 1]
    BY <1>8, <1>10 DEF Sums
  <2>2. 0 \in 0 .. n /\ \A i \in 1 .. n : i \in 0 .. n /\ i # 0
    BY <1>6
  <2> QED
    BY <2>1, <2>2
<1>12. \A i \in 0 .. n : from[i] = rest[n - i]
  <2> DEFINE S == {i \in Nat : i <= n => from[i] = rest[n - i]}
  <2>1. 0 \in S
    BY <1>6, <1>11
  <2>2. ASSUME NEW i \in Nat, i \in S PROVE i + 1 \in S
    <3> SUFFICES ASSUME i + 1 <= n PROVE from[i + 1] = rest[n - (i + 1)]
      OBVIOUS
    <3>1. PICK j : j = n - i
      OBVIOUS
    <3>2. j \in 1 .. n /\ i + 1 \in 1 .. n /\ n + 1 - (i + 1) = j /\ (i + 1) - 1 = i /\ n - (i + 1) = j - 1 /\ i <= n
      BY <1>6, <3>1
    <3>3. from[i] = rest[j]
      BY <2>2, <3>1, <3>2
    <3>4. from[i + 1] = bytes[j] + OneByte * rest[j]
      BY <1>11, <3>2, <3>3
    <3>5. bytes[j] = rest[j - 1] % OneByte
      BY <1>1, <3>2
    <3>6. PICK a, m, r : a = OneByte * rest[j] /\ m = rest[j - 1] % OneByte /\ r = rest[j - 1]
      OBVIOUS
    <3>7. r = a + m /\ from[i + 1] = m + a /\ m \in Nat
      <4>1. PICK q : q = rest[j]
        OBVIOUS
      <4>4. LeftBy(r, q, m)
        BY <1>7, <3>2, <3>6, <4>1
      <4>2. m \in Nat /\ r = a + m
        BY <3>6, <4>1, <4>4 DEF LeftBy
      <4>3. from[i + 1] = m + a
        BY <3>4, <3>5, <3>6
      <4> QED
        BY <4>2, <4>3
    <3>8. a \in Nat
      <4>1. j \in 0 .. v + 1
        BY <1>6, <3>2
      <4>2. rest[j] \in Nat
        BY <1>4, <4>1
      <4>3. PICK w : w = rest[j]
        OBVIOUS
      <4> QED
        BY <3>6, <4>2, <4>3, OneByteIs
    <3>9. from[i + 1] = r
      BY <3>7, <3>8
    <3> QED
      BY <3>2, <3>6, <3>9
  <2> HIDE DEF S
  <2>3. Nat \subseteq S
    BY <2>1, <2>2, Numbers
  <2> QED
    BY <1>6, <2>3 DEF S
<1>13. from[n] = v
  <2>1. n \in 0 .. n /\ n - n = 0
    BY <1>6
  <2> QED
    BY <1>3, <1>12, <2>1
<1> QED
  BY <1>8, <1>9, <1>13 DEF bytes

(* addInt is addBytes of the bytes of the integer, or fails.               *)
LEMMA IntAdded ==
  ASSUME NEW c \in Creator, NEW t \in TlvTypes, NEW v \in Nat
  PROVE  Grown(c, TlvAddInt(c, t, v), <<[type |-> t, value |-> IntBytes(v)]>>)
<1>1. PICK b : b = IntBytes(v)
  OBVIOUS
<1>2. b \in Seq(Nat)
  BY <1>1, IntBack
<1>3. CASE Room(c) < 3 \/ Len(b) + 2 >= Room(c)
  <2>1. TlvAddInt(c, t, v) = Failed(c)
    BY <1>1, <1>3 DEF TlvAddInt
  <2> QED
    BY <2>1, FailedGrown
<1>4. CASE ~ (Room(c) < 3 \/ Len(b) + 2 >= Room(c))
  <2>1. Room(c) \in Int /\ Len(b) \in Nat
    <3>1. Len(c.buf) \in Nat /\ c.size \in Nat
      BY Fields
    <3> QED
      BY <1>2, <3>1 DEF Room
  <2>2. ~ (Room(c) < Len(b) + 2)
    BY <1>4, <2>1
  <2>3. TlvAddInt(c, t, v) = TlvAddBytes(c, t, b)
    BY <1>1, <1>4, <2>2 DEF TlvAddInt, TlvAddBytes
  <2>4. Grown(c, TlvAddBytes(c, t, b), <<[type |-> t, value |-> b]>>)
    BY <1>2, BytesAdded
  <2> QED
    BY <1>1, <2>3, <2>4
<1> QED
  BY <1>3, <1>4

-----------------------------------------------------------------------------
(* What is read back: the items of a type are a run of items.              *)
RunOf(its, t, parts, first) ==
  /\ first \in Nat \ {0} /\ first + Len(parts) - 1 <= Len(its)
  /\ \A k \in 1 .. Len(parts) : its[first + k - 1] = [type |-> t, value |-> parts[k]]
  /\ \A j \in 1 .. Len(its) : its[j].type = t => j \in first .. first + Len(parts) - 1

FoundAt(p, t, parts, first) ==
  /\ Len(parts) \in Nat
  /\ TlvFind(p, t) = IF Len(parts) = 0 THEN 0 ELSE first
  /\ \A k \in 1 .. Len(parts) : TlvValue(p, first + k - 1) = parts[k] /\ parts[k] \in Seq(Nat)
  /\ \A j \in Nat : TlvType(p, j) = t /\ j \in 1 .. TlvCount(p) <=> j \in first .. first + Len(parts) - 1

(* find returns the first of the run, and nothing else has the type.       *)
LEMMA Found ==
  ASSUME NEW p, NEW its \in Seq(TlvItem), Reads(p, its), NEW t, NEW parts \in Seq(Seq(Nat)),
         NEW first, RunOf(its, t, parts, first)
  PROVE  FoundAt(p, t, parts, first)
<1> DEFINE n == Len(parts)
           has == {i \in 1 .. TlvCount(p) : TlvType(p, i) = t}
           S == Seq(Nat)
<1>1. n \in Nat /\ Len(its) \in Nat /\ first \in Nat \ {0} /\ first + n - 1 <= Len(its)
  BY DEF RunOf
<1>2. \A k \in 1 .. n : parts[k] \in S
  <2>1. parts \in Seq(S)
    OBVIOUS
  <2> HIDE DEF S
  <2> QED
    BY <2>1
<1>3. ASSUME NEW k \in 1 .. n
      PROVE  /\ first + k - 1 \in 1 .. Len(its)
             /\ TlvType(p, first + k - 1) = t /\ TlvValue(p, first + k - 1) = parts[k]
  <2>1. first + k - 1 \in 1 .. Len(its)
    BY <1>1
  <2>2. its[first + k - 1] = [type |-> t, value |-> parts[k]]
    BY DEF RunOf
  <2>3. its[first + k - 1].type = t /\ its[first + k - 1].value = parts[k]
    BY <2>2
  <2> QED
    BY <2>1, <2>3 DEF Reads
<1>4. TlvCount(p) = Len(its)
  BY DEF Reads
<1>5. ASSUME NEW j \in 1 .. Len(its)
      PROVE  TlvType(p, j) = t <=> j \in first .. first + n - 1
  <2>1. TlvType(p, j) = its[j].type
    BY DEF Reads
  <2>2. its[j].type = t => j \in first .. first + n - 1
    BY DEF RunOf
  <2>3. ASSUME j \in first .. first + n - 1 PROVE TlvType(p, j) = t
    <3>1. j - first + 1 \in 1 .. n /\ first + (j - first + 1) - 1 = j
      BY <1>1, <2>3
    <3>2. PICK k \in 1 .. n : first + k - 1 = j
      BY <3>1
    <3> QED
      BY <1>3, <3>2
  <2> QED
    BY <2>1, <2>2, <2>3
<1>6. \A j \in Nat : TlvType(p, j) = t /\ j \in 1 .. TlvCount(p) <=> j \in first .. first + n - 1
  <2> SUFFICES ASSUME NEW j \in Nat
               PROVE  TlvType(p, j) = t /\ j \in 1 .. TlvCount(p) <=> j \in first .. first + n - 1
    OBVIOUS
  <2>1. j \in first .. first + n - 1 => j \in 1 .. Len(its)
    BY <1>1
  <2> QED
    BY <1>4, <1>5, <2>1
<1>7. has = first .. first + n - 1
  <2>1. \A j \in has : j \in first .. first + n - 1
    BY <1>1, <1>4, <1>5
  <2>2. \A j \in first .. first + n - 1 : j \in 1 .. Len(its) /\ TlvType(p, j) = t
    BY <1>1, <1>5
  <2> QED
    BY <1>4, <2>1, <2>2
<1>8. TlvFind(p, t) = IF has = {} THEN 0 ELSE CHOOSE i \in has : \A j \in has : i <= j
  BY DEF TlvFind
<1> HIDE DEF has
<1>9. TlvFind(p, t) = IF n = 0 THEN 0 ELSE first
  <2>1. CASE n = 0
    BY <1>1, <1>7, <1>8, <2>1
  <2>2. CASE n # 0
    <3>1. first \in has /\ \A j \in has : first <= j /\ j \in Nat
      BY <1>1, <1>7, <2>2
    <3>2. \A i \in has : (\A j \in has : i <= j) => i = first
      BY <1>1, <3>1
    <3> QED
      BY <1>8, <2>2, <3>1, <3>2
  <2> QED
    BY <2>1, <2>2
<1> QED
  BY <1>1, <1>2, <1>3, <1>6, <1>9 DEF FoundAt

(* One item of a type is read back by get.                                 *)
LEMMA Got ==
  ASSUME NEW p, NEW its \in Seq(TlvItem), Reads(p, its), NEW t, NEW parts \in Seq(Seq(Nat)),
         NEW first, RunOf(its, t, parts, first)
  PROVE  TlvGet(p, t) = IF Len(parts) = 0 THEN TlvNotFound ELSE TlvFound(parts[1])
<1>1. first \in Nat \ {0}
  BY DEF RunOf
<1>2. /\ Len(parts) \in Nat /\ TlvFind(p, t) = IF Len(parts) = 0 THEN 0 ELSE first
      /\ \A k \in 1 .. Len(parts) : TlvValue(p, first + k - 1) = parts[k]
  <2>1. FoundAt(p, t, parts, first)
    BY Found
  <2> QED
    BY <2>1 DEF FoundAt
<1>3. Len(parts) # 0 => TlvValue(p, first) = parts[1]
  <2>1. Len(parts) # 0 => 1 \in 1 .. Len(parts)
    BY <1>2
  <2>2. first + 1 - 1 = first
    BY <1>1
  <2> QED
    BY <1>2, <2>1, <2>2
<1> QED
  BY <1>1, <1>2, <1>3 DEF TlvGet, TlvFound, TlvNotFound

(* The items of data, one behind the other, are the data.                  *)
LEMMA ItemsEnd ==
  ASSUME NEW d \in Seq(Nat)
  PROVE  /\ Len(ItemsOf(d)) \in Nat
         /\ Len(ItemsOf(d)) = 0 <=> Len(d) = 0
         /\ ItemEnd(d, Len(ItemsOf(d))) = Len(d)
         /\ \A k \in 0 .. Len(ItemsOf(d)) - 1 : ItemEnd(d, k) = k * MaxItem
         /\ \A k \in 0 .. Len(ItemsOf(d)) : ItemEnd(d, k) \in 0 .. Len(d)
         /\ \A k \in 1 .. Len(ItemsOf(d)) : ItemEnd(d, k - 1) <= ItemEnd(d, k)
         /\ Len(d) \in 1 .. MaxItem => Len(ItemsOf(d)) = 1
<1>1. PICK m, l, s : m = Len(ItemsOf(d)) /\ l = Len(d) /\ s = MaxItem
  OBVIOUS
<1>2. l \in Nat /\ s \in Nat \ {0} /\ m = (l + s - 1) \div s
  BY <1>1, ItemsAre, TlvAssumption
<1>3. PICK r : r = (l + s - 1) % s
  OBVIOUS
<1>4. l + s - 1 \in Nat
  BY <1>2
<1>5. l + s - 1 = s * m + r /\ r \in 0 .. s - 1 /\ m \in Nat
  BY <1>2, <1>3, <1>4, Divides
<1>6. PICK w : w = m * s /\ w \in Nat /\ w = s * m
  <2>1. m * s \in Nat /\ m * s = s * m
    BY <1>2, <1>5
  <2> QED
    BY <2>1
<1>7. l + s - 1 = w + r
  BY <1>5, <1>6
<1>8. w >= l
  BY <1>2, <1>5, <1>6, <1>7
<1>9. \A k \in 0 .. m - 1 : k * s \in Nat /\ k * s < l
  <2> SUFFICES ASSUME NEW k \in 0 .. m - 1 PROVE k * s \in Nat /\ k * s < l
    OBVIOUS
  <2>1. k \in Nat /\ m - 1 - k \in Nat
    BY <1>5
  <2>2. PICK x, y : x = k * s /\ y = (m - 1 - k) * s
    OBVIOUS
  <2>3. x \in Nat /\ y \in Nat
    BY <1>2, <2>1, <2>2
  <2>4. (m - 1 - k) * s = m * s - s - k * s
    BY <1>2, <1>5, <2>1
  <2>5. y = w - s - x
    BY <1>6, <2>2, <2>4
  <2>6. x < l
    BY <1>2, <1>5, <1>6, <1>7, <2>3, <2>5
  <2> QED
    BY <2>2, <2>3, <2>6
<1>10. ItemEnd(d, m) = l
  BY <1>1, <1>2, <1>6, <1>8 DEF ItemEnd
<1>11. \A k \in 0 .. m - 1 : ItemEnd(d, k) = k * s
  <2> SUFFICES ASSUME NEW k \in 0 .. m - 1 PROVE ItemEnd(d, k) = k * s
    OBVIOUS
  <2>1. PICK x : x = k * s
    OBVIOUS
  <2>2. x \in Nat /\ x < l
    BY <1>9, <2>1
  <2> QED
    BY <1>1, <1>2, <2>1, <2>2 DEF ItemEnd
<1>12. \A k \in 0 .. m : ItemEnd(d, k) \in 0 .. l
  <2> SUFFICES ASSUME NEW k \in 0 .. m PROVE ItemEnd(d, k) \in 0 .. l
    OBVIOUS
  <2>1. CASE k = m
    BY <1>2, <1>10, <2>1
  <2>2. CASE k # m
    <3>1. k \in 0 .. m - 1
      BY <1>5, <2>2
    <3>2. PICK x : x = k * s
      OBVIOUS
    <3>3. ItemEnd(d, k) = x /\ x \in Nat /\ x < l
      BY <1>9, <1>11, <3>1, <3>2
    <3> QED
      BY <1>2, <3>3
  <2> QED
    BY <2>1, <2>2
<1>13. \A k \in 1 .. m : ItemEnd(d, k - 1) <= ItemEnd(d, k)
  <2> SUFFICES ASSUME NEW k \in 1 .. m PROVE ItemEnd(d, k - 1) <= ItemEnd(d, k)
    OBVIOUS
  <2>1. k - 1 \in 0 .. m - 1 /\ k - 1 \in 0 .. m
    BY <1>5
  <2>2. CASE k = m
    <3>1. ItemEnd(d, k - 1) \in 0 .. l
      BY <1>12, <2>1
    <3> QED
      BY <1>2, <1>10, <2>2, <3>1
  <2>3. CASE k # m
    <3>1. k \in 0 .. m - 1
      BY <1>5, <2>3
    <3>2. PICK x, y : x = (k - 1) * s /\ y = k * s
      OBVIOUS
    <3>3. x \in Nat /\ y \in Nat
      BY <1>9, <2>1, <3>1, <3>2
    <3>4. (k - 1) * s = k * s - s
      BY <1>2
    <3>5. x <= y
      BY <1>2, <3>2, <3>3, <3>4
    <3>6. ItemEnd(d, k - 1) = x /\ ItemEnd(d, k) = y
      BY <1>11, <2>1, <3>1, <3>2
    <3> QED
      BY <3>5, <3>6
  <2> QED
    BY <2>2, <2>3
<1>14. m = 0 <=> l = 0
  <2>1. ASSUME m = 0 PROVE l = 0
    BY <1>2, <1>6, <1>8, <2>1
  <2>2. ASSUME m # 0 PROVE l # 0
    <3>1. 0 \in 0 .. m - 1
      BY <1>5, <2>2
    <3>2. 0 * s < l
      BY <1>9, <3>1
    <3> QED
      BY <1>2, <3>2
  <2> QED
    BY <2>1, <2>2
<1>15. l \in 1 .. s => m = 1
  <2> SUFFICES ASSUME l \in 1 .. s PROVE m = 1
    OBVIOUS
  <2>1. CASE m >= 2
    <3>1. 1 \in 0 .. m - 1
      BY <1>5, <2>1
    <3>2. 1 * s < l
      BY <1>9, <3>1
    <3> QED
      BY <1>2, <3>2
  <2>2. m # 0
    BY <1>14
  <2> QED
    BY <1>5, <2>1, <2>2
<1> QED
  BY <1>1, <1>5, <1>10, <1>11, <1>12, <1>13, <1>14, <1>15

(* The data getData puts together.                                         *)
Joins(f, p, first, last) ==
  f = [k \in 0 .. last - first + 1 |->
         IF k = 0 THEN <<>> ELSE f[k - 1] \o TlvValue(p, first + k - 1)]

(* The data of the items read so far.                                      *)
LEMMA JoinsExist ==
  ASSUME NEW p, NEW first \in Nat, NEW last \in Int, last - first + 1 \in Nat,
         \A k \in 1 .. last - first + 1 : TlvValue(p, first + k - 1) \in Seq(Nat)
  PROVE  \E f : Joins(f, p, first, last)
<1> DEFINE n == last - first + 1
           D == Seq(Nat)
           G == [q \in Nat \X D |-> q[2] \o TlvValue(p, first + q[1] - 1)]
<1>1. n \in Nat
  OBVIOUS
<1>2. \A i \in Nat, x \in D : G[<<i, x>>] = x \o TlvValue(p, first + i - 1)
  <2> HIDE DEF D
  <2> QED
    OBVIOUS
<1> HIDE DEF G, n
<1>3. \A i \in 1 .. n, x \in D : G[<<i, x>>] \in D
  <2> SUFFICES ASSUME NEW i \in 1 .. n, NEW x \in D PROVE G[<<i, x>>] \in D
    OBVIOUS
  <2>1. PICK v : v = TlvValue(p, first + i - 1)
    OBVIOUS
  <2>2. v \in Seq(Nat)
    BY <2>1 DEF n
  <2>3. x \o v \in Seq(Nat)
    BY <2>2, JoinOfNats
  <2>4. i \in Nat
    BY <1>1
  <2> QED
    BY <1>2, <2>1, <2>3, <2>4
<1>4. <<>> \in D
  BY EmptySeq
<1>5. PICK f : Recursive(f, D, <<>>, G, n)
  <2> HIDE DEF D
  <2> QED
    BY <1>1, <1>3, <1>4, Recursion
<1> HIDE DEF D
<1>6. f \in [0 .. n -> D] /\ f[0] = <<>> /\ \A i \in 1 .. n : f[i] = G[<<i, f[i - 1]>>]
  BY <1>5 DEF Recursive
<1>7. ASSUME NEW i \in 0 .. n
      PROVE  f[i] = IF i = 0 THEN <<>> ELSE f[i - 1] \o TlvValue(p, first + i - 1)
  <2>1. CASE i = 0
    BY <1>6, <2>1
  <2>2. CASE i # 0
    <3>1. i - 1 \in 0 .. n /\ i \in Nat /\ i \in 1 .. n
      BY <1>1, <2>2
    <3>2. f[i - 1] \in D /\ f[i] = G[<<i, f[i - 1]>>]
      BY <1>6, <3>1
    <3> QED
      BY <1>2, <2>2, <3>1, <3>2
  <2> QED
    BY <2>1, <2>2
<1>8. f = [i \in 0 .. n |-> f[i]]
  BY <1>6
<1>9. Joins(f, p, first, last)
  BY <1>7, <1>8 DEF Joins, n
<1> QED
  BY <1>9

(* Data is read back where there is room for it.                           *)
LEMMA DataRead ==
  ASSUME NEW p, NEW its \in Seq(TlvItem), Reads(p, its), NEW t \in TlvTypes, NEW d \in Seq(Nat),
         NEW first, RunOf(its, t, ItemsOf(d), first), NEW room \in Nat
  PROVE  TlvGetData(p, t, room) = IF Len(d) \in 1 .. room THEN TlvFound(d) ELSE TlvNotFound
<1> DEFINE parts == ItemsOf(d)
           n == Len(parts)
           count == TlvCount(p)
           Ends(i) == (\A j \in first .. i : TlvType(p, j) = t) /\ TlvType(p, i + 1) # t
           last == CHOOSE i \in first - 1 .. count : Ends(i)
           data == CHOOSE f : Joins(f, p, first, last)
           all == data[last - first + 1]
           S == Seq(Nat)
<1>1. parts \in Seq(S)
  BY ItemsAre
<1>2. FoundAt(p, t, parts, first)
  BY <1>1, Found
<1>3. /\ n \in Nat /\ first \in Nat \ {0} /\ count \in Nat /\ first + n - 1 <= count
      /\ count = Len(its)
  <2>1. count = Len(its) /\ Len(its) \in Nat
    BY DEF Reads
  <2> HIDE DEF parts, count
  <2>2. n \in Nat
    BY <1>2 DEF FoundAt
  <2>3. first \in Nat \ {0} /\ first + n - 1 <= Len(its)
    BY DEF RunOf, parts
  <2> QED
    BY <2>1, <2>2, <2>3
<1>4. /\ TlvFind(p, t) = IF n = 0 THEN 0 ELSE first
      /\ \A k \in 1 .. n : TlvValue(p, first + k - 1) = parts[k] /\ parts[k] \in S
      /\ \A j \in Nat : TlvType(p, j) = t /\ j \in 1 .. count <=> j \in first .. first + n - 1
  <2> HIDE DEF parts
  <2> QED
    BY <1>2 DEF FoundAt
<1>5. \A j \in Nat : j > count => TlvType(p, j) # t
  BY <1>3 DEF Reads, TlvTypes
<1>6. Len(d) \in Nat /\ (n = 0 <=> Len(d) = 0)
  BY ItemsEnd
<1>7. CASE n = 0
  <2>1. TlvFind(p, t) = 0
    BY <1>4, <1>7
  <2>2. TlvGetData(p, t, room) = TlvNotFound
    BY <2>1 DEF TlvGetData, TlvNotFound
  <2>3. ~ (Len(d) \in 1 .. room)
    BY <1>6, <1>7
  <2> QED
    BY <2>2, <2>3
<1>8. CASE n # 0
  <2>1. TlvFind(p, t) = first /\ first # 0
    BY <1>3, <1>4, <1>8
  <2>2. TlvGetData(p, t, room) = IF Len(all) > room THEN TlvNotFound ELSE TlvFound(all)
    BY <2>1 DEF TlvGetData, TlvNotFound, TlvFound, Joins
  <2> HIDE DEF parts, n, data
  <2>3. last = first + n - 1
    <3>1. first + n - 1 \in first - 1 .. count /\ Ends(first + n - 1)
      <4>1. first + n - 1 \in first - 1 .. count
        BY <1>3
      <4>2. \A j \in first .. first + n - 1 : TlvType(p, j) = t
        <5> SUFFICES ASSUME NEW j \in first .. first + n - 1 PROVE TlvType(p, j) = t
          OBVIOUS
        <5>1. j \in Nat
          BY <1>3
        <5> QED
          BY <1>4, <5>1
      <4>3. TlvType(p, (first + n - 1) + 1) # t
        <5>1. PICK j : j = (first + n - 1) + 1
          OBVIOUS
        <5>2. j \in Nat /\ ~ (j \in first .. first + n - 1) /\ j >= 1
          BY <1>3, <5>1
        <5>3. CASE j > count
          BY <1>5, <5>1, <5>2, <5>3
        <5>4. CASE ~ (j > count)
          <6>1. j \in 1 .. count
            BY <1>3, <5>2, <5>4
          <6> QED
            BY <1>4, <5>1, <5>2, <6>1
        <5> QED
          BY <5>3, <5>4
      <4> QED
        BY <4>1, <4>2, <4>3
    <3>2. ASSUME NEW i \in first - 1 .. count, Ends(i) PROVE i = first + n - 1
      <4>1. CASE i < first + n - 1
        <5>1. PICK j : j = i + 1
          OBVIOUS
        <5>2. j \in Nat /\ j \in first .. first + n - 1
          BY <1>3, <4>1, <5>1
        <5>3. TlvType(p, j) = t
          BY <1>4, <5>2
        <5> QED
          BY <3>2, <5>1, <5>3
      <4>2. CASE i > first + n - 1
        <5>1. PICK j : j = first + n
          OBVIOUS
        <5>2. j \in Nat /\ j \in first .. i /\ j \in 1 .. count /\ ~ (j \in first .. first + n - 1)
          BY <1>3, <4>2, <5>1
        <5>3. TlvType(p, j) = t
          BY <3>2, <5>2
        <5> QED
          BY <1>4, <5>2, <5>3
      <4> QED
        BY <1>3, <4>1, <4>2
    <3> HIDE DEF Ends
    <3> QED
      BY <3>1, <3>2
  <2> HIDE DEF last
  <2>4. last - first + 1 = n /\ last \in Int
    BY <1>3, <2>3
  <2>5. Joins(data, p, first, last)
    <3>1. \A k \in 1 .. last - first + 1 : TlvValue(p, first + k - 1) \in Seq(Nat)
      <4> SUFFICES ASSUME NEW k \in 1 .. n PROVE TlvValue(p, first + k - 1) \in Seq(Nat)
        BY <2>4
      <4>1. TlvValue(p, first + k - 1) \in S
        BY <1>4
      <4> QED
        BY <4>1
    <3>2. first \in Nat /\ last - first + 1 \in Nat
      BY <1>3, <2>4
    <3>3. \E f : Joins(f, p, first, last)
      BY <2>4, <3>1, <3>2, JoinsExist
    <3> QED
      BY <3>3 DEF data
  <2>6. \A k \in 0 .. n : data[k] = IF k = 0 THEN <<>> ELSE data[k - 1] \o TlvValue(p, first + k - 1)
    BY <2>4, <2>5 DEF Joins
  <2>7. \A k \in 0 .. n : data[k] = SubSeq(d, 1, ItemEnd(d, k))
    <3> DEFINE T == {k \in Nat : k <= n => data[k] = SubSeq(d, 1, ItemEnd(d, k))}
    <3>0. /\ \A k \in 0 .. n - 1 : ItemEnd(d, k) = k * MaxItem
          /\ \A k \in 0 .. n : ItemEnd(d, k) \in 0 .. Len(d)
          /\ \A k \in 1 .. n : ItemEnd(d, k - 1) <= ItemEnd(d, k)
      BY ItemsEnd DEF n, parts
    <3>1. 0 \in T
      <4>1. 0 \in 0 .. n /\ 0 \in 0 .. n - 1
        BY <1>3, <1>8
      <4>2. data[0] = <<>>
        BY <2>6, <4>1
      <4>3. ItemEnd(d, 0) = 0
        <5>1. ItemEnd(d, 0) = 0 * MaxItem
          BY <3>0, <4>1
        <5> QED
          BY <5>1, TlvAssumption
      <4>4. SubSeq(d, 1, 0) = <<>>
        BY SubSeqEmpty
      <4> QED
        BY <4>2, <4>3, <4>4
    <3>2. ASSUME NEW k \in Nat, k \in T PROVE k + 1 \in T
      <4> SUFFICES ASSUME k + 1 <= n PROVE data[k + 1] = SubSeq(d, 1, ItemEnd(d, k + 1))
        OBVIOUS
      <4>1. k + 1 \in 0 .. n /\ k + 1 # 0 /\ k + 1 \in 1 .. n /\ (k + 1) - 1 = k /\ k \in 0 .. n - 1 /\ k \in 0 .. n /\ k <= n
        BY <1>3
      <4>2. PICK a, b : a = ItemEnd(d, k) /\ b = ItemEnd(d, k + 1)
        OBVIOUS
      <4>3. a = k * MaxItem /\ a \in 0 .. Len(d) /\ b \in 0 .. Len(d) /\ a <= b
        BY <3>0, <4>1, <4>2
      <4>4. data[k] = SubSeq(d, 1, a)
        BY <3>2, <4>1, <4>2
      <4>5. TlvValue(p, first + (k + 1) - 1) = SubSeq(d, a + 1, b)
        <5>1. parts[k + 1] = SubSeq(d, ((k + 1) - 1) * MaxItem + 1, ItemEnd(d, k + 1))
          BY <4>1, ItemsAre DEF n, parts
        <5>2. parts[k + 1] = SubSeq(d, a + 1, b)
          BY <4>1, <4>2, <4>3, <5>1
        <5> QED
          BY <1>4, <4>1, <5>2
      <4>6. data[k + 1] = SubSeq(d, 1, a) \o SubSeq(d, a + 1, b)
        BY <2>6, <4>1, <4>4, <4>5
      <4>7. SubSeq(d, 1, a) \o SubSeq(d, a + 1, b) = SubSeq(d, 1, b)
        <5>1. 1 \in 1 .. Len(d) + 1 /\ a \in 1 - 1 .. Len(d) /\ b \in a .. Len(d)
          BY <1>6, <4>3
        <5>2. PICK o : o = 1
          OBVIOUS
        <5>3. SubSeq(d, o, a) \o SubSeq(d, a + 1, b) = SubSeq(d, o, b)
          BY <5>1, <5>2, ConcatAdjacentSubSeq
        <5> QED
          BY <5>2, <5>3
      <4> QED
        BY <4>2, <4>6, <4>7
    <3> HIDE DEF T
    <3>3. Nat \subseteq T
      BY <3>1, <3>2, Numbers
    <3> QED
      BY <1>3, <3>3 DEF T
  <2>8. all = d
    <3>1. n \in 0 .. n /\ ItemEnd(d, n) = Len(d)
      BY <1>3, ItemsEnd DEF n, parts
    <3>2. all = SubSeq(d, 1, Len(d))
      BY <2>4, <2>7, <3>1
    <3>3. SubSeq(d, 1, Len(d)) = d
      BY SubSeqFull
    <3> QED
      BY <3>2, <3>3
  <2>9. Len(d) # 0
    BY <1>6, <1>8
  <2>10. Len(d) \in 1 .. room <=> ~ (Len(d) > room)
    BY <1>6, <2>9
  <2> QED
    BY <2>2, <2>8, <2>10
<1> QED
  BY <1>7, <1>8

-----------------------------------------------------------------------------
(* What is added lays out its items, whatever its kind.                    *)
AddTo(c, e) ==
  CASE e.kind = "empty" -> TlvAddEmpty(c, e.type)
    [] e.kind = "int" -> TlvAddInt(c, e.type, e.value)
    [] e.kind = "data" -> TlvAddData(c, e.type, e.value)

KindOf(e) ==
  /\ e.type \in TlvTypes
  /\ \/ e.kind = "empty"
     \/ e.kind = "int" /\ e.value \in Nat
     \/ e.kind = "data" /\ e.value \in Seq(Nat)

(* What can be added is of one of three kinds.                             *)
LEMMA Kinds == ASSUME NEW e \in Contents PROVE KindOf(e)
<1>1. e.type \in TlvTypes
  BY TlvMessageAssumption
<1>2. CASE e = [type |-> e.type, kind |-> "empty", value |-> <<>>]
  <2>1. e.kind = "empty"
    BY <1>2
  <2> QED
    BY <1>1, <2>1 DEF KindOf
<1>3. CASE e = [type |-> e.type, kind |-> "int", value |-> e.value] /\ e.value \in Nat
  <2>1. e.kind = "int"
    BY <1>3
  <2> QED
    BY <1>1, <1>3, <2>1 DEF KindOf
<1>4. CASE e = [type |-> e.type, kind |-> "data", value |-> e.value] /\ e.value \in TlvStrings
  <2>1. e.kind = "data"
    BY <1>4
  <2>2. \A d \in Seq(0 .. MaxItem) : d \in Seq(Nat)
    <3>1. 0 .. MaxItem \subseteq Nat
      BY TlvAssumption
    <3> QED
      BY <3>1, SeqMonotonic
  <2>3. e.value \in Seq(Nat)
    BY <1>4, <2>2 DEF TlvStrings
  <2> QED
    BY <1>1, <2>1, <2>3 DEF KindOf
<1> QED
  BY <1>2, <1>3, <1>4, TlvMessageAssumption

(* A content of one item.                                                  *)
LEMMA OneItem ==
  ASSUME NEW t, NEW v \in Seq(Nat)
  PROVE  <<v>> \in Seq(Seq(Nat)) /\ Len(<<v>>) = 1 /\ ItemsAs(t, <<v>>) = <<[type |-> t, value |-> v]>>
<1> DEFINE S == Seq(Nat)
<1>1. <<v>> \in Seq(S) /\ Len(<<v>>) = 1
  <2>1. v \in S
    OBVIOUS
  <2> HIDE DEF S
  <2> QED
    BY <2>1
<1>2. ItemsAs(t, <<v>>) = [i \in 1 .. 1 |-> [type |-> t, value |-> (<<v>>)[i]]]
  BY <1>1 DEF ItemsAs, FirstItems
<1>3. \A i \in 1 .. 1 : (<<v>>)[i] = v
  OBVIOUS
<1>4. PICK x : x = [type |-> t, value |-> v]
  OBVIOUS
<1>5. ItemsAs(t, <<v>>) = [i \in 1 .. 1 |-> x]
  BY <1>2, <1>3, <1>4
<1>6. [i \in 1 .. 1 |-> x] = <<x>>
  OBVIOUS
<1> QED
  BY <1>1, <1>4, <1>5, <1>6

(* A content lays out its items, or the message has failed.                *)
LEMMA ContentAdded ==
  ASSUME NEW e \in Contents, NEW c \in Creator
  PROVE  /\ TlvParts(e) \in Seq(Seq(Nat))
         /\ Grown(c, AddTo(c, e), ItemsAs(e.type, TlvParts(e)))
<1>0. KindOf(e)
  BY Kinds
<1>1. e.type \in TlvTypes
  BY <1>0 DEF KindOf
<1>2. CASE e.kind = "empty"
  <2>1. TlvParts(e) = <<<<>>>> /\ AddTo(c, e) = TlvAddEmpty(c, e.type)
    BY <1>2 DEF TlvParts, AddTo
  <2>2. PICK v \in Seq(Nat) : v = <<>>
    BY EmptySeq
  <2>3. <<v>> \in Seq(Seq(Nat)) /\ ItemsAs(e.type, <<v>>) = <<[type |-> e.type, value |-> v]>>
    BY OneItem
  <2>4. Grown(c, TlvAddEmpty(c, e.type), <<[type |-> e.type, value |-> v]>>)
    BY <1>1, <2>2, EmptyAdded
  <2> QED
    BY <2>1, <2>2, <2>3, <2>4
<1>3. CASE e.kind = "int" /\ e.value \in Nat
  <2>1. TlvParts(e) = <<IntBytes(e.value)>> /\ AddTo(c, e) = TlvAddInt(c, e.type, e.value)
    BY <1>3 DEF TlvParts, AddTo
  <2>2. PICK v : v = IntBytes(e.value) /\ v \in Seq(Nat)
    BY <1>3, IntBack
  <2>3. <<v>> \in Seq(Seq(Nat)) /\ ItemsAs(e.type, <<v>>) = <<[type |-> e.type, value |-> v]>>
    BY <2>2, OneItem
  <2>4. Grown(c, TlvAddInt(c, e.type, e.value), <<[type |-> e.type, value |-> v]>>)
    BY <1>1, <1>3, <2>2, IntAdded
  <2> QED
    BY <2>1, <2>2, <2>3, <2>4
<1>4. CASE e.kind = "data" /\ e.value \in Seq(Nat)
  <2>1. TlvParts(e) = ItemsOf(e.value) /\ AddTo(c, e) = TlvAddData(c, e.type, e.value)
    BY <1>4 DEF TlvParts, AddTo
  <2>2. ItemsOf(e.value) \in Seq(Seq(Nat))
    BY <1>4, ItemsAre
  <2>3. Grown(c, TlvAddData(c, e.type, e.value), ItemsAs(e.type, ItemsOf(e.value)))
    BY <1>1, <1>4, DataAdded
  <2> QED
    BY <2>1, <2>2, <2>3
<1> QED
  BY <1>0, <1>2, <1>3, <1>4 DEF KindOf

(* More items leave the runs of other types, and make one of their own.    *)
LEMMA MoreItems ==
  ASSUME NEW its \in Seq(TlvItem), NEW t \in TlvTypes, NEW parts \in Seq(Seq(Nat))
  PROVE  /\ ItemsAs(t, parts) \in Seq(TlvItem)
         /\ its \o ItemsAs(t, parts) \in Seq(TlvItem)
         /\ Len(parts) \in Nat /\ Len(its) \in Nat
         /\ Len(its \o ItemsAs(t, parts)) = Len(its) + Len(parts)
         /\ \A i \in 1 .. Len(its) : (its \o ItemsAs(t, parts))[i] = its[i]
         /\ \A k \in 1 .. Len(parts) :
              (its \o ItemsAs(t, parts))[Len(its) + k] = [type |-> t, value |-> parts[k]]
<1> DEFINE more == ItemsAs(t, parts)
           n == Len(parts)
           l == Len(its)
           S == Seq(Nat)
<1>1. n \in Nat /\ l \in Nat /\ \A k \in 1 .. n : parts[k] \in S
  <2>1. parts \in Seq(S)
    OBVIOUS
  <2> HIDE DEF S
  <2> QED
    BY <2>1
<1>2. \A k \in 1 .. n : [type |-> t, value |-> parts[k]] \in TlvItem
  <2> SUFFICES ASSUME NEW k \in 1 .. n PROVE [type |-> t, value |-> parts[k]] \in TlvItem
    OBVIOUS
  <2>1. PICK v : v = parts[k] /\ v \in S
    BY <1>1
  <2> QED
    BY <2>1 DEF TlvItem
<1>3. more = [k \in 1 .. n |-> [type |-> t, value |-> parts[k]]]
  BY DEF ItemsAs, FirstItems
<1> HIDE DEF more, n, l, S
<1>4. /\ more \in Seq(TlvItem) /\ Len(more) = n
      /\ \A k \in 1 .. n : more[k] = [type |-> t, value |-> parts[k]]
  <2>1. \A k \in 1 .. n : more[k] = [type |-> t, value |-> parts[k]]
    BY <1>3
  <2>2. \A k \in 1 .. n : more[k] \in TlvItem
    BY <1>2, <2>1
  <2> DEFINE g(k) == more[k]
  <2>3. more = [k \in 1 .. n |-> g(k)] /\ \A k \in 1 .. n : g(k) \in TlvItem
    BY <1>3, <2>2
  <2>4. more \in Seq(TlvItem) /\ Len(more) = n
    <3> HIDE DEF g
    <3> QED
      BY <1>1, <2>3
  <2> QED
    BY <2>1, <2>4
<1>5. /\ its \o more \in Seq(TlvItem) /\ Len(its \o more) = l + n
      /\ \A i \in 1 .. l + n : (its \o more)[i] = IF i <= l THEN its[i] ELSE more[i - l]
  <2>1. /\ its \o more \in Seq(TlvItem) /\ Len(its \o more) = Len(its) + Len(more)
        /\ \A i \in 1 .. Len(its) + Len(more) :
             (its \o more)[i] = IF i <= Len(its) THEN its[i] ELSE more[i - Len(its)]
    BY <1>4, ConcatProperties
  <2> QED
    BY <1>4, <2>1 DEF l
<1>6. \A i \in 1 .. l : (its \o more)[i] = its[i]
  BY <1>1, <1>5
<1>7. \A k \in 1 .. n : (its \o more)[l + k] = more[k]
  <2> SUFFICES ASSUME NEW k \in 1 .. n PROVE (its \o more)[l + k] = more[k]
    OBVIOUS
  <2>1. l + k \in 1 .. l + n /\ ~ (l + k <= l) /\ (l + k) - l = k
    BY <1>1
  <2> QED
    BY <1>5, <2>1
<1>8. \A k \in 1 .. n : (its \o more)[l + k] = [type |-> t, value |-> parts[k]]
  BY <1>4, <1>7
<1> QED
  BY <1>1, <1>4, <1>5, <1>6, <1>8 DEF more, n, l

(* The items of another type stay where they are.                          *)
LEMMA RunKept ==
  ASSUME NEW its \in Seq(TlvItem), NEW t \in TlvTypes, NEW parts \in Seq(Seq(Nat)),
         NEW u, NEW old \in Seq(Seq(Nat)), NEW first, RunOf(its, u, old, first), u # t
  PROVE  RunOf(its \o ItemsAs(t, parts), u, old, first)
<1>1. PICK more, l, n, m : /\ more = its \o ItemsAs(t, parts) /\ l = Len(its)
                           /\ n = Len(parts) /\ m = Len(old)
  OBVIOUS
<1>2. /\ n \in Nat /\ l \in Nat /\ Len(more) = l + n
      /\ \A i \in 1 .. l : more[i] = its[i]
      /\ \A k \in 1 .. n : more[l + k] = [type |-> t, value |-> parts[k]]
  BY <1>1, MoreItems
<1>3. m \in Nat
  <2> DEFINE S == Seq(Nat)
  <2>1. old \in Seq(S)
    OBVIOUS
  <2> HIDE DEF S
  <2> QED
    BY <1>1, <2>1
<1>4. /\ first \in Nat \ {0} /\ first + m - 1 <= l
      /\ \A k \in 1 .. m : its[first + k - 1] = [type |-> u, value |-> old[k]]
      /\ \A j \in 1 .. l : its[j].type = u => j \in first .. first + m - 1
  BY <1>1 DEF RunOf
<1>5. ASSUME NEW k \in 1 .. m PROVE more[first + k - 1] = [type |-> u, value |-> old[k]]
  <2>1. first + k - 1 \in 1 .. l
    BY <1>2, <1>3, <1>4
  <2> QED
    BY <1>2, <1>4, <2>1
<1>6. ASSUME NEW j \in 1 .. l + n, more[j].type = u PROVE j \in first .. first + m - 1
  <2>1. CASE j <= l
    <3>1. j \in 1 .. l
      BY <1>2, <2>1
    <3> QED
      BY <1>2, <1>4, <1>6, <3>1
  <2>2. CASE j > l
    <3>1. PICK k : k = j - l
      OBVIOUS
    <3>2. k \in 1 .. n /\ j = l + k
      BY <1>2, <2>2, <3>1
    <3>3. more[j] = [type |-> t, value |-> parts[k]]
      BY <1>2, <3>2
    <3>4. more[j].type = t
      BY <3>3
    <3> QED
      BY <1>6, <3>4
  <2> QED
    BY <1>2, <2>1, <2>2
<1>7. first + m - 1 <= l + n
  BY <1>2, <1>3, <1>4
<1>8. RunOf(more, u, old, first)
  BY <1>1, <1>2, <1>4, <1>5, <1>6, <1>7 DEF RunOf
<1> QED
  BY <1>1, <1>8

(* The new items are the run of their type.                                *)
LEMMA RunNew ==
  ASSUME NEW its \in Seq(TlvItem), NEW t \in TlvTypes, NEW parts \in Seq(Seq(Nat)),
         \A j \in 1 .. Len(its) : its[j].type # t
  PROVE  RunOf(its \o ItemsAs(t, parts), t, parts, Len(its) + 1)
<1>1. PICK more, l, n : more = its \o ItemsAs(t, parts) /\ l = Len(its) /\ n = Len(parts)
  OBVIOUS
<1>2. /\ n \in Nat /\ l \in Nat /\ Len(more) = l + n
      /\ \A i \in 1 .. l : more[i] = its[i]
      /\ \A k \in 1 .. n : more[l + k] = [type |-> t, value |-> parts[k]]
  BY <1>1, MoreItems
<1>3. PICK first : first = l + 1
  OBVIOUS
<1>4. first \in Nat \ {0} /\ first + n - 1 <= l + n
  BY <1>2, <1>3
<1>5. ASSUME NEW k \in 1 .. n PROVE more[first + k - 1] = [type |-> t, value |-> parts[k]]
  <2>1. first + k - 1 = l + k
    BY <1>2, <1>3
  <2> QED
    BY <1>2, <2>1
<1>6. ASSUME NEW j \in 1 .. l + n, more[j].type = t PROVE j \in first .. first + n - 1
  <2>1. CASE j <= l
    <3>1. j \in 1 .. l
      BY <1>2, <2>1
    <3>2. more[j].type = its[j].type
      BY <1>2, <3>1
    <3> QED
      BY <1>1, <1>6, <3>1, <3>2
  <2>2. CASE j > l
    BY <1>2, <1>3, <2>2
  <2> QED
    BY <1>2, <2>1, <2>2
<1>7. RunOf(more, t, parts, first)
  BY <1>1, <1>2, <1>4, <1>5, <1>6 DEF RunOf
<1> QED
  BY <1>1, <1>3, <1>7

-----------------------------------------------------------------------------
(* The messages: what is in the buffer is the items, and the items of a    *)
(* type are those of one content.                                          *)
RunFor(its, e) == \E first : RunOf(its, e.type, TlvParts(e), first)

MessageInv ==
  /\ message \in Creator
  /\ items \in Seq(TlvItem) /\ added \in Seq(Contents)
  /\ message.ok => Laid(message.buf, items)
  /\ \A i \in 1 .. Len(added) : RunFor(items, added[i])
  /\ \A j \in 1 .. Len(items) : \E i \in 1 .. Len(added) : items[j].type = added[i].type

(* A new message is empty, and lays out no items.                          *)
LEMMA FreshMessage ==
  ASSUME NEW size \in Buffers
  PROVE  TlvCreate(size) \in Creator /\ Laid(TlvCreate(size).buf, <<>>)
<1>1. TlvCreate(size) = [buf |-> <<>>, size |-> size, ok |-> TRUE]
  BY DEF TlvCreate
<1>2. PICK b : b = <<>> /\ b \in Seq(Nat) /\ Len(b) = 0
  BY EmptySeq
<1>3. size \in Nat
  BY TlvMessageAssumption
<1>4. [buf |-> b, size |-> size, ok |-> TRUE] \in Creator
  <2>1. TRUE \in BOOLEAN /\ Len(b) <= size
    BY <1>2, <1>3
  <2> QED
    BY <1>2, <1>3, <2>1, Made
<1>5. Laid(b, <<>>)
  <2>1. PICK its : its = <<>> /\ its \in Seq(TlvItem) /\ Len(its) = 0
    BY EmptySeq
  <2> DEFINE f == [i \in 0 .. 0 |-> 0]
  <2>2. f \in [0 .. 0 -> Nat] /\ f[0] = 0 /\ \A i \in 0 .. 0 : f[i] = 0
    OBVIOUS
  <2> HIDE DEF f
  <2>3. Places(f, b, its)
    BY <1>2, <2>1, <2>2 DEF Places
  <2> QED
    BY <1>2, <2>1, <2>3 DEF Laid
<1>6. TlvCreate(size).buf = b
  BY <1>1, <1>2
<1> QED
  BY <1>1, <1>2, <1>4, <1>5, <1>6

(* The next message starts with the invariant.                             *)
LEMMA TlvBegins ==
  ASSUME message' \in {TlvCreate(size) : size \in Buffers}, added' = <<>>, items' = <<>>
  PROVE  MessageInv'
<1>1. PICK size \in Buffers : message' = TlvCreate(size)
  OBVIOUS
<1>2. message' \in Creator /\ Laid(message'.buf, <<>>)
  BY <1>1, FreshMessage
<1>3. items' \in Seq(TlvItem) /\ Len(items') = 0
  BY EmptySeq
<1>4. added' \in Seq(Contents) /\ Len(added') = 0
  BY EmptySeq
<1> QED
  BY <1>2, <1>3, <1>4 DEF MessageInv

(* So does the first.                                                      *)
LEMMA TlvStarts == TlvInit => MessageInv
<1> SUFFICES ASSUME TlvInit PROVE MessageInv
  OBVIOUS
<1>1. PICK size \in Buffers : message = TlvCreate(size)
  BY DEF TlvInit
<1>2. message \in Creator /\ Laid(message.buf, <<>>)
  BY <1>1, FreshMessage
<1>3. items = <<>> /\ items \in Seq(TlvItem) /\ Len(items) = 0
  BY EmptySeq DEF TlvInit
<1>4. added = <<>> /\ added \in Seq(Contents) /\ Len(added) = 0
  BY EmptySeq DEF TlvInit
<1> QED
  BY <1>2, <1>3, <1>4 DEF MessageInv

(* Each content added keeps it.                                            *)
LEMMA TlvAdds ==
  ASSUME MessageInv, NEW e \in Contents, TlvAdd(e)
  PROVE  MessageInv'
<1> DEFINE t == e.type
           parts == TlvParts(e)
           more == ItemsAs(t, parts)
<1>1. /\ message \in Creator /\ items \in Seq(TlvItem) /\ added \in Seq(Contents)
      /\ message.ok => Laid(message.buf, items)
      /\ \A i \in 1 .. Len(added) : RunFor(items, added[i])
      /\ \A j \in 1 .. Len(items) : \E i \in 1 .. Len(added) : items[j].type = added[i].type
  BY DEF MessageInv
<1>2. parts \in Seq(Seq(Nat)) /\ Grown(message, AddTo(message, e), more) /\ t \in TlvTypes
  <2>1. t \in TlvTypes
    BY Kinds DEF KindOf
  <2> QED
    BY <1>1, <2>1, ContentAdded
<1>3. /\ message' = AddTo(message, e) /\ added' = Append(added, e)
      /\ \A i \in 1 .. Len(added) : added[i].type # t
  <2>1. DOMAIN added = 1 .. Len(added)
    BY <1>1
  <2> QED
    BY <2>1 DEF TlvAdd, AddTo
<1>4. items' = items \o more
  <2>1. DOMAIN parts = 1 .. Len(parts)
    <3> DEFINE S == Seq(Nat)
    <3>1. parts \in Seq(S)
      BY <1>2
    <3> HIDE DEF S, parts
    <3> QED
      BY <3>1
  <2>2. items' = items \o [i \in DOMAIN parts |-> [type |-> t, value |-> parts[i]]]
    BY DEF TlvAdd
  <2> QED
    BY <2>1, <2>2 DEF ItemsAs, FirstItems
<1> HIDE DEF parts, more
<1>5. PICK its, n : its = items' /\ its = items \o more /\ n = Len(added)
  BY <1>4
<1>6. /\ n \in Nat /\ added' \in Seq(Contents) /\ Len(added') = n + 1 /\ added'[n + 1] = e
      /\ \A i \in 1 .. n : added'[i] = added[i]
  <2>1. /\ Append(added, e) \in Seq(Contents) /\ Len(Append(added, e)) = Len(added) + 1
        /\ \A i \in 1 .. Len(added) : Append(added, e)[i] = added[i]
        /\ Append(added, e)[Len(added) + 1] = e
    BY <1>1, AppendProperties
  <2>2. Len(added) \in Nat
    BY <1>1
  <2> QED
    BY <1>3, <1>5, <2>1, <2>2
<1>7. message' \in Creator /\ (message'.ok => Laid(message'.buf, its))
  <2>1. Grown(message, message', more)
    BY <1>2, <1>3
  <2> QED
    BY <1>1, <1>5, <2>1 DEF Grown
<1>8. /\ its \in Seq(TlvItem) /\ Len(parts) \in Nat /\ Len(items) \in Nat
      /\ Len(its) = Len(items) + Len(parts)
      /\ \A i \in 1 .. Len(items) : its[i] = items[i]
      /\ \A k \in 1 .. Len(parts) : its[Len(items) + k] = [type |-> t, value |-> parts[k]]
  BY <1>1, <1>2, <1>5, MoreItems DEF more
<1>9. ASSUME NEW i \in 1 .. n + 1 PROVE RunFor(its, added'[i])
  <2>1. CASE i \in 1 .. n
    <3>1. PICK o : o = added[i] /\ o = added'[i] /\ o \in Contents /\ o.type # t /\ RunFor(items, o)
      BY <1>1, <1>3, <1>5, <1>6, <2>1
    <3>2. PICK first : RunOf(items, o.type, TlvParts(o), first)
      BY <3>1 DEF RunFor
    <3>3. TlvParts(o) \in Seq(Seq(Nat))
      BY <1>1, <3>1, ContentAdded
    <3>4. RunOf(items \o ItemsAs(t, parts), o.type, TlvParts(o), first)
      BY <1>1, <1>2, <3>1, <3>2, <3>3, RunKept
    <3> QED
      BY <1>5, <3>1, <3>4 DEF RunFor, more
  <2>2. CASE i = n + 1
    <3>1. \A j \in 1 .. Len(items) : items[j].type # t
      BY <1>1, <1>3
    <3>2. RunOf(items \o ItemsAs(t, parts), t, parts, Len(items) + 1)
      BY <1>1, <1>2, <3>1, RunNew
    <3>3. RunFor(its, e)
      BY <1>5, <3>2 DEF RunFor, more, parts
    <3> QED
      BY <1>6, <2>2, <3>3
  <2> QED
    BY <1>6, <2>1, <2>2
<1>10. ASSUME NEW j \in 1 .. Len(its) PROVE \E i \in 1 .. n + 1 : its[j].type = added'[i].type
  <2>1. CASE j <= Len(items)
    <3>1. j \in 1 .. Len(items) /\ its[j] = items[j]
      BY <1>8, <2>1
    <3>2. PICK i \in 1 .. n : items[j].type = added[i].type
      BY <1>1, <1>5, <3>1
    <3>3. i \in 1 .. n + 1 /\ added'[i] = added[i]
      BY <1>6
    <3> QED
      BY <3>1, <3>2, <3>3
  <2>2. CASE ~ (j <= Len(items))
    <3>1. PICK k : k = j - Len(items)
      OBVIOUS
    <3>2. k \in 1 .. Len(parts) /\ j = Len(items) + k
      BY <1>8, <2>2, <3>1
    <3>3. its[j] = [type |-> t, value |-> parts[k]]
      BY <1>8, <3>2
    <3>4. its[j].type = t
      BY <3>3
    <3>5. n + 1 \in 1 .. n + 1 /\ added'[n + 1].type = t
      BY <1>6
    <3> QED
      BY <3>4, <3>5
  <2> QED
    BY <2>1, <2>2
<1>11. items' \in Seq(TlvItem) /\ (message'.ok => Laid(message'.buf, items'))
  BY <1>5, <1>7, <1>8
<1>12. \A i \in 1 .. Len(added') : RunFor(items', added'[i])
  BY <1>5, <1>6, <1>9
<1>13. \A j \in 1 .. Len(items') : \E i \in 1 .. Len(added') : items'[j].type = added'[i].type
  BY <1>5, <1>6, <1>10
<1> QED
  BY <1>6, <1>7, <1>11, <1>12, <1>13 DEF MessageInv

(* So it holds of every message.                                           *)
LEMMA MessagesLaid == TlvSpec => []MessageInv
<1>1. TlvInit => MessageInv
  BY TlvStarts
<1>2. MessageInv /\ [TlvNext]_tlvVars => MessageInv'
  <2> SUFFICES ASSUME MessageInv, [TlvNext]_tlvVars PROVE MessageInv'
    OBVIOUS
  <2>1. CASE TlvBegin
    BY <2>1, TlvBegins DEF TlvBegin
  <2>2. ASSUME NEW e \in Contents, TlvAdd(e) PROVE MessageInv'
    BY <2>2, TlvAdds
  <2>3. CASE UNCHANGED tlvVars
    BY <2>3 DEF MessageInv, tlvVars
  <2> QED
    BY <2>1, <2>2, <2>3 DEF TlvNext
<1> QED
  BY <1>1, <1>2, PTL DEF TlvSpec

(* What was added is read back.                                            *)
LEMMA ContentRead ==
  ASSUME NEW p, NEW its \in Seq(TlvItem), Reads(p, its), NEW e \in Contents, RunFor(its, e)
  PROVE  TlvReadBack(p, e)
<1> DEFINE t == e.type
           parts == TlvParts(e)
<1>1. PICK first : RunOf(its, t, parts, first)
  BY DEF RunFor
<1>2. KindOf(e)
  BY Kinds
<1>3. t \in TlvTypes
  BY <1>2 DEF KindOf
<1>4. CASE e.kind = "empty"
  <2>1. parts = <<<<>>>>
    BY <1>4 DEF TlvParts
  <2>2. PICK v \in Seq(Nat) : v = <<>>
    BY EmptySeq
  <2>3. <<v>> \in Seq(Seq(Nat)) /\ Len(<<v>>) = 1 /\ (<<v>>)[1] = v
    BY OneItem
  <2>4. PICK one : one = <<v>> /\ one = parts
    BY <2>1, <2>2
  <2>5. TlvGet(p, t) = TlvFound(v)
    <3>1. one \in Seq(Seq(Nat)) /\ Len(one) = 1 /\ one[1] = v
      BY <2>3, <2>4
    <3>2. TlvGet(p, t) = IF Len(one) = 0 THEN TlvNotFound ELSE TlvFound(one[1])
      BY <1>1, <2>4, <3>1, Got
    <3> QED
      BY <3>1, <3>2
  <2> QED
    BY <1>4, <2>2, <2>5 DEF TlvReadBack
<1>5. CASE e.kind = "int" /\ e.value \in Nat
  <2>1. parts = <<IntBytes(e.value)>>
    BY <1>5 DEF TlvParts
  <2>2. PICK v : v = IntBytes(e.value) /\ v \in Seq(Nat) /\ IntOf(v) = e.value
    BY <1>5, IntBack
  <2>3. <<v>> \in Seq(Seq(Nat)) /\ Len(<<v>>) = 1 /\ (<<v>>)[1] = v
    BY <2>2, OneItem
  <2>4. PICK one : one = <<v>> /\ one = parts
    BY <2>1, <2>2
  <2>5. TlvGet(p, t) = TlvFound(v)
    <3>1. one \in Seq(Seq(Nat)) /\ Len(one) = 1 /\ one[1] = v
      BY <2>3, <2>4
    <3>2. TlvGet(p, t) = IF Len(one) = 0 THEN TlvNotFound ELSE TlvFound(one[1])
      BY <1>1, <2>4, <3>1, Got
    <3> QED
      BY <3>1, <3>2
  <2>6. TlvGetInt(p, t) = TlvFound(e.value)
    <3>1. TlvFound(v).ok = TRUE /\ TlvFound(v).value = v
      BY DEF TlvFound
    <3>2. TlvGetInt(p, t) = [ok |-> TlvFound(v).ok, value |-> IntOf(TlvFound(v).value)]
      BY <2>5 DEF TlvGetInt
    <3> QED
      BY <2>2, <3>1, <3>2 DEF TlvFound
  <2> QED
    BY <1>5, <2>6 DEF TlvReadBack
<1>6. CASE e.kind = "data" /\ e.value \in Seq(Nat)
  <2>1. PICK d \in Seq(Nat) : d = e.value
    BY <1>6
  <2>2. parts = ItemsOf(d) /\ ItemsOf(d) \in Seq(Seq(Nat))
    BY <1>6, <2>1, ItemsAre DEF TlvParts
  <2>3. RunOf(its, t, ItemsOf(d), first)
    BY <1>1, <2>2
  <2>4. ASSUME NEW room \in Rooms
        PROVE  TlvGetData(p, t, room) = IF Len(d) \in 1 .. room THEN TlvFound(d) ELSE TlvNotFound
    <3>1. room \in Nat
      BY TlvMessageAssumption
    <3> QED
      BY <1>3, <2>3, <3>1, DataRead
  <2>5. ASSUME Len(d) \in 1 .. MaxItem PROVE TlvGet(p, t) = TlvFound(d)
    <3>1. Len(ItemsOf(d)) = 1
      BY <2>5, ItemsEnd
    <3>2. TlvGet(p, t) = TlvFound(ItemsOf(d)[1])
      <4>1. TlvGet(p, t) = IF Len(ItemsOf(d)) = 0 THEN TlvNotFound ELSE TlvFound(ItemsOf(d)[1])
        BY <2>2, <2>3, Got
      <4> QED
        BY <3>1, <4>1
    <3>3. ItemsOf(d)[1] = d
      <4>1. 1 \in 1 .. Len(ItemsOf(d)) /\ ItemEnd(d, 1) = Len(d)
        <5>1. ItemEnd(d, Len(ItemsOf(d))) = Len(d)
          BY ItemsEnd
        <5> QED
          BY <3>1, <5>1
      <4>2. ItemsOf(d)[1] = SubSeq(d, (1 - 1) * MaxItem + 1, ItemEnd(d, 1))
        BY <4>1, ItemsAre
      <4>3. (1 - 1) * MaxItem + 1 = 1
        BY TlvAssumption
      <4>4. SubSeq(d, 1, Len(d)) = d
        BY SubSeqFull
      <4> QED
        BY <4>1, <4>2, <4>3, <4>4
    <3> QED
      BY <3>2, <3>3
  <2> QED
    BY <1>6, <2>1, <2>4, <2>5 DEF TlvReadBack
<1> QED
  BY <1>2, <1>4, <1>5, <1>6 DEF KindOf

(* What was written into a pairing message is read back from it, whatever  *)
(* was added, in whatever order, into a buffer of whatever size; a message *)
(* that did not fit is known, and is never longer than its buffer          *)
(* (src/Hap/HapTlv.h).                                                     *)
THEOREM MessagesAreReadBack == TlvSpec => []TlvRoundTrip
<1>1. MessageInv => TlvRoundTrip
  <2> SUFFICES ASSUME MessageInv PROVE TlvRoundTrip
    OBVIOUS
  <2>1. /\ message \in Creator /\ items \in Seq(TlvItem) /\ added \in Seq(Contents)
        /\ message.ok => Laid(message.buf, items)
        /\ \A i \in 1 .. Len(added) : RunFor(items, added[i])
        /\ \A j \in 1 .. Len(items) : \E i \in 1 .. Len(added) : items[j].type = added[i].type
    BY DEF MessageInv
  <2>2. Len(message.buf) <= message.size
    BY <2>1, Fields
  <2>3. ASSUME message.ok, Len(items) <= MaxTlv, NEW p, p = TlvParse(message.buf)
        PROVE  /\ TlvCount(p) = Len(items)
               /\ \A i \in DOMAIN added : TlvReadBack(p, added[i])
               /\ \A t \in TlvTypes :
                    (\A i \in DOMAIN added : added[i].type # t) => TlvGet(p, t) = TlvNotFound
    <3>1. Reads(p, items)
      BY <2>1, <2>3, Parsed
    <3>2. DOMAIN added = 1 .. Len(added)
      BY <2>1
    <3>3. TlvCount(p) = Len(items)
      BY <3>1 DEF Reads
    <3>4. ASSUME NEW i \in DOMAIN added PROVE TlvReadBack(p, added[i])
      <4>1. added[i] \in Contents /\ RunFor(items, added[i])
        BY <2>1, <3>2
      <4> QED
        BY <2>1, <3>1, <4>1, ContentRead
    <3>5. ASSUME NEW t \in TlvTypes, \A i \in DOMAIN added : added[i].type # t
          PROVE  TlvGet(p, t) = TlvNotFound
      <4>1. \A j \in 1 .. Len(items) : items[j].type # t
        BY <2>1, <3>2, <3>5
      <4>2. \A j \in 1 .. TlvCount(p) : TlvType(p, j) # t
        BY <3>1, <3>3, <4>1 DEF Reads
      <4>3. TlvFind(p, t) = 0
        BY <4>2 DEF TlvFind
      <4> QED
        BY <4>3 DEF TlvGet, TlvNotFound
    <3> QED
      BY <3>3, <3>4, <3>5
  <2> QED
    BY <2>2, <2>3 DEF TlvRoundTrip
<1>2. TlvSpec => []MessageInv
  BY MessagesLaid
<1> QED
  BY <1>1, <1>2, PTL
=============================================================================
