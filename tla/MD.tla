--------------------------------- MODULE MD ---------------------------------
(***************************************************************************)
(* The numbers of several digits that the SRP exchange computes with       *)
(* (src/Crypto/MD.cpp): a number is a buffer of a fixed count of digits,   *)
(* the least significant first.  The digits are small here, so that the    *)
(* carries, the borrows and the edges of the buffers all happen.           *)
(***************************************************************************)
EXTENDS Integers, Sequences, SequencesExt

CONSTANTS ByteBase,    \* values of a byte: 256 in the code
          D_BYTES,     \* bytes of a digit: 4 in the code
          N_DIGITS,    \* digits of the modulus: 96 in the code
          Modulus      \* the prime whose bytes are N_val

Base == ByteBase ^ D_BYTES

ASSUME MDAssumption ==
    /\ ByteBase \in Nat \ {0, 1}
    /\ D_BYTES \in Nat \ {0}
    /\ N_DIGITS \in Nat \ {0}
    /\ Modulus \in Nat
    /\ Base ^ (N_DIGITS - 1) < Modulus /\ Modulus < Base ^ N_DIGITS

\* The value of a buffer of digits, for the properties.
Value(x) == FoldRight(LAMBDA d, v : d + Base * v, x, 0)

Zero(s) == [i \in 1 .. s |-> 0]

\* The digits of a number, and the digit at i of a buffer that may be shorter.
Digits(n, s) ==
    LET low[i \in 0 .. s] ==
            IF i = 0 THEN <<>>
            ELSE Append(low[i - 1], (n \div Base ^ (i - 1)) % Base)
    IN  low[s]

Digit(x, i) == IF i \in DOMAIN x THEN x[i] ELSE 0

\* MD::init: the bytes, most significant first, into s digits; more bytes
\* than fit are ignored.
InitBytes(bytes, s) ==
    LET Byte(j) == IF j < Len(bytes) THEN bytes[Len(bytes) - j] ELSE 0
        digit[i \in 1 .. s, k \in 0 .. D_BYTES] ==
            IF k = 0 THEN 0
                     ELSE digit[i, k - 1]
                          + Byte((i - 1) * D_BYTES + k - 1) * ByteBase ^ (k - 1)
        low[i \in 0 .. s] ==
            IF i = 0 THEN <<>> ELSE Append(low[i - 1], digit[i, D_BYTES])
    IN  low[s]

\* MD::digitLength, MD::bitLength (in bytes as byteLength rounds it up).
DigitLength(x) ==
    CHOOSE n \in 0 .. Len(x) : /\ n > 0 => x[n] # 0
                               /\ \A i \in n + 1 .. Len(x) : x[i] = 0

ByteLength(x) ==
    LET n == DigitLength(x)
        top == CHOOSE b \in 1 .. D_BYTES :
                  /\ x[n] >= ByteBase ^ (b - 1)
                  /\ x[n] < ByteBase ^ b
    IN  IF n = 0 THEN 0 ELSE (n - 1) * D_BYTES + top

\* MD::val: the bytes, most significant first, padded to the left to len;
\* len 0 stands for the significant bytes only.
Val(x, len) ==
    LET l == IF len = 0 THEN ByteLength(x) ELSE len
        Byte(j) == (Digit(x, j \div D_BYTES + 1) \div ByteBase ^ (j % D_BYTES))
                   % ByteBase
    IN  [i \in 1 .. l |-> Byte(l - i)]

\* MD::copy of a number, of a small integer, and of digits of a number.
Copy(x, s) ==
    IF s <= Len(x) THEN SubSeq(x, 1, s) ELSE x \o Zero(s - Len(x))

CopyInt(n, s) == Copy(<<n>>, s)

CopyRange(x, start, length, s) == Copy(SubSeq(x, start + 1, start + length), s)

\* MD::add and MD::sub into s digits, from the lowest up; the carry of sub is
\* 0 or all ones.
Add(x, y, s) ==
    LET low[i \in 0 .. s] ==
            IF i = 0 THEN [d |-> <<>>, carry |-> 0]
            ELSE LET below == low[i - 1]
                     sum == Digit(x, i) + Digit(y, i) + below.carry
                 IN  [d |-> Append(below.d, sum % Base), carry |-> sum \div Base]
    IN  low[s]

\* (without the borrow of the digit below)
Sub_NoBorrow(x, y, s) ==
    [d |-> [i \in 1 .. s |-> (Digit(x, i) - Digit(y, i)) % Base], carry |-> 0]

Sub(x, y, s) ==
    LET low[i \in 0 .. s] ==
            IF i = 0 THEN [d |-> <<>>, carry |-> 0]
            ELSE LET below == low[i - 1]
                     diff == Digit(x, i) - Digit(y, i) - (IF below.carry = 0 THEN 0 ELSE 1)
                 IN  [d |-> Append(below.d, diff % Base),
                      carry |-> (diff \div Base) % Base]
    IN  low[s]

\* MD::add and MD::sub of x shifted by n digits.
AddShifted(w, x, n) ==
    LET high == Add(SubSeq(w, n + 1, Len(w)), x, Len(w) - n)
    IN  [high EXCEPT !.d = SubSeq(w, 1, n) \o @]

SubShifted(w, x, n) ==
    LET high == Sub(SubSeq(w, n + 1, Len(w)), x, Len(w) - n)
    IN  [high EXCEPT !.d = SubSeq(w, 1, n) \o @]

\* MD::cmp: the count of digits decides before the digits do.
Cmp(x, y) ==
    LET Digitwise(m) ==
            LET differ == {i \in 1 .. m : x[i] # y[i]}
                top == CHOOSE i \in differ : \A j \in differ : j <= i
            IN  IF differ = {} THEN 0 ELSE IF x[top] > y[top] THEN 1 ELSE -1
        Lengths(m, n) == IF m = n THEN Digitwise(m) ELSE IF m > n THEN 1 ELSE -1
    IN  Lengths(DigitLength(x), DigitLength(y))

\* One row of MD::mul: the digits of x times the digit yi added at offset k;
\* the carry of the row is stored in the digit after it.
MulRow(w, x, n, yi, k) ==
    LET low[j \in 0 .. n] ==
            IF j = 0 THEN [d |-> <<>>, carry |-> 0]
            ELSE LET below == low[j - 1]
                     t == x[j] * yi + w[k + j] + below.carry
                 IN  [d |-> Append(below.d, t % Base), carry |-> t \div Base]
    IN  SubSeq(w, 1, k) \o low[n].d \o <<low[n].carry>> \o SubSeq(w, k + n + 2, Len(w))

\* MD::mul: false, and a result of zero, when the product may not fit.
Mul(x, y, s) ==
    LET Rows(n, m) ==
            LET row[k \in 0 .. m] == IF k = 0 THEN Zero(s)
                                     ELSE MulRow(row[k - 1], x, n, y[k], k - 1)
            IN  IF n + m > s THEN [ok |-> FALSE, d |-> Zero(s)]
                ELSE IF n = 0 THEN [ok |-> TRUE, d |-> Zero(s)]
                ELSE [ok |-> TRUE, d |-> row[m]]
    IN  Rows(DigitLength(x), DigitLength(y))

\* The modulus and the constant of the reduction.
K == N_DIGITS
N == Digits(Modulus, K)
R == Digits(Base ^ (2 * K) \div Modulus, K + 1)

\* MD::Mod: reduction by one multiplication with R, one with N and at most
\* one subtraction.
Mod(v) ==
    LET Reduced(r) == IF Cmp(r, N) >= 0 THEN Sub(r, N, K).d ELSE Copy(r, K)
        ByN(t4) == IF t4.ok THEN [ok |-> TRUE, d |-> Reduced(Sub(v, t4.d, K + 1).d)]
                            ELSE [ok |-> FALSE, d |-> Zero(K)]
        ByR(t2) == IF t2.ok
                   THEN ByN(Mul(CopyRange(t2.d, 2 * K, K + 1, K + 1), N, 2 * K + 1))
                   ELSE [ok |-> FALSE, d |-> Zero(K)]
    IN  IF Cmp(v, N) < 0 THEN [ok |-> TRUE, d |-> Copy(v, K)]
        ELSE ByR(Mul(v, R, 3 * K + 1))

\* MD::addMod and MD::mulMod.
AddMod(x, y) == Mod(Add(x, y, 2 * K).d)

MulMod(x, y) ==
    LET Of(v) == IF v.ok THEN Mod(v.d) ELSE [ok |-> FALSE, d |-> Zero(K)]
    IN  Of(Mul(x, y, 2 * K))

\* The bits of e, the highest set bit first.
Bits(e) ==
    LET Of(v) == LET n == CHOOSE n \in 0 .. v :
                             v < 2 ^ n /\ (n > 0 => v >= 2 ^ (n - 1))
                 IN  [i \in 1 .. n |-> (v \div 2 ^ (n - i)) % 2]
    IN  Of(Value(e))

\* MD::expMod: squares and multiplications from the highest bit of e.  The
\* result is only written after a digit of e: with e = 0 the number keeps
\* what it held.
ExpMod(x, e, held) ==
    LET Bit(square, bit) == IF bit = 1 THEN MulMod(square, x).d ELSE square
        Square(a) == MulMod(a, a).d
        Power(b) ==
            LET A[i \in 0 .. Len(b)] ==
                    IF i = 0 THEN CopyInt(1, K) ELSE Bit(Square(A[i - 1]), b[i])
            IN  IF b = <<>> THEN held ELSE A[Len(b)]
    IN  Power(Bits(e))

=============================================================================
