-------------------------------- MODULE Srp --------------------------------
(***************************************************************************)
(* The SRP exchange of pair-setup (src/Crypto/Srp.cpp): the host is the    *)
(* accessory, the user the controller (the class User is the one the tests *)
(* of the repository log in with).  The numbers are those of module MD;    *)
(* the bytes of a value are those the code hashes and sends, with the      *)
(* bytes a buffer held before where the code leaves them there.            *)
(*                                                                         *)
(* A hash is abstract.  Where its value is used as a number (x, k and u)   *)
(* the number is a parameter, any value that fits its bytes; where it is   *)
(* only compared (the session key and the proofs) it is the tuple of what  *)
(* was hashed, so that two hashes are equal when their inputs are.         *)
(***************************************************************************)
EXTENDS MD

CONSTANTS Generator,       \* g_val
          HASH_BYTES,      \* HASH_SIZE_BYTES: 64 in the code
          PRIVATE_BYTES    \* SRP_PRIVATE_BYTES: 32 in the code

PUBLIC_BYTES == N_DIGITS * D_BYTES

\* Hashes and private values are short beside the modulus: u * x + a < N.
ASSUME SrpAssumption ==
    /\ Generator \in 1 .. Base - 1
    /\ HASH_BYTES \in Nat /\ HASH_BYTES % D_BYTES = 0
    /\ PRIVATE_BYTES \in Nat /\ PRIVATE_BYTES % D_BYTES = 0
    /\ (ByteBase ^ HASH_BYTES - 1) ^ 2 + ByteBase ^ PRIVATE_BYTES <= Modulus

g == Digits(Generator, 1)
HashDigits == HASH_BYTES \div D_BYTES
PrivateDigits == PRIVATE_BYTES \div D_BYTES

\* The first bytes of a buffer of n bytes are written over, the others stay
\* as they were.
Over(bytes, n, stale) ==
    [i \in 1 .. n |-> IF i <= Len(bytes) THEN bytes[i] ELSE stale]

\* Verifier::init: x, the bytes of it that are stored (without its leading
\* zero bytes), and v = g^x.
Verifier(x, stale) ==
    LET t1 == Digits(x, K)
    IN  [x |-> Over(Val(t1, 0), HASH_BYTES, stale),
         v |-> Val(ExpMod(g, t1, Zero(K)), PUBLIC_BYTES)]

\* Host::init: B = kv + g^b.
HostInit(ver, k, b) ==
    LET t2 == InitBytes(ver.v, K)
        t1 == MulMod(Digits(k, K), t2).d
        t3 == ExpMod(g, Digits(b, PrivateDigits), Zero(K))
    IN  Val(AddMod(t1, t3).d, PUBLIC_BYTES)

\* The bytes hashed for K: val without a length writes the significant bytes
\* of S only, to the front of a buffer of which PUBLIC_BYTES are hashed.
HashedOfS(S, stale) == Over(Val(S, 0), PUBLIC_BYTES, stale)

\* K as it is stored: the hash without its `zeros' leading zero bytes, and
\* behind it the bytes that were there.
StoredKey(hashed, zeros, stale) ==
    [hash |-> hashed,
     lost |-> zeros,
     behind |-> IF zeros = 0 THEN 0 ELSE stale]

\* Host::setA: S = (Av^u)^b.
HostS(ver, A, u, b) ==
    LET t1 == ExpMod(InitBytes(ver.v, K), Digits(u, K), Zero(K))
        t2 == MulMod(InitBytes(A, K), t1).d
    IN  ExpMod(t2, Digits(b, PrivateDigits), Zero(K))

\* The proofs M and V, of what both sides hold.
ProofM(I, s, A, B, key) == <<"M", I, s, A, B, key>>
ProofV(A, M, key) == <<"V", A, M, key>>

HostSetA(ver, I, s, A, B, u, b, zeros, stale) ==
    LET With(key) == [key |-> key, M |-> ProofM(I, s, A, B, key)]
    IN  With(StoredKey(HashedOfS(HostS(ver, A, u, b), stale), zeros, stale))

\* Host::verify and getV: the proof of the user is compared before the
\* host's own is made.
HostVerify(host, A, M) ==
    IF M = host.M THEN [ok |-> TRUE, V |-> ProofV(A, M, host.key)]
                  ELSE [ok |-> FALSE, V |-> <<>>]

\* User::User: A = g^a.
UserA(a, stale) ==
    Over(Val(ExpMod(g, Digits(a, PrivateDigits), Zero(K)), 0),
         PUBLIC_BYTES, stale)

\* (without the multiplier k)
UserS_NoMultiplier(ver, B, k, u, a) ==
    LET t4 == InitBytes(ver.x, K)
        t1 == Sub(InitBytes(B, K), ExpMod(g, t4, Zero(K)), K).d
        ux == MulMod(Digits(u, HashDigits), t4).d
    IN  ExpMod(t1, AddMod(Digits(a, PrivateDigits), ux).d, ux)

\* User::auth: S = (B - kg^x)^(a + ux).  The subtraction is of digits, not
\* modulo N; the result keeps ux when the exponent is zero.
UserS(ver, B, k, u, a) ==
    LET t4 == InitBytes(ver.x, K)
        t2 == MulMod(Digits(k, HashDigits), ExpMod(g, t4, Zero(K))).d
        t1 == Sub(InitBytes(B, K), t2, K).d
        ux == MulMod(Digits(u, HashDigits), t4).d
    IN  ExpMod(t1, AddMod(Digits(a, PrivateDigits), ux).d, ux)

UserAuth(ver, I, s, A, B, k, u, a, zeros, stale) ==
    LET With(key) == [key |-> key, M |-> ProofM(I, s, A, B, key)]
    IN  With(StoredKey(HashedOfS(UserS(ver, B, k, u, a), stale), zeros, stale))

\* User::proof and User::verify.
UserVerify(user, A, V) == V = ProofV(A, user.M, user.key)
=============================================================================
