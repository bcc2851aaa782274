----------------------------- MODULE HashStream -----------------------------
(***************************************************************************)
(* A hash and an HMAC in use (src/Crypto/Sha512.cpp, HmacSha512.cpp): the  *)
(* objects are created and fed a message piece by piece.  What they would  *)
(* give if they were ended now is examined after each piece.               *)
(*                                                                         *)
(* The message is given as a whole, and cut anywhere.                      *)
(***************************************************************************)
EXTENDS Sha512

CONSTANTS Symbol,      \* the bytes of messages and keys
          Message,     \* all that will ever be fed
          Keys,        \* keys of the HMAC
          MacSizes     \* of what is asked for

ASSUME HashStreamAssumption ==
    /\ Message \in Seq(Symbol)
    /\ Keys \subseteq Seq(Symbol)
    /\ MacSizes \subseteq Nat

VARIABLES fed,         \* bytes of the message that were fed so far
          key,
          sha,         \* a Sha512
          mac          \* an HmacSha512, of the key

hashVars == <<fed, key, sha, mac>>

HashTypeOK == fed \in 0 .. Len(Message) /\ key \in Keys

HashInit ==
    /\ fed = 0
    /\ key \in Keys
    /\ sha = ShaInit
    /\ mac = HmacStart(key)

Feed(n) ==
    LET piece == SubSeq(Message, fed + 1, n)
    IN  /\ fed' = n
        /\ sha' = ShaUpdate(sha, piece)
        /\ mac' = HmacNext(mac, piece)
        /\ UNCHANGED key

HashNext == \E n \in fed .. Len(Message) : Feed(n)

HashSpec == HashInit /\ [][HashNext]_hashVars

-----------------------------------------------------------------------------
Fed == SubSeq(Message, 1, fed)

\* A hash does not depend on the pieces its message comes in, whatever the
\* half of the buffer a piece begins or ends in (Sha512::update), and it is
\* the one of the standard unless the length is one that is padded wrongly
\* (Sha512::fini; these are PaddingIsStandard's) or that L cannot hold.
HashIsStandard ==
    /\ ShaFini(sha) = ShaFini(ShaUpdate(ShaInit, Fed))
    /\ ~Misplaced(fed) /\ fed < LENGTH_RANGE => ShaFini(sha) = StandardBlocks(Fed)

\* "Crypto::Sha512": the blocks are those of SHA-512 for a message of any
\* length ("padding fits into first block", src/Crypto/Sha512.cpp:91).
PaddingIsStandard ==
    fed < LENGTH_RANGE => ShaFini(sha) = StandardBlocks(Fed)

\* HMAC as RFC 2104 has it: the hash of the outer key and the inner hash.
KeyOf(k) == IF Len(k) > BLOCK_SIZE THEN ShaCalc(k) ELSE k
HmacOf(k, msg) ==
    ShaCalc(KeyBlock("5c", KeyOf(k)) \o ShaCalc(KeyBlock("36", KeyOf(k)) \o msg))

\* For keys shorter and longer than a block and a message in any pieces, and
\* cut to the size asked for (src/Crypto/HmacSha512.cpp), the code is given
\* that HMAC; a derived key (Crypto.h) is HMAC of the purpose and a one under
\* HMAC of the shared secret under the salt.
HmacIsNested ==
    LET plain == HmacOf(key, Fed)
        derived == HmacOf(plain, <<"info", <<"01">>>>)
        Cut(hash, size) == SubSeq(hash, 1, IF size > HASH_SIZE THEN HASH_SIZE ELSE size)
    IN  \A size \in MacSizes :
            /\ HmacEnd(mac, size) = Cut(plain, size)
            /\ Hkdf(key, Fed, <<"info">>, size) = Cut(derived, size)
=============================================================================
