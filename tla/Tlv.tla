-------------------------------- MODULE Tlv --------------------------------
(***************************************************************************)
(* The items of the pairing messages (src/Hap/HapTlv.h): a type, a length  *)
(* of one byte and that many bytes.  Longer data is spread over items of   *)
(* the same type that follow each other, and read back as one.             *)
(***************************************************************************)
EXTENDS Integers, Sequences, SequencesExt

CONSTANTS MaxItem,     \* the largest length of an item: 255 in the code
          MaxTlv       \* items the parser has room for: MaxHttpTlv

ASSUME TlvAssumption == MaxItem \in Nat \ {0} /\ MaxTlv \in Nat

OneByte == MaxItem + 1

\* The type of an item that is not there: no item has it.
Invalid == MaxItem - 1

\* What is read behind the end of a message.
Behind == <<"behind">>
ByteAt(buf, i) == IF i \in DOMAIN buf THEN buf[i] ELSE Behind

-----------------------------------------------------------------------------
(* Parse.                                                                  *)

\* Parse::parse: the offsets of the items; one that reaches behind the end
\* of the buffer is the last.
TlvParse(buf) ==
    LET next[i \in 0 .. MaxTlv] ==
            IF i = 0 THEN 1
            ELSE IF next[i - 1] + 1 > Len(buf) THEN next[i - 1]
            ELSE next[i - 1] + 2 + buf[next[i - 1] + 1]
        count == CHOOSE n \in 0 .. MaxTlv :
                    /\ n = MaxTlv \/ next[n] + 1 > Len(buf)
                    /\ \A i \in 0 .. n - 1 : next[i] + 1 <= Len(buf)
    IN  [buf |-> buf, off |-> [i \in 1 .. count |-> next[i - 1]]]

\* Parse::count, type, length and value.
TlvCount(p) == Len(p.off)
TlvType(p, i) == IF i > TlvCount(p) THEN Invalid ELSE p.buf[p.off[i]]
TlvLength(p, i) == IF i > TlvCount(p) THEN 0 ELSE p.buf[p.off[i] + 1]
TlvValue(p, i) == [k \in 1 .. TlvLength(p, i) |-> ByteAt(p.buf, p.off[i] + 1 + k)]

\* The first item of a type; 0 when there is none.
TlvFind(p, t) ==
    LET has == {i \in 1 .. TlvCount(p) : TlvType(p, i) = t}
    IN  IF has = {} THEN 0 ELSE CHOOSE i \in has : \A j \in has : i <= j

\* Parse::get of one item.
TlvGet(p, t) ==
    LET i == TlvFind(p, t)
    IN  IF i = 0 THEN [ok |-> FALSE, value |-> <<>>]
                 ELSE [ok |-> TRUE, value |-> TlvValue(p, i)]

\* Parse::getInt and get: the least significant byte comes first.
IntOf(bytes) ==
    LET from[i \in 0 .. Len(bytes)] ==
            IF i = 0 THEN 0 ELSE bytes[Len(bytes) + 1 - i] + OneByte * from[i - 1]
    IN  from[Len(bytes)]
TlvGetInt(p, t) ==
    LET item == TlvGet(p, t)
    IN  [ok |-> item.ok, value |-> IntOf(item.value)]

\* Parse::getData and get: the items of the same type from the first on, as
\* long as they fit into `size' bytes.
TlvGetData(p, t, size) ==
    LET first == TlvFind(p, t)
        last == CHOOSE i \in first - 1 .. TlvCount(p) :
                   /\ \A j \in first .. i : TlvType(p, j) = t
                   /\ TlvType(p, i + 1) # t
        data[k \in 0 .. last - first + 1] ==
            IF k = 0 THEN <<>> ELSE data[k - 1] \o TlvValue(p, first + k - 1)
        all == data[last - first + 1]
    IN  IF first = 0 \/ Len(all) > size THEN [ok |-> FALSE, value |-> <<>>]
        ELSE [ok |-> TRUE, value |-> all]

-----------------------------------------------------------------------------
(* Create.  The length of the message only moves when an item is complete. *)

\* ok remembers that every add has succeeded.
TlvCreate(size) == [buf |-> <<>>, size |-> size, ok |-> TRUE]

Room(c) == c.size - Len(c.buf)
Failed(c) == [c EXCEPT !.ok = FALSE]

\* Create::add of an item without value.
TlvAddEmpty(c, t) ==
    IF Room(c) < 2 THEN Failed(c) ELSE [c EXCEPT !.buf = @ \o <<t, 0>>]

\* Create::addInt: the bytes of v; an integer that ends with the buffer is
\* refused.
IntBytes(v) ==
    LET rest[i \in 0 .. v + 1] == IF i = 0 THEN v ELSE rest[i - 1] \div OneByte
        n == CHOOSE n \in 1 .. v + 1 : rest[n] = 0 /\ \A i \in 1 .. n - 1 : rest[i] # 0
    IN  [i \in 1 .. n |-> rest[i - 1] % OneByte]

TlvAddInt(c, t, v) ==
    LET b == IntBytes(v)
    IN  IF Room(c) < 3 \/ Len(b) + 2 >= Room(c) THEN Failed(c)
        ELSE [c EXCEPT !.buf = @ \o <<t, Len(b)>> \o b]

\* Create::addBytes.
TlvAddBytes(c, t, d) ==
    IF Room(c) < Len(d) + 2 THEN Failed(c)
    ELSE [c EXCEPT !.buf = @ \o <<t, Len(d)>> \o d]

\* Create::add of data: items of MaxItem bytes and the rest; those that fit
\* before one that does not stay in the message.
ItemsOf(d) ==
    LET EndOf(i) == IF i * MaxItem > Len(d) THEN Len(d) ELSE i * MaxItem
    IN  [i \in 1 .. (Len(d) + MaxItem - 1) \div MaxItem |->
            SubSeq(d, (i - 1) * MaxItem + 1, EndOf(i))]

\* The fault: only whole items are added.
TlvAddData_Rest(c, t, d) ==
    LET parts == ItemsOf(d)
        added[i \in 0 .. Len(parts)] ==
            IF i = 0 THEN [c EXCEPT !.ok = TRUE]
            ELSE IF added[i - 1].ok /\ Len(parts[i]) = MaxItem
                 THEN TlvAddBytes(added[i - 1], t, parts[i])
                 ELSE added[i - 1]
    IN  [added[Len(parts)] EXCEPT !.ok = @ /\ c.ok]

TlvAddData(c, t, d) ==
    LET parts == ItemsOf(d)
        added[i \in 0 .. Len(parts)] ==
            IF i = 0 THEN [c EXCEPT !.ok = TRUE]
            ELSE IF added[i - 1].ok THEN TlvAddBytes(added[i - 1], t, parts[i])
                                    ELSE added[i - 1]
    IN  [added[Len(parts)] EXCEPT !.ok = @ /\ c.ok]
=============================================================================
