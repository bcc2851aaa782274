----------------------------- MODULE TlvMessage -----------------------------
(***************************************************************************)
(* A pairing message: created item by item, in a buffer that may be too    *)
(* small, and parsed by the other end (src/Hap/HapTlv.h).  What the parser *)
(* would find is examined after each item.                                 *)
(***************************************************************************)
EXTENDS Tlv

CONSTANTS Contents,    \* what can be added: of a type, a kind and a value
          Buffers,     \* sizes of the buffer the message is created in
          Rooms        \* sizes of the buffer data is read into

TlvTypes == (0 .. MaxItem) \ {Invalid}
TlvStrings == Seq(0 .. MaxItem)

ASSUME TlvMessageAssumption ==
    /\ \A e \in Contents :
          /\ e.type \in TlvTypes
          /\ \/ e = [type |-> e.type, kind |-> "empty", value |-> <<>>]
             \/ e = [type |-> e.type, kind |-> "int", value |-> e.value] /\ e.value \in Nat
             \/ e = [type |-> e.type, kind |-> "data", value |-> e.value] /\ e.value \in TlvStrings
    /\ Buffers \subseteq Nat
    /\ Rooms \subseteq Nat

VARIABLES message,     \* the creator
          added,       \* what was added
          items        \* the items this makes

tlvVars == <<message, added, items>>

TlvInit == message \in {TlvCreate(size) : size \in Buffers} /\ added = <<>> /\ items = <<>>

\* The next message.
TlvBegin == message' \in {TlvCreate(size) : size \in Buffers} /\ added' = <<>> /\ items' = <<>>

\* The values of the items of a content.
TlvParts(e) ==
    CASE e.kind = "empty" -> <<<<>>>>
      [] e.kind = "int" -> <<IntBytes(e.value)>>
      [] e.kind = "data" -> ItemsOf(e.value)

\* A message has one content of a type.
TlvAdd(e) ==
    /\ \A i \in DOMAIN added : added[i].type # e.type
    /\ message' =
         CASE e.kind = "empty" -> TlvAddEmpty(message, e.type)
           [] e.kind = "int" -> TlvAddInt(message, e.type, e.value)
           [] e.kind = "data" -> TlvAddData(message, e.type, e.value)
    /\ added' = Append(added, e)
    /\ items' = items \o [i \in DOMAIN TlvParts(e) |->
                              [type |-> e.type, value |-> TlvParts(e)[i]]]

TlvNext == TlvBegin \/ \E e \in Contents : TlvAdd(e)

TlvSpec == TlvInit /\ [][TlvNext]_tlvVars

-----------------------------------------------------------------------------
TlvFound(value) == [ok |-> TRUE, value |-> value]
TlvNotFound == [ok |-> FALSE, value |-> <<>>]

TlvReadBack(p, e) ==
    /\ e.kind = "empty" => TlvGet(p, e.type) = TlvFound(<<>>)
    /\ e.kind = "int" => TlvGetInt(p, e.type) = TlvFound(e.value)
    /\ e.kind = "data" =>
         /\ Len(e.value) \in 1 .. MaxItem => TlvGet(p, e.type) = TlvFound(e.value)
         /\ \A room \in Rooms :
              TlvGetData(p, e.type, room)
              = IF Len(e.value) \in 1 .. room THEN TlvFound(e.value) ELSE TlvNotFound

\* What was written is read back: integers, and data of any length, spread
\* over items, as long as the parser has room for the items and the caller
\* for the bytes, and nothing is found of a type that was not added.  A
\* message that does not fit is reported, and is never longer than its buffer
\* (src/Hap/HapTlv.h).
TlvRoundTrip ==
    /\ Len(message.buf) <= message.size
    /\ message.ok /\ Len(items) <= MaxTlv =>
         LET p == TlvParse(message.buf)
         IN  /\ TlvCount(p) = Len(items)
             /\ \A i \in DOMAIN added : TlvReadBack(p, added[i])
             /\ \A t \in TlvTypes :
                  (\A i \in DOMAIN added : added[i].type # t) => TlvGet(p, t) = TlvNotFound
=============================================================================
