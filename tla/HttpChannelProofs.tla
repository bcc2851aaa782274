------------------------- MODULE HttpChannelProofs -------------------------
(***************************************************************************)
(* Proofs about HttpChannel, for buffers and requests of any size, and     *)
(* about the creator of the responses it sends, for texts of any length.   *)
(* That a frame opens as what was locked in it, which the channel takes as *)
(* done, is proved in AlgorithmProofs.                                     *)
(***************************************************************************)
EXTENDS HttpChannel, Responses, SequenceTheorems, TLAPS

LEMMA Numbers ==
  /\ MaxUnits \in Nat /\ MaxRequests \in Nat
  /\ TmpRoom \in Nat /\ ReqRoom \in Nat /\ EventRoom \in Nat /\ WrapRoom \in Nat
  /\ EventRoom > 0 /\ WrapRoom > 0
BY UnitsAssumption, RoomAssumption

(* The units of a request.                                                 *)
LEMMA UnitsAreUnits ==
  ASSUME NEW r \in 1 .. MaxRequests, NEW rq \in Request, ctl \in End
  PROVE  /\ Units(r, rq) \in Seq(Unit)
         /\ \A k \in DOMAIN Units(r, rq) : Units(r, rq)[k].pos = k /\ Units(r, rq)[k].req = r
<1> DEFINE nonce(k) == IF ctl.secured THEN ctl.send + (k - 1) \div 2 ELSE Plain
<1>1. rq.len \in 1 .. MaxUnits
  BY DEF Request
<1>2. ASSUME NEW k \in 1 .. rq.len PROVE nonce(k) \in Nat \cup {Plain}
  <2>1. ctl.send \in Nat
    BY DEF End
  <2>2. (k - 1) \div 2 \in Nat
    BY <1>1, Numbers
  <2> QED
    BY <2>1, <2>2
<1>3. ASSUME NEW k \in 1 .. rq.len
      PROVE  [req |-> r, pos |-> k, nonce |-> nonce(k)] \in Unit
  <2>1. k \in Stale .. MaxUnits
    BY <1>1, Numbers DEF Stale
  <2> QED
    BY <1>2, <2>1 DEF Unit
<1> HIDE DEF nonce
<1>4. Units(r, rq) = [k \in 1 .. rq.len |-> [req |-> r, pos |-> k, nonce |-> nonce(k)]]
  BY DEF Units, nonce
<1> QED
  BY <1>1, <1>3, <1>4, Numbers

(* The frames of a message.                                                *)
LEMMA FramesAreFrames ==
  ASSUME ses \in End, NEW is \in {"response", "event"}, NEW n \in 1 .. 2, NEW whole \in BOOLEAN
  PROVE  /\ Frames(is, n, whole) \in Seq(Frame)
         /\ Len(Frames(is, n, whole)) = n
         /\ \A k \in 1 .. n :
              /\ Frames(is, n, whole)[k].is = is
              /\ Frames(is, n, whole)[k].secured = ses.secured
              /\ Frames(is, n, whole)[k].last = (k = n)
              /\ ses.secured => Frames(is, n, whole)[k].nonce = ses.send + k - 1
<1> DEFINE nonce(k) == IF ses.secured THEN ses.send + k - 1 ELSE Plain
<1> DEFINE frame(k) == [is |-> is, secured |-> ses.secured, nonce |-> nonce(k),
                        last |-> k = n, whole |-> whole]
<1>1. ASSUME NEW k \in 1 .. n PROVE nonce(k) \in Nat \cup {Plain}
  BY DEF End
<1>2. ses.secured \in BOOLEAN
  BY DEF End
<1>3. ASSUME NEW k \in 1 .. n PROVE frame(k) \in Frame
  BY <1>1, <1>2 DEF Frame
<1>4. Frames(is, n, whole) = [k \in 1 .. n |-> frame(k)]
  BY DEF Frames
<1>5. Frames(is, n, whole) \in Seq(Frame) /\ Len(Frames(is, n, whole)) = n
  <2> HIDE DEF frame
  <2> QED
    BY <1>3, <1>4
<1> QED
  BY <1>4, <1>5

LEMMA AfterSendIsEnd ==
  ASSUME ses \in End, NEW end \in End, NEW n \in Nat
  PROVE  /\ AfterSend(end, n) \in End
         /\ AfterSend(end, n).secured = end.secured
         /\ AfterSend(end, n).send = IF ses.secured THEN end.send + n ELSE end.send
BY DEF AfterSend, End

(* A sequence in two pieces.                                               *)
LEMMA Pieces ==
  ASSUME NEW S, NEW s \in Seq(S), NEW k \in 0 .. Len(s)
  PROVE  /\ SubSeq(s, 1, k) \in Seq(S) /\ SubSeq(s, k + 1, Len(s)) \in Seq(S)
         /\ Len(SubSeq(s, 1, k)) = k /\ Len(SubSeq(s, k + 1, Len(s))) = Len(s) - k
         /\ \A i \in 1 .. k : SubSeq(s, 1, k)[i] = s[i]
         /\ \A i \in 1 .. Len(s) - k : SubSeq(s, k + 1, Len(s))[i] = s[i + k]
<1>1. Len(s) \in Nat /\ \A i \in 1 .. Len(s) : s[i] \in S
  BY LenProperties, ElementOfSeq
<1>2. /\ SubSeq(s, 1, k) \in Seq(S)
      /\ Len(SubSeq(s, 1, k)) = IF 1 <= k THEN k - 1 + 1 ELSE 0
      /\ \A i \in 1 .. k - 1 + 1 : SubSeq(s, 1, k)[i] = s[1 + i - 1]
  BY <1>1, SubSeqProperties
<1>3. /\ SubSeq(s, k + 1, Len(s)) \in Seq(S)
      /\ Len(SubSeq(s, k + 1, Len(s))) = IF k + 1 <= Len(s) THEN Len(s) - (k + 1) + 1 ELSE 0
      /\ \A i \in 1 .. Len(s) - (k + 1) + 1 : SubSeq(s, k + 1, Len(s))[i] = s[k + 1 + i - 1]
  BY <1>1, SubSeqProperties
<1> QED
  BY <1>1, <1>2, <1>3
-----------------------------------------------------------------------------
(* What the reading loop does with what it received.                       *)

Elems(s) == {s[i] : i \in DOMAIN s}

(* The requests of which s has the first unit, overwritten or not.         *)
IsFirst(u) == u.pos \in {Stale, 1}
Firsts(s) == {u.req : u \in {v \in Elems(s) : IsFirst(v)}}

LEMMA FirstsOf ==
  ASSUME NEW s, NEW t, NEW u, Elems(s) \subseteq Elems(t) \cup Elems(u)
  PROVE  Firsts(s) \subseteq Firsts(t) \cup Firsts(u)
BY DEF Firsts

Keeps(buf, end, rest) ==
  /\ tmp' = rest /\ got' = buf /\ ses' = end
  /\ UNCHANGED <<out, pc, cause, room, handled>>
Refuses(end) ==
  /\ out' = Append(out, [is |-> "response", secured |-> FALSE, nonce |-> Plain,
                         last |-> TRUE, whole |-> TRUE])
  /\ ses' = end
  /\ Close("parse")
Serves(buf, end) ==
  /\ IsFirst(buf[1])
  /\ \E n \in 1 .. 2 : Handle(buf, end, n)
  /\ pc' = "idle" /\ tmp' = <<>> /\ got' = <<>>
  /\ UNCHANGED <<cause, room>>

LEMMA ParseCases ==
  ASSUME NEW buf, NEW end, NEW rest, Parse(buf, end, rest)
  PROVE  Keeps(buf, end, rest) \/ Refuses(end) \/ Serves(buf, end)
<1>1. PICK status \in Parses(buf) :
        \/ status = "Incomplete" /\ Keeps(buf, end, rest)
        \/ status = "Error" /\ Refuses(end)
        \/ /\ status = "Success"
           /\ \E n \in 1 .. 2 : Handle(buf, end, n)
           /\ pc' = "idle" /\ tmp' = <<>> /\ got' = <<>>
           /\ UNCHANGED <<cause, room>>
  BY DEF Parse, Keeps, Refuses
<1>2. status = "Success" => IsFirst(buf[1])
  BY <1>1 DEF Parses, IsFirst
<1> QED
  BY <1>1, <1>2 DEF Serves

(* A piece of the stream is received, behind what tmp has.                 *)
Received(k) == tmp \o SubSeq(stream, 1, k)
NextRecv == [ses EXCEPT !.recv = @ + 1]

LEMMA NextRecvIsEnd ==
  ASSUME ses \in End
  PROVE  /\ NextRecv \in End
         /\ NextRecv.secured = ses.secured /\ NextRecv.send = ses.send
<1> DEFINE recv == ses.recv + 1
<1>1. ses \in [secured : BOOLEAN, send : Nat, recv : Nat] /\ recv \in Nat
  BY DEF End
<1>2. NextRecv = [ses EXCEPT !.recv = recv]
  BY DEF NextRecv
<1> HIDE DEF recv
<1> QED
  BY <1>1, <1>2 DEF End

LEMMA ReceivedUnits ==
  ASSUME TypeOK, NEW k \in 1 .. Len(stream), Len(tmp) + k <= TmpRoom
  PROVE  /\ Received(k) \in Seq(Unit)
         /\ Len(Received(k)) \in 1 .. TmpRoom
         /\ Elems(Received(k)) \subseteq Elems(tmp) \cup Elems(SubSeq(stream, 1, k))
<1> DEFINE piece == SubSeq(stream, 1, k)
<1>1. tmp \in Seq(Unit) /\ stream \in Seq(Unit) /\ Len(tmp) \in Nat
  BY LenProperties DEF TypeOK
<1>2. piece \in Seq(Unit) /\ Len(piece) = k
  BY <1>1, Pieces, LenProperties
<1> HIDE DEF piece
<1>3. /\ tmp \o piece \in Seq(Unit)
      /\ Len(tmp \o piece) = Len(tmp) + Len(piece)
      /\ \A i \in 1 .. Len(tmp) + Len(piece) :
           (tmp \o piece)[i] = IF i <= Len(tmp) THEN tmp[i] ELSE piece[i - Len(tmp)]
  BY <1>1, <1>2, ConcatProperties
<1>4. Len(tmp \o piece) \in 1 .. TmpRoom
  BY <1>1, <1>2, <1>3, Numbers
<1>5. Elems(tmp \o piece) \subseteq Elems(tmp) \cup Elems(piece)
  <2> SUFFICES ASSUME NEW i \in 1 .. Len(tmp) + Len(piece)
               PROVE  (tmp \o piece)[i] \in Elems(tmp) \cup Elems(piece)
    BY <1>1, <1>2, <1>3, LenProperties DEF Elems
  <2>1. CASE i <= Len(tmp)
    BY <1>1, <1>3, <2>1, LenProperties DEF Elems
  <2>2. CASE i > Len(tmp)
    <3>1. i - Len(tmp) \in 1 .. Len(piece)
      BY <1>1, <1>2, <2>2
    <3> QED
      BY <1>1, <1>2, <1>3, <2>2, <3>1, LenProperties DEF Elems
  <2> QED
    BY <1>1, <2>1, <2>2
<1> QED
  BY <1>3, <1>4, <1>5 DEF Received, piece

(* One round of the loop waits for more, closes, or tries to parse the     *)
(* request buffer, which has only what it had and what was received.       *)
Waits(k) == Wait(Received(k))
Gives(end) ==
  /\ \E why \in {"size", "decrypt"} : Close(why)
  /\ ses' = end /\ UNCHANGED out
Tries(k, buf, end, rest) ==
  /\ buf \in Seq(Unit) /\ Len(buf) \in 1 .. ReqRoom
  /\ Firsts(buf) \subseteq Firsts(got) \cup Firsts(Received(k))
  /\ rest \in Seq(Unit) /\ Len(rest) <= TmpRoom
  /\ Firsts(rest) \subseteq Firsts(Received(k))
  /\ Parse(buf, end, rest)
Round(k) ==
  \E end \in {ses, NextRecv} :
    \/ Waits(k)
    \/ Gives(end)
    \/ \E buf, rest : Tries(k, buf, end, rest)

LEMMA Joined ==
  ASSUME NEW S, NEW s \in Seq(S), NEW t \in Seq(S)
  PROVE  /\ s \o t \in Seq(S) /\ Len(s \o t) = Len(s) + Len(t)
         /\ Elems(s \o t) \subseteq Elems(s) \cup Elems(t)
<1>1. /\ s \o t \in Seq(S) /\ Len(s \o t) = Len(s) + Len(t)
      /\ Len(s) \in Nat /\ Len(t) \in Nat
  BY ConcatProperties, LenProperties
<1>2. ASSUME NEW i \in 1 .. Len(s) + Len(t) PROVE (s \o t)[i] \in Elems(s) \cup Elems(t)
  <2>1. CASE i <= Len(s)
    BY <2>1, <1>1, ConcatProperties, LenProperties DEF Elems
  <2>2. CASE i > Len(s)
    <3>1. i - Len(s) \in 1 .. Len(t)
      BY <1>1, <2>2
    <3> QED
      BY <1>1, <2>2, <3>1, ConcatProperties, LenProperties DEF Elems
  <2> QED
    BY <1>1, <2>1, <2>2
<1> QED
  BY <1>1, <1>2, LenProperties DEF Elems

LEMMA Cut ==
  ASSUME NEW S, NEW s \in Seq(S), NEW n \in 0 .. Len(s)
  PROVE  /\ SubSeq(s, 1, n) \in Seq(S) /\ Len(SubSeq(s, 1, n)) = n
         /\ Elems(SubSeq(s, 1, n)) \subseteq Elems(s)
<1>1. /\ SubSeq(s, 1, n) \in Seq(S) /\ Len(SubSeq(s, 1, n)) = n
      /\ \A i \in 1 .. n : SubSeq(s, 1, n)[i] = s[i]
  BY Pieces
<1>2. DOMAIN SubSeq(s, 1, n) = 1 .. n /\ DOMAIN s = 1 .. Len(s) /\ Len(s) \in Nat
  BY <1>1, LenProperties
<1> QED
  BY <1>1, <1>2 DEF Elems

LEMMA ReadPlainIsRound ==
  ASSUME TypeOK, NEW k \in 1 .. Len(stream), Len(tmp) + k <= TmpRoom,
         ReadPlain(Received(k))
  PROVE  Round(k)
<1> DEFINE data == Received(k)
<1>1. data \in Seq(Unit) /\ Len(data) \in 1 .. TmpRoom
  BY ReceivedUnits
<1>2. got \in Seq(Unit) /\ Len(got) \in Nat
  BY LenProperties DEF TypeOK
<1>3. CASE Len(got) + Len(data) > ReqRoom
  BY <1>3 DEF ReadPlain, Round, Gives
<1>4. CASE ~(Len(got) + Len(data) > ReqRoom)
  <2>1. Parse(got \o data, ses, <<>>)
    BY <1>4 DEF ReadPlain
  <2> HIDE DEF data
  <2>2. /\ got \o data \in Seq(Unit) /\ Len(got \o data) \in 1 .. ReqRoom
        /\ Elems(got \o data) \subseteq Elems(got) \cup Elems(data)
    BY <1>1, <1>2, <1>4, Joined, Numbers
  <2>3. <<>> \in Seq(Unit) /\ Len(<<>>) <= TmpRoom /\ Elems(<<>>) \subseteq Elems(data)
    BY Numbers DEF Elems
  <2>4. Tries(k, got \o data, ses, <<>>)
    BY <2>1, <2>2, <2>3, FirstsOf DEF Tries, data
  <2> QED
    BY <2>4 DEF Round
<1> QED
  BY <1>3, <1>4

LEMMA DecryptedUnits ==
  ASSUME TypeOK, NEW data \in Seq(Unit), Len(data) >= 2
  PROVE  /\ Decrypted(data) \in Seq(Unit)
         /\ Len(Decrypted(data)) = Len(got) + 2
         /\ Firsts(Decrypted(data)) \subseteq Firsts(got) \cup Firsts(data)
<1> DEFINE block == SubSeq(data, 1, 2)
           buf == got \o block
           over == [buf EXCEPT ![1].pos = IF @ = 1 THEN Stale ELSE @]
<1>1. got \in Seq(Unit) /\ Len(got) \in Nat /\ Len(data) \in Nat
  BY LenProperties DEF TypeOK
<1>2. block \in Seq(Unit) /\ Len(block) = 2 /\ Elems(block) \subseteq Elems(data)
  BY <1>1, Cut
<1> HIDE DEF block
<1>3. /\ buf \in Seq(Unit) /\ Len(buf) = Len(got) + 2
      /\ Elems(buf) \subseteq Elems(got) \cup Elems(data)
  BY <1>1, <1>2, Joined
<1>4. Decrypted(data) = IF Len(data) = 2 THEN buf ELSE over
  BY DEF Decrypted, block
<1> HIDE DEF buf
<1>5. /\ over \in Seq(Unit) /\ Len(over) = Len(buf) /\ Firsts(over) \subseteq Firsts(buf)
  <2>1. DOMAIN buf = 1 .. Len(buf) /\ Len(buf) \in Nat \ {0} /\ \A i \in 1 .. Len(buf) : buf[i] \in Unit
    BY <1>1, <1>3, LenProperties, ElementOfSeq
  <2> DEFINE start == [buf[1] EXCEPT !.pos = IF @ = 1 THEN Stale ELSE @]
  <2>2. /\ 1 \in 1 .. Len(buf) /\ buf[1] \in Unit
    BY <2>1
  <2>3. start \in Unit /\ start.req = buf[1].req /\ (IsFirst(start) => IsFirst(buf[1]))
    <3>1. Stale \in Stale .. MaxUnits
      BY Numbers DEF Stale
    <3> QED
      BY <2>2, <3>1 DEF Unit, IsFirst
  <2> HIDE DEF start
  <2>4. over = [buf EXCEPT ![1] = start]
    BY DEF start
  <2>5. /\ DOMAIN over = 1 .. Len(buf)
        /\ \A i \in 1 .. Len(buf) : over[i] = IF i = 1 THEN start ELSE buf[i]
    BY <2>1, <2>4
  <2>6. over \in Seq(Unit) /\ Len(over) = Len(buf)
    <3>1. over \in [1 .. Len(buf) -> Unit]
      BY <1>3, <2>1, <2>3, <2>4, <2>5, SeqDef, LenProperties
    <3> HIDE DEF over
    <3> QED
      BY <2>1, <3>1, SeqDef, LenProperties
  <2>7. Firsts(over) \subseteq Firsts(buf)
    <3> SUFFICES ASSUME NEW i \in 1 .. Len(buf), IsFirst(over[i])
                 PROVE  over[i].req \in Firsts(buf)
      <4>1. DOMAIN over = 1 .. Len(buf)
        BY <2>5
      <4> HIDE DEF over
      <4> QED
        BY <4>1 DEF Firsts, Elems
    <3>1. IsFirst(buf[i]) /\ over[i].req = buf[i].req
      BY <2>3, <2>5
    <3> QED
      BY <2>1, <3>1 DEF Firsts, Elems
  <2> QED
    BY <2>6, <2>7
<1> HIDE DEF over
<1>6. Firsts(buf) \subseteq Firsts(got) \cup Firsts(data)
  BY <1>3, FirstsOf
<1> QED
  BY <1>3, <1>4, <1>5, <1>6

LEMMA ReadBlockIsRound ==
  ASSUME TypeOK, NEW k \in 1 .. Len(stream), Len(tmp) + k <= TmpRoom,
         Len(Received(k)) > 1, ReadBlock(Received(k))
  PROVE  Round(k)
<1> DEFINE data == Received(k)
<1>1. data \in Seq(Unit) /\ Len(data) \in 2 .. TmpRoom
  BY ReceivedUnits, Numbers
<1>2. got \in Seq(Unit) /\ Len(got) \in Nat
  BY LenProperties DEF TypeOK
<1>3. CASE Len(got) + 2 > ReqRoom /\ Close("size") /\ UNCHANGED <<out, ses>>
  BY <1>3 DEF Round, Gives
<1>4. CASE Close("decrypt") /\ ses' = NextRecv /\ UNCHANGED out
  BY <1>4 DEF Round, Gives
<1>5. CASE /\ Len(got) + 2 <= ReqRoom
           /\ Parse(Decrypted(data), NextRecv, Rest(data))
  <2> HIDE DEF data
  <2>2. /\ Decrypted(data) \in Seq(Unit)
        /\ Len(Decrypted(data)) \in 1 .. ReqRoom
        /\ Firsts(Decrypted(data)) \subseteq Firsts(got) \cup Firsts(data)
    BY <1>1, <1>2, <1>5, DecryptedUnits, Numbers
  <2>3. Rest(data) \in Seq(Unit) /\ Len(Rest(data)) <= TmpRoom /\ Elems(Rest(data)) \subseteq Elems(data)
    <3>1. CASE Len(data) > 2
      <4>1. Len(data) - 2 \in 0 .. Len(data) /\ Len(data) <= TmpRoom
        BY <1>1, <3>1, Numbers
      <4>2. Rest(data) = SubSeq(data, 1, Len(data) - 2)
        BY <3>1 DEF Rest
      <4> QED
        BY <1>1, <4>1, <4>2, Cut, Numbers
    <3>2. CASE ~(Len(data) > 2)
      BY <1>1, <3>2, Numbers DEF Rest
    <3> QED
      BY <3>1, <3>2
  <2>4. Tries(k, Decrypted(data), NextRecv, Rest(data))
    BY <1>5, <2>2, <2>3, FirstsOf DEF Tries, data
  <2> QED
    BY <2>4 DEF Round
<1> QED
  BY <1>3, <1>4, <1>5 DEF ReadBlock, NextRecv

LEMMA RecvIsRound ==
  ASSUME TypeOK, Recv
  PROVE  /\ pc = "recv" /\ UNCHANGED controller
         /\ \E k \in 1 .. Len(stream) :
              /\ Len(tmp) + k <= TmpRoom
              /\ stream' = SubSeq(stream, k + 1, Len(stream))
              /\ Round(k)
<1>1. PICK k \in 1 .. Len(stream) :
        /\ Len(tmp) + k <= TmpRoom
        /\ stream' = SubSeq(stream, k + 1, Len(stream))
        /\ IF ses.secured THEN ReadSecured(Received(k)) ELSE ReadPlain(Received(k))
  BY DEF Recv, Received
<1>2. CASE ReadPlain(Received(k))
  BY <1>1, <1>2, ReadPlainIsRound DEF Recv
<1>3. CASE ReadSecured(Received(k))
  <2>1. CASE Wait(Received(k))
    BY <1>1, <2>1 DEF Round, Waits, Recv
  <2>2. CASE Len(Received(k)) > 1 /\ ReadBlock(Received(k))
    BY <1>1, <2>2, ReadBlockIsRound DEF Recv
  <2>3. CASE Close("size") /\ UNCHANGED <<out, ses>>
    BY <1>1, <2>3 DEF Round, Gives, Recv
  <2>4. CASE Close("decrypt") /\ ses' = NextRecv /\ UNCHANGED out
    BY <1>1, <2>4 DEF Round, Gives, Recv
  <2> QED
    BY <1>3, <2>1, <2>2, <2>3, <2>4 DEF ReadSecured, NextRecv
<1> QED
  BY <1>1, <1>2, <1>3
-----------------------------------------------------------------------------
(* The types.                                                              *)

LEMMA HandleKeepsType ==
  ASSUME TypeOK, NEW buf \in Seq(Unit), Len(buf) \in 1 .. ReqRoom, NEW end \in End,
         NEW n \in 1 .. 2, Handle(buf, end, n)
  PROVE  /\ out' \in Seq(Frame) /\ ses' \in End
         /\ handled' \in Seq([req : 1 .. MaxRequests, whole : BOOLEAN])
<1> DEFINE r == buf[1].req
           whole == buf[1].pos = 1 /\ Len(buf) = reqs[r].len
           secures == whole /\ reqs[r].kind = "verify"
           End2 == AfterSend(end, n)
<1>1. buf[1] \in Unit
  BY ElementOfSeq, Numbers
<1>2. r \in 1 .. MaxRequests
  BY <1>1 DEF Unit
<1>3. End2 \in End
  <2>1. n \in Nat /\ ses \in End
    BY DEF TypeOK
  <2> QED
    BY <2>1, AfterSendIsEnd
<1>4. /\ out' = out \o Frames("response", n, TRUE)
      /\ ses' = [End2 EXCEPT !.secured = @ \/ secures]
      /\ handled' = Append(handled, [req |-> r, whole |-> whole])
  BY DEF Handle
<1>5. out' \in Seq(Frame)
  BY <1>4, FramesAreFrames, Joined DEF TypeOK
<1>6. ses' \in End
  <2> HIDE DEF secures, End2
  <2>1. (End2.secured \/ secures) \in BOOLEAN
    OBVIOUS
  <2>2. End2 \in [secured : BOOLEAN, send : Nat, recv : Nat]
    BY <1>3 DEF End
  <2>3. [End2 EXCEPT !.secured = (End2.secured \/ secures)] \in End
    <3> DEFINE b == End2.secured \/ secures
    <3>1. b \in BOOLEAN
      BY <2>1
    <3> HIDE DEF b
    <3>2. [End2 EXCEPT !.secured = b] \in End
      BY <2>2, <3>1 DEF End
    <3> QED
      BY <3>2 DEF b
  <2> QED
    BY <1>4, <2>3
<1>7. handled' \in Seq([req : 1 .. MaxRequests, whole : BOOLEAN])
  <2>1. whole \in BOOLEAN
    OBVIOUS
  <2> HIDE DEF whole, r
  <2>2. [req |-> r, whole |-> whole] \in [req : 1 .. MaxRequests, whole : BOOLEAN]
    BY <1>2, <2>1
  <2> QED
    BY <1>4, <2>2 DEF TypeOK
<1> QED
  BY <1>5, <1>6, <1>7

LEMMA RoundKeepsType ==
  ASSUME TypeOK, NEW k \in 1 .. Len(stream), Len(tmp) + k <= TmpRoom,
         stream' = SubSeq(stream, k + 1, Len(stream)), Round(k), UNCHANGED controller
  PROVE  TypeOK'
<1>1. reqs' \in Seq(Request) /\ answered' \in 0 .. Len(reqs)' /\ ctl' \in End
  BY DEF TypeOK, controller
<1>2. stream' \in Seq(Unit)
  <2>1. stream \in Seq(Unit) /\ Len(stream) \in Nat
    BY LenProperties DEF TypeOK
  <2> QED
    BY <2>1, Pieces
<1>3. Received(k) \in Seq(Unit) /\ Len(Received(k)) \in 1 .. TmpRoom
  BY ReceivedUnits
<1>4. NextRecv \in End
  BY NextRecvIsEnd DEF TypeOK
<1>5. PICK end \in {ses, NextRecv} :
        Waits(k) \/ Gives(end) \/ \E buf, rest : Tries(k, buf, end, rest)
  BY DEF Round
<1>6. end \in End
  BY <1>4 DEF TypeOK
<1>7. CASE Waits(k)
  BY <1>1, <1>2, <1>3, <1>7, Numbers DEF Waits, Wait, TypeOK
<1>8. CASE Gives(end)
  BY <1>1, <1>2, <1>6, <1>8 DEF Gives, Close, TypeOK
<1>9. CASE \E buf, rest : Tries(k, buf, end, rest)
  <2>1. PICK buf, rest : Tries(k, buf, end, rest)
    BY <1>9
  <2>2. buf \in Seq(Unit) /\ Len(buf) \in 1 .. ReqRoom /\ rest \in Seq(Unit) /\ Len(rest) <= TmpRoom
    BY <2>1 DEF Tries
  <2>3. Keeps(buf, end, rest) \/ Refuses(end) \/ Serves(buf, end)
    BY <2>1, ParseCases DEF Tries
  <2>4. CASE Keeps(buf, end, rest)
    BY <1>1, <1>2, <1>6, <2>2, <2>4, Numbers DEF Keeps, TypeOK
  <2>5. CASE Refuses(end)
    <3>1. [is |-> "response", secured |-> FALSE, nonce |-> Plain,
           last |-> TRUE, whole |-> TRUE] \in Frame
      BY DEF Frame
    <3>2. out' \in Seq(Frame)
      BY <2>5, <3>1 DEF Refuses, TypeOK
    <3> QED
      BY <1>1, <1>2, <1>6, <2>5, <3>2 DEF Refuses, Close, TypeOK
  <2>6. CASE Serves(buf, end)
    <3>1. /\ out' \in Seq(Frame) /\ ses' \in End
          /\ handled' \in Seq([req : 1 .. MaxRequests, whole : BOOLEAN])
      BY <1>6, <2>2, <2>6, HandleKeepsType DEF Serves
    <3>2. <<>> \in Seq(Unit) /\ Len(<<>>) = 0
      OBVIOUS
    <3> QED
      BY <1>1, <1>2, <2>6, <3>1, <3>2, Numbers DEF Serves, TypeOK
  <2> QED
    BY <2>3, <2>4, <2>5, <2>6
<1> QED
  BY <1>5, <1>7, <1>8, <1>9

LEMMA InitType == Init => TypeOK
BY Numbers DEF Init, Fresh, TypeOK, End

LEMMA NextType == TypeOK /\ [Next]_vars => TypeOK'
<1> SUFFICES ASSUME TypeOK, [Next]_vars PROVE TypeOK'
  OBVIOUS
<1>1. ASSUME NEW rq \in Request, SendRequest(rq) PROVE TypeOK'
  <2>1. Len(reqs) \in Nat /\ Len(reqs) < MaxRequests /\ reqs \in Seq(Request)
    BY <1>1, LenProperties DEF SendRequest, TypeOK
  <2>2. Len(reqs) + 1 \in 1 .. MaxRequests
    BY <2>1, Numbers
  <2>3. Units(Len(reqs) + 1, rq) \in Seq(Unit)
    BY <2>2, UnitsAreUnits DEF TypeOK
  <2>4. stream' \in Seq(Unit)
    BY <1>1, <2>3, Joined DEF SendRequest, TypeOK
  <2>5. reqs' \in Seq(Request) /\ answered' \in 0 .. Len(reqs)'
    BY <1>1, <2>1 DEF SendRequest, TypeOK
  <2>6. ctl' \in End
    <3>1. rq.len \in Nat
      BY Numbers DEF Request
    <3>2. rq.len \div 2 \in Nat
      BY <3>1
    <3> DEFINE blocks == rq.len \div 2
    <3>3. ctl' = IF ctl.secured THEN [ctl EXCEPT !.send = @ + blocks] ELSE ctl
      BY <1>1 DEF SendRequest
    <3> HIDE DEF blocks
    <3>4. blocks \in Nat
      BY <3>2 DEF blocks
    <3>5. ctl \in [secured : BOOLEAN, send : Nat, recv : Nat] /\ ctl.send + blocks \in Nat
      BY <3>4 DEF TypeOK, End
    <3> DEFINE sent == ctl.send + blocks
    <3>6. sent \in Nat
      BY <3>5
    <3> HIDE DEF sent
    <3>7. [ctl EXCEPT !.send = sent] \in End
      BY <3>5, <3>6 DEF End
    <3> QED
      BY <3>3, <3>5, <3>7 DEF End, sent
  <2> QED
    BY <1>1, <2>4, <2>5, <2>6 DEF SendRequest, accessory, TypeOK
<1>2. CASE ReceiveFrame
  <2> DEFINE ends == Head(out).is = "response" /\ Head(out).last
             secured == ctl.secured \/ (ends /\ Verified)
             recv == IF ctl.secured THEN ctl.recv + 1 ELSE ctl.recv
  <2>1. out' \in Seq(Frame)
    BY <1>2, HeadTailProperties DEF ReceiveFrame, TypeOK
  <2>2. answered' \in 0 .. Len(reqs) /\ reqs' = reqs
    BY <1>2, LenProperties DEF ReceiveFrame, TypeOK
  <2>3. secured \in BOOLEAN /\ recv \in Nat
    BY DEF TypeOK, End
  <2>4. ctl' = [ctl EXCEPT !.recv = recv, !.secured = secured]
    BY <1>2 DEF ReceiveFrame
  <2>5. ctl' \in End
    <3> HIDE DEF secured, recv
    <3> QED
      BY <2>3, <2>4 DEF TypeOK, End
  <2> QED
    BY <1>2, <2>1, <2>2, <2>5 DEF ReceiveFrame, accessory, TypeOK
<1>3. CASE Reconnect
  BY <1>3, Numbers DEF Reconnect, Fresh, TypeOK, End
<1>4. CASE StartProcess
  BY <1>4, Numbers DEF StartProcess, controller, TypeOK
<1>5. CASE Recv
  BY <1>5, RecvIsRound, RoundKeepsType
<1>6. CASE RecvNothing
  BY <1>6 DEF RecvNothing, Close, controller, TypeOK
<1>7. CASE Poll
  <2> DEFINE fits == room > 0
  <2>1. out' = out \o Frames("event", 1, fits) /\ fits \in BOOLEAN
    BY <1>7 DEF Poll
  <2> HIDE DEF fits
  <2>2. out' \in Seq(Frame)
    BY <2>1, FramesAreFrames, Joined DEF TypeOK
  <2>3. ses' \in End
    BY <1>7, AfterSendIsEnd DEF Poll, TypeOK
  <2>4. room' \in 0 .. EventRoom \cup 0 .. WrapRoom
    BY <1>7, Numbers DEF Poll, TypeOK
  <2> QED
    BY <1>7, <2>2, <2>3, <2>4 DEF Poll, controller, TypeOK
<1>8. CASE UNCHANGED vars
  BY <1>8 DEF vars, TypeOK
<1> QED
  BY <1>1, <1>2, <1>3, <1>4, <1>5, <1>6, <1>7, <1>8 DEF Next, Accessory

(* The state has its types: what is received fits the buffer for it, and   *)
(* what is taken for a request fits the request buffer.                    *)
THEOREM TypeCorrect == Spec => []TypeOK
BY InitType, NextType, PTL DEF Spec
-----------------------------------------------------------------------------
(* Both ends agree, because the controller waits for an answer.            *)
(*                                                                         *)
(* The first unit of a request is on its way, or received, only while the  *)
(* request waits to be handled; on its way it is once.                     *)
AllEvents == \A i \in DOMAIN out : out[i].is = "event"
Awaited ==
  /\ answered + 1 = Len(reqs)
  /\ \A h \in DOMAIN handled : handled[h].req # Len(reqs)
  /\ AllEvents
FirstUnits ==
  /\ \A r \in Firsts(stream) \cup Firsts(tmp) \cup Firsts(got) : r = Len(reqs) /\ Awaited
  /\ \A i, j \in DOMAIN stream : IsFirst(stream[i]) /\ IsFirst(stream[j]) => i = j
  /\ Firsts(tmp) \cup Firsts(got) # {} => Firsts(stream) = {}

(* One answer at most is on its way, to the last request.                  *)
Ends(frame) == frame.is = "response" /\ frame.last
AnswerAt(j) ==
  /\ Ends(out[j])
  /\ \A i \in DOMAIN out : i < j => ~Ends(out[i])
  /\ \A i \in DOMAIN out : i > j => out[i].is = "event"
Answers ==
  /\ answered = Len(reqs) \/ answered + 1 = Len(reqs)
  /\ \A h \in DOMAIN handled : handled[h].req \in 1 .. Len(reqs)
  /\ \/ AllEvents
     \/ answered + 1 = Len(reqs) /\ \E j \in DOMAIN out : AnswerAt(j)

(* The messages up to the j-th are plain, those behind it have the numbers *)
(* the controller expects.                                                 *)
Numbered(j) ==
  /\ \A i \in DOMAIN out : i <= j => ~out[i].secured
  /\ \A i \in DOMAIN out : i > j => out[i].secured /\ out[i].nonce = ctl.recv + i - j - 1
  /\ ses.send = ctl.recv + Len(out) - j

(* Neither end encrypts; both do; or the controller will, when it receives *)
(* the answer that is on its way.                                          *)
BothPlain ==
  /\ ~ses.secured /\ ~ctl.secured /\ ~Verified
  /\ ses.send = ctl.recv
  /\ \A i \in DOMAIN out : ~out[i].secured
BothSecured == ses.secured /\ ctl.secured /\ Numbered(0)
AnswerSecures ==
  /\ ses.secured /\ ~ctl.secured /\ Verified
  /\ \E j \in DOMAIN out : AnswerAt(j) /\ Numbered(j)
Changeover == BothPlain \/ BothSecured \/ AnswerSecures

ChannelInv ==
  /\ TypeOK
  /\ pc # "closed" => cause = "none"
  /\ cause # "parse" => FirstUnits /\ Answers /\ Changeover

(* What of the state they are about, in terms of lengths.                  *)
LEMMA Lengths ==
  ASSUME TypeOK
  PROVE  /\ Len(reqs) \in Nat /\ Len(out) \in Nat /\ Len(stream) \in Nat /\ Len(handled) \in Nat
         /\ DOMAIN out = 1 .. Len(out) /\ DOMAIN stream = 1 .. Len(stream)
         /\ DOMAIN handled = 1 .. Len(handled) /\ DOMAIN reqs = 1 .. Len(reqs)
         /\ answered \in Nat /\ ses.send \in Nat /\ ctl.recv \in Nat
         /\ ses.secured \in BOOLEAN /\ ctl.secured \in BOOLEAN
         /\ \A i \in 1 .. Len(out) : out[i] \in Frame /\ out[i].secured \in BOOLEAN
         /\ \A h \in 1 .. Len(handled) : handled[h] \in [req : 1 .. MaxRequests, whole : BOOLEAN]
<1>1. /\ Len(reqs) \in Nat /\ Len(out) \in Nat /\ Len(stream) \in Nat /\ Len(handled) \in Nat
      /\ DOMAIN out = 1 .. Len(out) /\ DOMAIN stream = 1 .. Len(stream)
      /\ DOMAIN handled = 1 .. Len(handled) /\ DOMAIN reqs = 1 .. Len(reqs)
  BY LenProperties DEF TypeOK
<1>2. /\ \A i \in 1 .. Len(out) : out[i] \in Frame
      /\ \A h \in 1 .. Len(handled) : handled[h] \in [req : 1 .. MaxRequests, whole : BOOLEAN]
  BY ElementOfSeq DEF TypeOK
<1>3. \A i \in 1 .. Len(out) : out[i].secured \in BOOLEAN
  BY <1>2 DEF Frame
<1>4. /\ answered \in Nat /\ ses.send \in Nat /\ ctl.recv \in Nat
      /\ ses.secured \in BOOLEAN /\ ctl.secured \in BOOLEAN
  BY <1>1 DEF TypeOK, End
<1> QED
  BY <1>1, <1>2, <1>3, <1>4

LEMMA InvImpliesInStep == ChannelInv => InStep
<1> SUFFICES ASSUME ChannelInv, out # <<>>, cause # "parse" PROVE Decodes(Head(out))
  BY DEF InStep
<1>1. TypeOK /\ Answers /\ Changeover
  BY DEF ChannelInv
<1>2. Len(out) \in Nat /\ Len(out) > 0 /\ DOMAIN out = 1 .. Len(out) /\ Head(out) = out[1]
  BY <1>1, Lengths, EmptySeq DEF TypeOK
<1>3. 1 \in DOMAIN out
  BY <1>2
<1>4. ctl.recv \in Nat /\ ses.send \in Nat /\ ctl.secured \in BOOLEAN /\ out[1].secured \in BOOLEAN
  BY <1>1, <1>2, <1>3, Lengths
<1>5. CASE BothPlain
  <2>1. ~ctl.secured /\ ~out[1].secured
    BY <1>3, <1>5 DEF BothPlain
  <2> QED
    BY <1>2, <1>4, <2>1 DEF Decodes
<1>6. CASE BothSecured
  <2>1. ctl.secured /\ out[1].secured /\ out[1].nonce = ctl.recv + 1 - 0 - 1
    BY <1>2, <1>3, <1>6 DEF BothSecured, Numbered
  <2>2. out[1].nonce = ctl.recv
    BY <1>4, <2>1
  <2>3. out[1].secured = ctl.secured
    BY <1>4, <2>1
  <2> QED
    BY <1>2, <2>2, <2>3 DEF Decodes
<1>7. CASE AnswerSecures
  <2>1. PICK j \in DOMAIN out : Numbered(j)
    BY <1>7 DEF AnswerSecures
  <2>2. 1 <= j
    BY <1>2, <2>1
  <2>3. ~ctl.secured /\ ~out[1].secured
    BY <1>2, <1>3, <1>7, <2>1, <2>2 DEF AnswerSecures, Numbered
  <2> QED
    BY <1>2, <1>4, <2>3 DEF Decodes
<1> QED
  BY <1>1, <1>5, <1>6, <1>7 DEF Changeover

LEMMA InitInv == Init => ChannelInv
<1> SUFFICES ASSUME Init PROVE ChannelInv
  OBVIOUS
<1>1. TypeOK
  BY InitType
<1>2. /\ reqs = <<>> /\ answered = 0 /\ ctl = Fresh /\ stream = <<>> /\ out = <<>>
      /\ pc = "idle" /\ cause = "none" /\ tmp = <<>> /\ got = <<>> /\ ses = Fresh
      /\ handled = <<>>
  BY DEF Init
<1>3. FirstUnits
  BY <1>2 DEF FirstUnits, Firsts, Elems
<1>4. Answers
  BY <1>2 DEF Answers, AllEvents
<1>5. BothPlain
  BY <1>2 DEF BothPlain, Verified, Fresh
<1> QED
  BY <1>1, <1>2, <1>3, <1>4, <1>5 DEF ChannelInv, Changeover
-----------------------------------------------------------------------------
(* A request: none waits, so nothing of an earlier one is looked for.      *)
LEMMA SendKeeps ==
  ASSUME ChannelInv, TypeOK', NEW rq \in Request, SendRequest(rq)
  PROVE  ChannelInv'
<1> DEFINE r == Len(reqs) + 1
<1>1. TypeOK /\ cause = "none" /\ FirstUnits /\ Answers /\ Changeover
  BY DEF ChannelInv, SendRequest
<1>2. /\ answered = Len(reqs) /\ reqs' = Append(reqs, rq)
      /\ stream' = stream \o Units(r, rq)
      /\ ctl' = IF ctl.secured THEN [ctl EXCEPT !.send = @ + rq.len \div 2] ELSE ctl
      /\ UNCHANGED <<answered, out, pc, cause, tmp, got, ses, room, handled>>
  BY DEF SendRequest, accessory
<1>3. Len(reqs') = r /\ r \in 1 .. MaxRequests /\ Len(reqs) \in Nat
  BY <1>1, <1>2, Lengths, Numbers DEF SendRequest, TypeOK
<1>4. ~Awaited
  BY <1>2, <1>3 DEF Awaited
<1>5. Firsts(stream) = {} /\ Firsts(tmp) = {} /\ Firsts(got) = {}
  BY <1>1, <1>4 DEF FirstUnits
<1>6. AllEvents
  BY <1>1, <1>2, <1>3 DEF Answers
<1>7. \A h \in DOMAIN handled : handled[h].req \in 1 .. Len(reqs)
  BY <1>1 DEF Answers
<1>8. Awaited'
  BY <1>2, <1>3, <1>6, <1>7 DEF Awaited, AllEvents
<1>9. \A i \in DOMAIN stream' : IsFirst(stream'[i]) => i = Len(stream) + 1 /\ stream'[i].req = r
  <2> DEFINE u == Units(r, rq)
  <2>1. /\ u \in Seq(Unit) /\ stream \in Seq(Unit)
        /\ \A k \in DOMAIN u : u[k].pos = k /\ u[k].req = r
    BY <1>1, <1>3, UnitsAreUnits DEF TypeOK
  <2> HIDE DEF u
  <2>2. /\ DOMAIN (stream \o u) = 1 .. Len(stream) + Len(u)
        /\ DOMAIN u = 1 .. Len(u) /\ DOMAIN stream = 1 .. Len(stream)
        /\ Len(stream) \in Nat /\ Len(u) \in Nat
    BY <2>1, ConcatProperties, LenProperties
  <2> SUFFICES ASSUME NEW i \in 1 .. Len(stream) + Len(u), IsFirst((stream \o u)[i])
               PROVE  i = Len(stream) + 1 /\ (stream \o u)[i].req = r
    BY <1>2, <2>2 DEF u
  <2>3. CASE i <= Len(stream)
    <3>1. (stream \o u)[i] = stream[i] /\ i \in DOMAIN stream
      BY <2>1, <2>2, <2>3, ConcatProperties
    <3> QED
      BY <1>5, <3>1 DEF Firsts, Elems
  <2>4. CASE i > Len(stream)
    <3>1. (stream \o u)[i] = u[i - Len(stream)] /\ i - Len(stream) \in DOMAIN u
      BY <2>1, <2>2, <2>4, ConcatProperties
    <3>2. i - Len(stream) = 1
      BY <2>1, <2>2, <3>1 DEF IsFirst, Stale
    <3> QED
      BY <2>1, <2>2, <3>1, <3>2
  <2> QED
    BY <2>2, <2>3, <2>4
<1>10. FirstUnits'
  <2>1. Firsts(tmp)' = {} /\ Firsts(got)' = {}
    BY <1>2, <1>5
  <2>2. \A x \in Firsts(stream)' : x = Len(reqs)'
    BY <1>3, <1>9 DEF Firsts, Elems
  <2>3. \A i, j \in DOMAIN stream' : IsFirst(stream'[i]) /\ IsFirst(stream'[j]) => i = j
    BY <1>9
  <2> QED
    BY <1>8, <2>1, <2>2, <2>3 DEF FirstUnits
<1>11. Answers'
  <2>1. AllEvents'
    BY <1>2, <1>6 DEF AllEvents
  <2>2. \A h \in DOMAIN handled' : handled'[h].req \in 1 .. Len(reqs')
    BY <1>2, <1>3, <1>7
  <2>3. answered' + 1 = Len(reqs')
    BY <1>2, <1>3
  <2> QED
    BY <2>1, <2>2, <2>3 DEF Answers
<1>12. ctl'.secured = ctl.secured /\ ctl'.recv = ctl.recv
  BY <1>1, <1>2 DEF TypeOK, End
<1>13. Changeover'
  <2>1. CASE BothPlain
    <3>1. ~Verified'
      <4> SUFFICES ASSUME NEW h \in 1 .. Len(handled)' PROVE handled'[h].req # Len(reqs')
        BY DEF Verified
      <4> QED
        BY <1>1, <1>2, <1>3, <1>7, Lengths
    <3>2. BothPlain'
      BY <1>2, <1>12, <2>1, <3>1 DEF BothPlain
    <3> QED
      BY <3>2 DEF Changeover
  <2>2. CASE BothSecured
    <3>1. BothSecured'
      BY <1>2, <1>12, <2>2 DEF BothSecured, Numbered
    <3> QED
      BY <3>1 DEF Changeover
  <2>3. ~AnswerSecures
    BY <1>6 DEF AnswerSecures, AnswerAt, Ends, AllEvents
  <2> QED
    BY <1>1, <2>1, <2>2, <2>3 DEF Changeover
<1> QED
  BY <1>1, <1>2, <1>10, <1>11, <1>13 DEF ChannelInv

(* A message arrives.  Of the answers its last frame ends the wait.        *)
LEMMA ReceiveKeeps ==
  ASSUME ChannelInv, TypeOK', ReceiveFrame, cause # "parse"
  PROVE  ChannelInv'
<1> DEFINE ends == Ends(Head(out))
<1>1. TypeOK /\ (pc # "closed" => cause = "none") /\ FirstUnits /\ Answers /\ Changeover
  BY DEF ChannelInv
<1>2. /\ out # <<>> /\ out' = Tail(out)
      /\ answered' = IF ends THEN Len(reqs) ELSE answered
      /\ ctl' = [ctl EXCEPT !.recv = IF ctl.secured THEN @ + 1 ELSE @,
                            !.secured = @ \/ (ends /\ Verified)]
      /\ UNCHANGED <<reqs, stream, pc, cause, tmp, got, ses, room, handled>>
  BY DEF ReceiveFrame, accessory, Ends
<1>3. /\ Len(out) \in Nat /\ Len(out) > 0
      /\ DOMAIN out = 1 .. Len(out) /\ Head(out) = out[1]
      /\ DOMAIN out' = 1 .. Len(out) - 1 /\ Len(out') = Len(out) - 1
      /\ \A i \in 1 .. Len(out) - 1 : out'[i] = out[i + 1] /\ i + 1 \in 1 .. Len(out)
  <2>1. out \in Seq(Frame) /\ Len(out) \in Nat \ {0}
    BY <1>1, <1>2, EmptySeq DEF TypeOK
  <2>2. Tail(out) \in Seq(Frame) /\ Len(Tail(out)) = Len(out) - 1
    BY <1>2, <2>1, HeadTailProperties
  <2>3. \A i \in 1 .. Len(Tail(out)) : Tail(out)[i] = out[i + 1]
    BY <1>2, <2>1, HeadTailProperties
  <2> QED
    BY <1>2, <2>1, <2>2, <2>3, LenProperties
<1>4. 1 \in DOMAIN out
  BY <1>3
<1>5. /\ ctl.recv \in Nat /\ ses.send \in Nat /\ ctl.secured \in BOOLEAN
      /\ answered \in Nat /\ Len(reqs) \in Nat
  BY <1>1, Lengths
<1>6. /\ ctl'.recv = IF ctl.secured THEN ctl.recv + 1 ELSE ctl.recv
      /\ ctl'.secured <=> ctl.secured \/ (ends /\ Verified)
  <2> DEFINE secured == ctl.secured \/ (ends /\ Verified)
             recv == IF ctl.secured THEN ctl.recv + 1 ELSE ctl.recv
  <2>1. ctl' = [ctl EXCEPT !.recv = recv, !.secured = secured] /\ secured \in BOOLEAN
    BY <1>2
  <2> HIDE DEF secured, recv
  <2>2. ctl'.recv = recv /\ ctl'.secured = secured
    BY <1>1, <2>1 DEF TypeOK, End
  <2> QED
    BY <2>2 DEF secured, recv
<1>7. AllEvents => AllEvents'
  BY <1>3 DEF AllEvents
<1>8. AllEvents => ~ends
  BY <1>3, <1>4 DEF AllEvents, Ends
<1>9. FirstUnits'
  <2>1. Awaited => Awaited'
    BY <1>2, <1>7, <1>8 DEF Awaited
  <2>2. /\ Firsts(stream)' = Firsts(stream) /\ Firsts(tmp)' = Firsts(tmp)
        /\ Firsts(got)' = Firsts(got) /\ stream' = stream /\ Len(reqs)' = Len(reqs)
    BY <1>2
  <2> QED
    BY <1>1, <2>1, <2>2 DEF FirstUnits
<1>10. ASSUME NEW j \in DOMAIN out, AnswerAt(j)
       PROVE  /\ ends => j = 1 /\ AllEvents'
              /\ ~ends => j - 1 \in DOMAIN out' /\ AnswerAt(j - 1)'
  <2>1. CASE ends
    <3>1. ~(1 < j)
      BY <1>3, <1>4, <1>10, <2>1 DEF AnswerAt
    <3>2. j = 1
      BY <1>3, <1>10, <3>1
    <3>3. \A i \in DOMAIN out : i > 1 => out[i].is = "event"
      BY <1>10, <3>2 DEF AnswerAt
    <3> QED
      BY <1>3, <2>1, <3>2, <3>3 DEF AllEvents
  <2>2. CASE ~ends
    <3>1. j # 1
      BY <1>3, <1>10, <2>2 DEF AnswerAt
    <3>2. j - 1 \in DOMAIN out' /\ out'[j - 1] = out[j]
      BY <1>3, <1>10, <3>1
    <3>3. \A i \in DOMAIN out' : /\ i < j - 1 => ~Ends(out'[i])
                                 /\ i > j - 1 => out'[i].is = "event"
      BY <1>3, <1>10 DEF AnswerAt
    <3> QED
      BY <1>10, <2>2, <3>2, <3>3 DEF AnswerAt, Ends
  <2> QED
    BY <2>1, <2>2
<1>11. Answers'
  <2>1. \A h \in DOMAIN handled' : handled'[h].req \in 1 .. Len(reqs')
    BY <1>1, <1>2 DEF Answers
  <2>2. answered' = Len(reqs') \/ answered' + 1 = Len(reqs')
    BY <1>1, <1>2 DEF Answers
  <2>3. AllEvents' \/ (answered' + 1 = Len(reqs') /\ \E j \in DOMAIN out' : AnswerAt(j)')
    <3>1. CASE AllEvents
      BY <1>7, <3>1
    <3>2. CASE answered + 1 = Len(reqs) /\ \E j \in DOMAIN out : AnswerAt(j)
      <4>1. PICK j \in DOMAIN out : AnswerAt(j)
        BY <3>2
      <4>2. CASE ends
        BY <1>10, <4>1, <4>2
      <4>3. CASE ~ends
        BY <1>2, <1>10, <3>2, <4>1, <4>3
      <4> QED
        BY <4>2, <4>3
    <3> QED
      BY <1>1, <3>1, <3>2 DEF Answers
  <2> QED
    BY <2>1, <2>2, <2>3 DEF Answers
<1>12. Changeover'
  <2>1. CASE BothPlain
    <3>1. /\ ~ctl'.secured /\ ctl'.recv = ctl.recv /\ ~Verified'
          /\ \A i \in DOMAIN out' : ~out'[i].secured
      BY <1>2, <1>3, <1>6, <2>1 DEF BothPlain, Verified
    <3> QED
      BY <1>2, <2>1, <3>1 DEF Changeover, BothPlain
  <2>2. CASE BothSecured
    <3>1. ctl'.secured /\ ctl'.recv = ctl.recv + 1
      BY <1>6, <2>2 DEF BothSecured
    <3>2. \A i \in DOMAIN out' : ~(i <= 0)
      BY <1>3
    <3>3. ASSUME NEW i \in DOMAIN out'
          PROVE  out'[i].secured /\ out'[i].nonce = ctl'.recv + i - 0 - 1
      <4>1. i \in 1 .. Len(out) - 1 /\ i + 1 \in 1 .. Len(out) /\ out'[i] = out[i + 1]
        BY <1>3, <3>3
      <4>2. out[i + 1].secured /\ out[i + 1].nonce = ctl.recv + (i + 1) - 0 - 1
        BY <1>3, <2>2, <4>1 DEF BothSecured, Numbered
      <4>3. ctl.recv + (i + 1) - 0 - 1 = ctl.recv + 1 + i - 0 - 1
        BY <1>5, <4>1
      <4> QED
        BY <3>1, <4>1, <4>2, <4>3
    <3>4. ses'.send = ctl'.recv + Len(out') - 0
      <4>1. ses.send = ctl.recv + Len(out) - 0
        BY <2>2 DEF BothSecured, Numbered
      <4> QED
        BY <1>2, <1>3, <1>5, <3>1, <4>1
    <3> QED
      BY <1>2, <2>2, <3>1, <3>2, <3>3, <3>4 DEF Changeover, BothSecured, Numbered
  <2>3. CASE AnswerSecures
    <3>1. ctl'.recv = ctl.recv /\ Verified' /\ (ctl'.secured <=> ends)
      BY <1>2, <1>6, <2>3 DEF AnswerSecures, Verified
    <3>2. PICK j \in DOMAIN out : AnswerAt(j) /\ Numbered(j)
      BY <2>3 DEF AnswerSecures
    <3>3. j \in 1 .. Len(out)
      BY <1>3, <3>2
    <3>4. Numbered(j - 1)'
      <4>1. ASSUME NEW i \in DOMAIN out', i <= j - 1 PROVE ~out'[i].secured
        <5>1. i + 1 \in DOMAIN out /\ out'[i] = out[i + 1] /\ i \in Nat
          BY <1>3, <4>1
        <5>2. i + 1 <= j
          BY <3>3, <4>1, <5>1
        <5> QED
          BY <3>2, <5>1, <5>2 DEF Numbered
      <4>2. ASSUME NEW i \in DOMAIN out', i > j - 1
            PROVE  out'[i].secured /\ out'[i].nonce = ctl'.recv + i - (j - 1) - 1
        <5>1. i \in 1 .. Len(out) - 1 /\ i + 1 \in 1 .. Len(out) /\ out'[i] = out[i + 1]
          BY <1>3, <4>2
        <5>2. out[i + 1].secured /\ out[i + 1].nonce = ctl.recv + (i + 1) - j - 1
          BY <1>3, <3>2, <3>3, <4>2, <5>1 DEF Numbered
        <5>3. ctl.recv + (i + 1) - j - 1 = ctl.recv + i - (j - 1) - 1
          BY <1>5, <3>3, <5>1
        <5> QED
          BY <3>1, <5>1, <5>2, <5>3
      <4>3. ses'.send = ctl'.recv + Len(out') - (j - 1)
        <5>1. ses.send = ctl.recv + Len(out) - j
          BY <3>2 DEF Numbered
        <5> QED
          BY <1>2, <1>3, <1>5, <3>1, <3>3, <5>1
      <4> QED
        BY <4>1, <4>2, <4>3 DEF Numbered
    <3>5. CASE ends
      <4>1. j = 1
        BY <1>10, <3>2, <3>5
      <4>2. Numbered(0)'
        <5>1. j - 1 = 0
          BY <4>1
        <5> QED
          BY <3>4, <5>1 DEF Numbered
      <4> QED
        BY <1>2, <2>3, <3>1, <3>5, <4>2 DEF Changeover, BothSecured, AnswerSecures
    <3>6. CASE ~ends
      <4>1. j - 1 \in DOMAIN out' /\ AnswerAt(j - 1)'
        BY <1>10, <3>2, <3>6
      <4> QED
        BY <1>2, <2>3, <3>1, <3>4, <3>6, <4>1 DEF Changeover, AnswerSecures
    <3> QED
      BY <3>5, <3>6
  <2> QED
    BY <1>1, <2>1, <2>2, <2>3 DEF Changeover
<1> QED
  BY <1>1, <1>2, <1>9, <1>11, <1>12 DEF ChannelInv
-----------------------------------------------------------------------------
(* The accessory.                                                          *)

(* What it had of the request, and what it receives.                       *)
AtHand(k) == Firsts(tmp) \cup Firsts(got) \cup Firsts(Received(k))

LEMMA StreamIsCut ==
  ASSUME TypeOK, FirstUnits, NEW k \in 1 .. Len(stream), Len(tmp) + k <= TmpRoom,
         stream' = SubSeq(stream, k + 1, Len(stream))
  PROVE  /\ Firsts(stream') \subseteq Firsts(stream)
         /\ \A i, j \in DOMAIN stream' : IsFirst(stream'[i]) /\ IsFirst(stream'[j]) => i = j
         /\ AtHand(k) # {} => Firsts(stream') = {}
         /\ \A r \in AtHand(k) : r = Len(reqs) /\ Awaited
<1> DEFINE piece == SubSeq(stream, 1, k)
<1>1. stream \in Seq(Unit) /\ Len(stream) \in Nat /\ DOMAIN stream = 1 .. Len(stream)
  BY LenProperties DEF TypeOK
<1>2. k \in 0 .. Len(stream)
  BY <1>1
<1>3. /\ DOMAIN piece = 1 .. k /\ DOMAIN stream' = 1 .. Len(stream) - k
      /\ \A i \in 1 .. k : piece[i] = stream[i] /\ i \in 1 .. Len(stream)
      /\ \A i \in 1 .. Len(stream) - k : stream'[i] = stream[i + k] /\ i + k \in 1 .. Len(stream)
  <2>1. /\ piece \in Seq(Unit) /\ stream' \in Seq(Unit)
        /\ Len(piece) = k /\ Len(stream') = Len(stream) - k
        /\ \A i \in 1 .. k : piece[i] = stream[i]
        /\ \A i \in 1 .. Len(stream) - k : stream'[i] = stream[i + k]
    BY <1>1, <1>2, Pieces
  <2>2. DOMAIN piece = 1 .. k /\ DOMAIN stream' = 1 .. Len(stream) - k
    BY <2>1, LenProperties
  <2>3. /\ \A i \in 1 .. k : i \in 1 .. Len(stream)
        /\ \A i \in 1 .. Len(stream) - k : i + k \in 1 .. Len(stream)
    BY <1>1, <1>2
  <2> QED
    BY <2>1, <2>2, <2>3
<1>4. Elems(Received(k)) \subseteq Elems(tmp) \cup Elems(piece)
  BY ReceivedUnits
<1> HIDE DEF piece
<1>5. Firsts(stream') \subseteq Firsts(stream) /\ Firsts(piece) \subseteq Firsts(stream)
  BY <1>1, <1>3 DEF Firsts, Elems
<1>6. \A i, j \in DOMAIN stream : IsFirst(stream[i]) /\ IsFirst(stream[j]) => i = j
  BY DEF FirstUnits
<1>7. ASSUME NEW i \in DOMAIN stream', NEW j \in DOMAIN stream',
             IsFirst(stream'[i]), IsFirst(stream'[j])
      PROVE  i = j
  <2>1. i + k = j + k
    BY <1>1, <1>3, <1>6, <1>7
  <2> QED
    BY <1>1, <1>2, <1>3, <1>7, <2>1
<1>8. Firsts(piece) # {} => Firsts(stream') = {}
  <2> SUFFICES ASSUME NEW u \in Firsts(piece), NEW v \in Firsts(stream') PROVE FALSE
    OBVIOUS
  <2>1. PICK i \in 1 .. k : IsFirst(stream[i]) /\ i \in DOMAIN stream
    BY <1>1, <1>3 DEF Firsts, Elems
  <2>2. PICK j \in 1 .. Len(stream) - k : IsFirst(stream[j + k]) /\ j + k \in DOMAIN stream
    BY <1>1, <1>3 DEF Firsts, Elems
  <2>3. i = j + k
    BY <1>6, <2>1, <2>2
  <2> QED
    BY <1>1, <1>2, <2>1, <2>2, <2>3
<1>9. AtHand(k) \subseteq Firsts(tmp) \cup Firsts(got) \cup Firsts(piece)
  BY <1>4 DEF AtHand, Firsts
<1>10. AtHand(k) # {} => Firsts(stream') = {}
  BY <1>5, <1>8, <1>9 DEF FirstUnits
<1>11. \A r \in AtHand(k) : r = Len(reqs) /\ Awaited
  BY <1>5, <1>9 DEF FirstUnits
<1> QED
  BY <1>5, <1>7, <1>10, <1>11

(* The loop goes on, or the connection is closed.                          *)
LEMMA ReadOnKeeps ==
  ASSUME TypeOK, FirstUnits, Answers, Changeover,
         NEW k \in 1 .. Len(stream), Len(tmp) + k <= TmpRoom,
         stream' = SubSeq(stream, k + 1, Len(stream)), UNCHANGED controller,
         UNCHANGED <<out, handled>>, ses' \in {ses, NextRecv},
         Firsts(tmp') \cup Firsts(got') \subseteq AtHand(k)
  PROVE  FirstUnits' /\ Answers' /\ Changeover'
<1>1. /\ Firsts(stream') \subseteq Firsts(stream)
      /\ \A i, j \in DOMAIN stream' : IsFirst(stream'[i]) /\ IsFirst(stream'[j]) => i = j
      /\ AtHand(k) # {} => Firsts(stream') = {}
      /\ \A r \in AtHand(k) : r = Len(reqs) /\ Awaited
  BY StreamIsCut
<1>2. reqs' = reqs /\ answered' = answered /\ ctl' = ctl /\ out' = out /\ handled' = handled
  BY DEF controller
<1>3. ses'.secured = ses.secured /\ ses'.send = ses.send
  BY NextRecvIsEnd DEF TypeOK
<1>4. Awaited' <=> Awaited
  BY <1>2 DEF Awaited, AllEvents
<1>5. FirstUnits'
  <2>1. \A r \in Firsts(stream') \cup Firsts(tmp') \cup Firsts(got') : r = Len(reqs) /\ Awaited
    BY <1>1 DEF FirstUnits
  <2>2. Firsts(tmp') \cup Firsts(got') # {} => Firsts(stream') = {}
    BY <1>1
  <2> QED
    BY <1>1, <1>2, <1>4, <2>1, <2>2 DEF FirstUnits
<1>6. Answers'
  BY <1>2 DEF Answers, AllEvents, AnswerAt
<1>7. Changeover'
  BY <1>2, <1>3 DEF Changeover, BothPlain, BothSecured, AnswerSecures, Verified, AnswerAt, Numbered
<1> QED
  BY <1>5, <1>6, <1>7

(* A request is handled: the one that waits, for the first time.  Its      *)
(* answer is the only one on its way, encrypted as both ends still are;    *)
(* and if it secures the session, the controller will see it do so.        *)
LEMMA ServeKeeps ==
  ASSUME TypeOK, FirstUnits, Answers, Changeover,
         NEW k \in 1 .. Len(stream), Len(tmp) + k <= TmpRoom,
         stream' = SubSeq(stream, k + 1, Len(stream)), UNCHANGED controller,
         NEW buf, NEW rest, NEW end \in {ses, NextRecv},
         Tries(k, buf, end, rest), Serves(buf, end), TypeOK'
  PROVE  FirstUnits' /\ Answers' /\ Changeover'
<1>1. PICK n \in 1 .. 2 : Handle(buf, end, n)
  BY DEF Serves
<1> DEFINE r == buf[1].req
           whole == buf[1].pos = 1 /\ Len(buf) = reqs[r].len
           secures == whole /\ reqs[r].kind = "verify"
           answer == Frames("response", n, TRUE)
<1>2. r \in AtHand(k)
  <2>1. buf \in Seq(Unit) /\ 1 \in DOMAIN buf
    BY LenProperties, Numbers DEF Tries
  <2>2. r \in Firsts(buf)
    BY <2>1 DEF Serves, Firsts, Elems
  <2> QED
    BY <2>2 DEF AtHand, Tries
<1>3. /\ \A i, j \in DOMAIN stream' : IsFirst(stream'[i]) /\ IsFirst(stream'[j]) => i = j
      /\ Firsts(stream') = {} /\ r = Len(reqs) /\ Awaited
  BY <1>2, StreamIsCut
<1>4. /\ reqs' = reqs /\ answered' = answered /\ ctl' = ctl
      /\ tmp' = <<>> /\ got' = <<>>
  BY DEF controller, Serves
<1>5. /\ out' = out \o answer
      /\ ses' = [AfterSend(end, n) EXCEPT !.secured = @ \/ secures]
      /\ handled' = Append(handled, [req |-> r, whole |-> whole])
  BY <1>1 DEF Handle
<1>6. /\ AllEvents /\ answered + 1 = Len(reqs)
      /\ \A h \in DOMAIN handled : handled[h].req # Len(reqs)
  BY <1>3 DEF Awaited
<1>7. /\ Len(reqs) \in Nat /\ Len(out) \in Nat /\ Len(handled) \in Nat
      /\ DOMAIN out = 1 .. Len(out) /\ DOMAIN handled = 1 .. Len(handled)
      /\ ses.send \in Nat /\ ctl.recv \in Nat /\ answered \in Nat
      /\ ses.secured \in BOOLEAN /\ ctl.secured \in BOOLEAN
  BY Lengths
<1>8. /\ answer \in Seq(Frame) /\ Len(answer) = n
      /\ \A i \in 1 .. n : /\ answer[i].is = "response" /\ answer[i].secured = ses.secured
                           /\ answer[i].last = (i = n)
                           /\ ses.secured => answer[i].nonce = ses.send + i - 1
  <2>1. ses \in End /\ "response" \in {"response", "event"} /\ TRUE \in BOOLEAN
    BY DEF TypeOK
  <2>2. answer \in Seq(Frame) /\ Len(answer) = n
    BY <2>1, FramesAreFrames
  <2>3. \A i \in 1 .. n : /\ answer[i].is = "response" /\ answer[i].secured = ses.secured
                          /\ answer[i].last = (i = n)
                          /\ ses.secured => answer[i].nonce = ses.send + i - 1
    BY DEF Frames
  <2> QED
    BY <2>2, <2>3
<1> HIDE DEF answer
<1>9. /\ Len(out') = Len(out) + n /\ DOMAIN out' = 1 .. Len(out) + n
      /\ \A i \in 1 .. Len(out) : out'[i] = out[i] /\ i \in DOMAIN out'
      /\ \A i \in 1 .. Len(out) + n : i > Len(out) => out'[i] = answer[i - Len(out)]
                                                     /\ i - Len(out) \in 1 .. n
  <2>5. out \in Seq(Frame) /\ answer \in Seq(Frame) /\ Len(answer) = n
    BY <1>8 DEF TypeOK
  <2>1. /\ out \in Seq(Frame) /\ out \o answer \in Seq(Frame) /\ Len(out \o answer) = Len(out) + n
        /\ \A i \in 1 .. Len(out) + Len(answer) :
             (out \o answer)[i] = IF i <= Len(out) THEN out[i] ELSE answer[i - Len(out)]
    BY <2>5, ConcatProperties
  <2>2. DOMAIN (out \o answer) = 1 .. Len(out) + n
    BY <2>1, LenProperties
  <2>3. ASSUME NEW i \in 1 .. Len(out) + n, i > Len(out)
        PROVE  (out \o answer)[i] = answer[i - Len(out)] /\ i - Len(out) \in 1 .. n
    BY <1>7, <1>8, <2>1, <2>3
  <2>4. ASSUME NEW i \in 1 .. Len(out)
        PROVE  (out \o answer)[i] = out[i] /\ i \in 1 .. Len(out) + n
    BY <1>7, <1>8, <2>1, <2>4
  <2> QED
    BY <1>5, <2>1, <2>2, <2>3, <2>4
<1>10. /\ ses'.secured <=> ses.secured \/ secures
       /\ ses'.send = IF ses.secured THEN ses.send + n ELSE ses.send
  <2>1. end \in End /\ end.secured = ses.secured /\ end.send = ses.send /\ n \in Nat
    BY NextRecvIsEnd DEF TypeOK
  <2>2. /\ AfterSend(end, n) \in End /\ AfterSend(end, n).secured = end.secured
        /\ AfterSend(end, n).send = IF ses.secured THEN end.send + n ELSE end.send
    BY <2>1, AfterSendIsEnd DEF TypeOK
  <2> DEFINE sent == AfterSend(end, n)
             secured == sent.secured \/ secures
  <2>3. ses' = [sent EXCEPT !.secured = secured]
    BY <1>5
  <2> HIDE DEF secured, sent, secures
  <2>4. ses'.secured = secured /\ ses'.send = sent.send
    BY <2>2, <2>3 DEF End, sent
  <2> QED
    BY <2>1, <2>2, <2>4 DEF secured, sent
<1>11. FirstUnits'
  <2>1. Firsts(tmp') = {} /\ Firsts(got') = {}
    BY <1>4 DEF Firsts, Elems
  <2> QED
    BY <1>3, <1>4, <2>1 DEF FirstUnits
<1>12. DOMAIN handled' = 1 .. Len(handled) + 1 /\ Len(handled') = Len(handled) + 1
       /\ handled'[Len(handled) + 1] = [req |-> r, whole |-> whole]
       /\ \A h \in 1 .. Len(handled) : handled'[h] = handled[h]
  BY <1>5, <1>7 DEF TypeOK
<1>20. PICK last \in Nat : last = Len(out) + n
  BY <1>7
<1>13. last \in DOMAIN out' /\ AnswerAt(last)'
  <2>1. last \in DOMAIN out'
    BY <1>7, <1>9, <1>20
  <2>2. Ends(out'[last])
    <3>1. out'[last] = answer[n]
      <4>1. last > Len(out) /\ last - Len(out) = n /\ last \in 1 .. Len(out) + n
        BY <1>7, <1>20
      <4> QED
        BY <1>9, <2>1, <4>1
    <3>2. answer[n].is = "response" /\ answer[n].last = (n = n)
      BY <1>8
    <3> QED
      BY <3>1, <3>2 DEF Ends
  <2>3. ASSUME NEW i \in DOMAIN out', i < last PROVE ~Ends(out'[i])
    <3>1. CASE i <= Len(out)
      <4>1. i \in DOMAIN out /\ out'[i] = out[i]
        BY <1>7, <1>9, <3>1
      <4> QED
        BY <1>6, <4>1 DEF AllEvents, Ends
    <3>2. CASE i > Len(out)
      <4>1. out'[i] = answer[i - Len(out)] /\ i - Len(out) \in 1 .. n /\ i - Len(out) # n
        BY <1>7, <1>9, <1>20, <2>3, <3>2
      <4> QED
        BY <1>8, <4>1 DEF Ends
    <3> QED
      BY <1>7, <1>9, <3>1, <3>2
  <2>4. \A i \in DOMAIN out' : ~(i > last)
    BY <1>7, <1>9, <1>20
  <2> QED
    BY <2>1, <2>2, <2>3, <2>4 DEF AnswerAt
<1>14. Answers'
  <2>1. \A h \in DOMAIN handled' : handled'[h].req \in 1 .. Len(reqs')
    <3> SUFFICES ASSUME NEW h \in 1 .. Len(handled) + 1 PROVE handled'[h].req \in 1 .. Len(reqs)
      BY <1>4, <1>12
    <3>1. CASE h <= Len(handled)
      BY <1>7, <1>12, <3>1 DEF Answers
    <3>2. CASE h = Len(handled) + 1
      BY <1>3, <1>6, <1>7, <1>12, <3>2
    <3> QED
      BY <1>7, <3>1, <3>2
  <2> QED
    BY <1>4, <1>6, <1>13, <2>1 DEF Answers
<1>15. Changeover'
  <2>1. ~AnswerSecures
    BY <1>6 DEF AnswerSecures, AnswerAt, Ends, AllEvents
  <2>2. CASE BothPlain
    <3>1. \A i \in DOMAIN out' : ~out'[i].secured
      <4> SUFFICES ASSUME NEW i \in 1 .. Len(out) + n PROVE ~out'[i].secured
        BY <1>9
      <4>1. CASE i <= Len(out)
        <5>1. i \in DOMAIN out /\ out'[i] = out[i]
          BY <1>7, <1>9, <4>1
        <5> QED
          BY <2>2, <5>1 DEF BothPlain
      <4>2. CASE i > Len(out)
        <5>1. out'[i].secured = ses.secured
          BY <1>8, <1>9, <4>2
        <5> QED
          BY <2>2, <5>1 DEF BothPlain
      <4> QED
        BY <1>7, <4>1, <4>2
    <3>2. ses'.send = ctl'.recv /\ ~ctl'.secured /\ (ses'.secured <=> secures)
      BY <1>4, <1>10, <2>2 DEF BothPlain
    <3>3. CASE secures
      <4>1. Verified'
        <5>1. Len(handled) + 1 \in 1 .. Len(handled') /\ reqs'[Len(reqs')].kind = "verify"
          BY <1>3, <1>4, <1>7, <1>12, <3>3
        <5>2. handled'[Len(handled) + 1] = [req |-> Len(reqs'), whole |-> TRUE]
          BY <1>3, <1>4, <1>12, <3>3
        <5> QED
          BY <5>1, <5>2 DEF Verified
      <4>2. Numbered(last)'
        <5>1. ses'.send = ctl'.recv + Len(out') - last
          BY <1>4, <1>7, <1>9, <1>20, <3>2
        <5>2. \A i \in DOMAIN out' : ~(i > last)
          BY <1>7, <1>9, <1>20
        <5> QED
          BY <3>1, <5>1, <5>2 DEF Numbered
      <4> QED
        BY <1>13, <3>2, <3>3, <4>1, <4>2 DEF Changeover, AnswerSecures
    <3>4. CASE ~secures
      <4>1. ~Verified'
        <5> SUFFICES ASSUME NEW h \in 1 .. Len(handled) + 1,
                            handled'[h] = [req |-> Len(reqs), whole |-> TRUE],
                            reqs[Len(reqs)].kind = "verify"
                     PROVE  FALSE
          BY <1>4, <1>12 DEF Verified
        <5>1. handled'[h].req = Len(reqs) /\ handled'[h].whole = TRUE
          OBVIOUS
        <5>2. h # Len(handled) + 1
          <6>1. handled'[Len(handled) + 1].whole = whole
            BY <1>12
          <6>2. ~(whole = TRUE)
            BY <1>3, <3>4
          <6> QED
            BY <5>1, <6>1, <6>2
        <5>3. h \in DOMAIN handled /\ h \in 1 .. Len(handled)
          BY <1>7, <5>2
        <5>4. handled'[h] = handled[h]
          BY <1>12, <5>3
        <5> QED
          BY <1>6, <5>1, <5>3, <5>4
      <4> QED
        BY <3>1, <3>2, <3>4, <4>1 DEF Changeover, BothPlain
    <3> QED
      BY <3>3, <3>4
  <2>3. CASE BothSecured
    <3>1. ses.send = ctl.recv + Len(out) - 0 /\ ses.secured /\ ctl.secured
      BY <2>3 DEF BothSecured, Numbered
    <3>2. ASSUME NEW i \in 1 .. Len(out) + n
          PROVE  out'[i].secured /\ out'[i].nonce = ctl.recv + i - 0 - 1
      <4>1. CASE i <= Len(out)
        <5>1. i \in DOMAIN out /\ i > 0 /\ out'[i] = out[i]
          BY <1>7, <1>9, <4>1
        <5> QED
          BY <2>3, <5>1 DEF BothSecured, Numbered
      <4>2. CASE i > Len(out)
        <5>1. /\ out'[i].secured = ses.secured
              /\ out'[i].nonce = ses.send + (i - Len(out)) - 1
          BY <1>8, <1>9, <3>1, <4>2
        <5>2. ses.send + (i - Len(out)) - 1 = ctl.recv + i - 0 - 1
          BY <1>7, <3>1
        <5> QED
          BY <3>1, <5>1, <5>2
      <4> QED
        BY <1>7, <4>1, <4>2
    <3>3. ses'.send = ctl'.recv + Len(out') - 0 /\ ses'.secured /\ ctl'.secured
      BY <1>4, <1>7, <1>9, <1>10, <3>1
    <3>4. \A i \in DOMAIN out' : ~(i <= 0)
      BY <1>9
    <3> QED
      BY <1>4, <1>9, <3>2, <3>3, <3>4 DEF Changeover, BothSecured, Numbered
  <2> QED
    BY <2>1, <2>2, <2>3 DEF Changeover
<1> QED
  BY <1>11, <1>14, <1>15

LEMMA RecvKeeps ==
  ASSUME ChannelInv, TypeOK', Recv
  PROVE  ChannelInv'
<1>1. PICK k \in 1 .. Len(stream) :
        /\ Len(tmp) + k <= TmpRoom
        /\ stream' = SubSeq(stream, k + 1, Len(stream))
        /\ Round(k)
  BY RecvIsRound DEF ChannelInv
<1>2. pc = "recv" /\ UNCHANGED controller
  BY RecvIsRound DEF ChannelInv
<1>3. TypeOK /\ cause = "none" /\ FirstUnits /\ Answers /\ Changeover
  BY <1>2 DEF ChannelInv
<1>4. PICK end \in {ses, NextRecv} :
        Waits(k) \/ Gives(end) \/ \E buf, rest : Tries(k, buf, end, rest)
  BY <1>1 DEF Round
<1>5. CASE Waits(k)
  <2>1. /\ tmp' = Received(k) /\ got' = got /\ ses' = ses
        /\ UNCHANGED <<out, handled, pc, cause>>
    BY <1>5 DEF Waits, Wait
  <2>2. Firsts(tmp') \cup Firsts(got') \subseteq AtHand(k)
    BY <2>1 DEF AtHand
  <2> QED
    BY <1>1, <1>2, <1>3, <2>1, <2>2, ReadOnKeeps DEF ChannelInv
<1>6. CASE Gives(end)
  <2>1. /\ tmp' = tmp /\ got' = got /\ ses' = end /\ pc' = "closed"
        /\ UNCHANGED <<out, handled>>
    BY <1>6 DEF Gives, Close
  <2>2. Firsts(tmp') \cup Firsts(got') \subseteq AtHand(k)
    BY <2>1 DEF AtHand
  <2>3. FirstUnits' /\ Answers' /\ Changeover'
    BY <1>1, <1>2, <1>3, <2>1, <2>2, ReadOnKeeps
  <2> QED
    BY <2>1, <2>3 DEF ChannelInv
<1>7. CASE \E buf, rest : Tries(k, buf, end, rest)
  <2>1. PICK buf, rest : Tries(k, buf, end, rest)
    BY <1>7
  <2>2. Keeps(buf, end, rest) \/ Refuses(end) \/ Serves(buf, end)
    BY <2>1, ParseCases DEF Tries
  <2>3. CASE Keeps(buf, end, rest)
    <3>1. /\ tmp' = rest /\ got' = buf /\ ses' = end
          /\ UNCHANGED <<out, handled, pc, cause>>
      BY <2>3 DEF Keeps
    <3>2. Firsts(tmp') \cup Firsts(got') \subseteq AtHand(k)
      BY <2>1, <3>1 DEF AtHand, Tries, Firsts
    <3> QED
      BY <1>1, <1>2, <1>3, <3>1, <3>2, ReadOnKeeps DEF ChannelInv
  <2>4. CASE Refuses(end)
    <3>1. pc' = "closed" /\ cause' = "parse"
      BY <2>4 DEF Refuses, Close
    <3> QED
      BY <3>1 DEF ChannelInv
  <2>5. CASE Serves(buf, end)
    <3>1. FirstUnits' /\ Answers' /\ Changeover'
      BY <1>1, <1>2, <1>3, <2>1, <2>5, ServeKeeps
    <3>2. cause' = cause
      BY <2>5 DEF Serves
    <3> QED
      BY <1>3, <3>1, <3>2 DEF ChannelInv
  <2> QED
    BY <2>2, <2>3, <2>4, <2>5
<1> QED
  BY <1>4, <1>5, <1>6, <1>7

(* An event has the next number, behind all that is on its way.            *)
LEMMA PollKeeps ==
  ASSUME ChannelInv, TypeOK', Poll
  PROVE  ChannelInv'
<1> DEFINE fits == room > 0
           event == Frames("event", 1, fits)
<1>1. TypeOK /\ cause = "none" /\ FirstUnits /\ Answers /\ Changeover /\ ses.secured
  BY DEF ChannelInv, Poll
<1>2. /\ out' = out \o event /\ ses' = AfterSend(ses, 1)
      /\ UNCHANGED <<reqs, answered, ctl, stream, pc, cause, tmp, got, handled>>
  BY DEF Poll, controller
<1>3. /\ event \in Seq(Frame) /\ Len(event) = 1
      /\ event[1].is = "event" /\ event[1].secured /\ event[1].nonce = ses.send
  <2>1. fits \in BOOLEAN /\ ses \in End /\ ses.send \in Nat
    BY <1>1, Lengths DEF TypeOK
  <2>2. event[1] = [is |-> "event", secured |-> ses.secured,
                    nonce |-> IF ses.secured THEN ses.send + 1 - 1 ELSE Plain,
                    last |-> 1 = 1, whole |-> fits]
    BY DEF Frames
  <2>3. ses.send + 1 - 1 = ses.send
    BY <2>1
  <2> HIDE DEF fits
  <2>4. event \in Seq(Frame) /\ Len(event) = 1
    BY <2>1, FramesAreFrames
  <2> QED
    BY <1>1, <2>2, <2>3, <2>4
<1> HIDE DEF event
<1>4. /\ Len(out) \in Nat /\ DOMAIN out = 1 .. Len(out)
      /\ ctl.recv \in Nat /\ ses.send \in Nat
  BY <1>1, Lengths
<1>5. /\ Len(out') = Len(out) + 1 /\ DOMAIN out' = 1 .. Len(out) + 1
      /\ out'[Len(out) + 1] = event[1]
      /\ \A i \in DOMAIN out : out'[i] = out[i] /\ i \in DOMAIN out'
  <2>1. out \in Seq(Frame) /\ event \in Seq(Frame) /\ Len(event) = 1
    BY <1>1, <1>3 DEF TypeOK
  <2>2. /\ out \o event \in Seq(Frame) /\ Len(out \o event) = Len(out) + 1
        /\ \A i \in 1 .. Len(out) + Len(event) :
             (out \o event)[i] = IF i <= Len(out) THEN out[i] ELSE event[i - Len(out)]
    BY <2>1, ConcatProperties
  <2>3. DOMAIN (out \o event) = 1 .. Len(out) + 1
    BY <2>2, LenProperties
  <2>4. Len(out) + 1 \in 1 .. Len(out) + Len(event) /\ (Len(out) + 1) - Len(out) = 1
    BY <1>4, <2>1
  <2> QED
    BY <1>2, <1>4, <2>1, <2>2, <2>3, <2>4
<1>6. ses'.secured /\ ses'.send = ses.send + 1
  <2>1. ses \in End /\ 1 \in Nat
    BY <1>1 DEF TypeOK
  <2> QED
    BY <1>1, <1>2, <2>1, AfterSendIsEnd
<1>7. \A i \in DOMAIN out' : i \in DOMAIN out \/ i = Len(out) + 1
  BY <1>4, <1>5
<1>8. AllEvents => AllEvents'
  BY <1>3, <1>5, <1>7 DEF AllEvents
<1>9. FirstUnits'
  <2>1. Awaited => Awaited'
    BY <1>2, <1>8 DEF Awaited
  <2> QED
    BY <1>1, <1>2, <2>1 DEF FirstUnits
<1>10. ASSUME NEW j \in DOMAIN out, AnswerAt(j) PROVE j \in DOMAIN out' /\ AnswerAt(j)'
  <2>1. j \in DOMAIN out' /\ Ends(out'[j])
    BY <1>5, <1>10 DEF AnswerAt
  <2>2. ASSUME NEW i \in DOMAIN out'
        PROVE  (i < j => ~Ends(out'[i])) /\ (i > j => out'[i].is = "event")
    <3>1. CASE i \in DOMAIN out
      BY <1>5, <1>10, <3>1 DEF AnswerAt
    <3>2. CASE i = Len(out) + 1
      <4>1. ~(i < j)
        BY <1>4, <3>2
      <4> QED
        BY <1>3, <1>5, <3>2, <4>1
    <3> QED
      BY <1>7, <3>1, <3>2
  <2> QED
    BY <2>1, <2>2 DEF AnswerAt
<1>11. Answers'
  BY <1>1, <1>2, <1>8, <1>10 DEF Answers
<1>12. ASSUME NEW j \in 0 .. Len(out), Numbered(j) PROVE Numbered(j)'
  <2>1. ses.send = ctl.recv + Len(out) - j
    BY <1>12 DEF Numbered
  <2>2. ses'.send = ctl'.recv + Len(out') - j
    BY <1>2, <1>4, <1>5, <1>6, <2>1
  <2>3. ASSUME NEW i \in DOMAIN out'
        PROVE  /\ i <= j => ~out'[i].secured
               /\ i > j => out'[i].secured /\ out'[i].nonce = ctl'.recv + i - j - 1
    <3>1. CASE i \in DOMAIN out
      BY <1>2, <1>5, <1>12, <3>1 DEF Numbered
    <3>2. CASE i = Len(out) + 1
      <4>1. out'[i].secured /\ out'[i].nonce = ses.send
        BY <1>3, <1>5, <3>2
      <4>2. ses.send = ctl.recv + i - j - 1 /\ ~(i <= j)
        BY <1>4, <2>1, <3>2
      <4> QED
        BY <1>2, <4>1, <4>2
    <3> QED
      BY <1>7, <3>1, <3>2
  <2> QED
    BY <2>2, <2>3 DEF Numbered
<1>13. Changeover'
  <2>1. CASE BothSecured
    <3>1. 0 \in 0 .. Len(out)
      BY <1>4
    <3>2. Numbered(0)'
      BY <1>12, <2>1, <3>1 DEF BothSecured
    <3> QED
      BY <1>2, <1>6, <2>1, <3>2 DEF Changeover, BothSecured
  <2>2. CASE AnswerSecures
    <3>1. PICK j \in DOMAIN out : AnswerAt(j) /\ Numbered(j)
      BY <2>2 DEF AnswerSecures
    <3>2. j \in 0 .. Len(out)
      BY <1>4, <3>1
    <3>3. j \in DOMAIN out' /\ AnswerAt(j)' /\ Numbered(j)'
      BY <1>10, <1>12, <3>1, <3>2
    <3>4. Verified' /\ ~ctl'.secured
      BY <1>2, <2>2 DEF AnswerSecures, Verified
    <3> QED
      BY <1>6, <3>3, <3>4 DEF Changeover, AnswerSecures
  <2> QED
    BY <1>1, <2>1, <2>2 DEF Changeover, BothPlain
<1> QED
  BY <1>1, <1>2, <1>9, <1>11, <1>13 DEF ChannelInv

LEMMA NextInv == ChannelInv /\ [Next]_vars => ChannelInv'
<1> SUFFICES ASSUME ChannelInv, [Next]_vars PROVE ChannelInv'
  OBVIOUS
<1>1. TypeOK /\ TypeOK'
  BY NextType DEF ChannelInv
<1>2. ASSUME NEW rq \in Request, SendRequest(rq) PROVE ChannelInv'
  BY <1>1, <1>2, SendKeeps
<1>3. CASE ReceiveFrame
  <2>1. CASE cause = "parse"
    BY <1>1, <1>3, <2>1 DEF ReceiveFrame, accessory, ChannelInv
  <2>2. CASE cause # "parse"
    BY <1>1, <1>3, <2>2, ReceiveKeeps
  <2> QED
    BY <2>1, <2>2
<1>4. CASE Reconnect
  <2>1. /\ reqs' = <<>> /\ answered' = 0 /\ ctl' = Fresh /\ stream' = <<>> /\ out' = <<>>
        /\ cause' = "none" /\ tmp' = <<>> /\ got' = <<>> /\ ses' = Fresh /\ handled' = <<>>
    BY <1>4 DEF Reconnect
  <2>2. FirstUnits'
    BY <2>1 DEF FirstUnits, Firsts, Elems
  <2>3. Answers'
    BY <2>1 DEF Answers, AllEvents
  <2>4. BothPlain'
    BY <2>1 DEF BothPlain, Verified, Fresh
  <2> QED
    BY <1>1, <2>1, <2>2, <2>3, <2>4 DEF ChannelInv, Changeover
<1>5. CASE StartProcess
  <2>1. /\ UNCHANGED <<reqs, answered, ctl, stream, out, cause, ses, handled>>
        /\ tmp' = <<>> /\ got' = <<>> /\ cause = "none"
    BY <1>5 DEF StartProcess, controller, ChannelInv
  <2>2. FirstUnits'
    BY <2>1 DEF ChannelInv, FirstUnits, Firsts, Elems, Awaited, AllEvents
  <2>3. Answers'
    BY <2>1 DEF ChannelInv, Answers, AllEvents, AnswerAt
  <2>4. Changeover'
    BY <2>1 DEF ChannelInv, Changeover, BothPlain, BothSecured, AnswerSecures, Verified,
                AnswerAt, Numbered
  <2> QED
    BY <1>1, <2>1, <2>2, <2>3, <2>4 DEF ChannelInv
<1>6. CASE Recv
  BY <1>1, <1>6, RecvKeeps
<1>7. ASSUME UNCHANGED <<reqs, answered, ctl, stream, out, ses, tmp, got, handled>>,
             FirstUnits, Answers, Changeover
      PROVE  FirstUnits' /\ Answers' /\ Changeover'
  <2>1. FirstUnits'
    BY <1>7 DEF FirstUnits, Awaited, AllEvents
  <2>2. Answers'
    BY <1>7 DEF Answers, AllEvents, AnswerAt
  <2>3. Changeover'
    BY <1>7 DEF Changeover, BothPlain, BothSecured, AnswerSecures, Verified, AnswerAt, Numbered
  <2> QED
    BY <2>1, <2>2, <2>3
<1>8. CASE RecvNothing
  <2>1. /\ UNCHANGED <<reqs, answered, ctl, stream, out, ses, tmp, got, handled>>
        /\ cause = "none" /\ pc' = "closed"
    BY <1>8 DEF RecvNothing, Close, controller, ChannelInv
  <2>2. FirstUnits /\ Answers /\ Changeover
    BY <2>1 DEF ChannelInv
  <2> QED
    BY <1>1, <1>7, <2>1, <2>2 DEF ChannelInv
<1>9. CASE Poll
  BY <1>1, <1>9, PollKeeps
<1>10. CASE UNCHANGED vars
  <2>1. /\ UNCHANGED <<reqs, answered, ctl, stream, out, ses, tmp, got, handled>>
        /\ UNCHANGED <<pc, cause>>
    BY <1>10 DEF vars
  <2> QED
    BY <1>1, <1>7, <2>1 DEF ChannelInv
<1> QED
  BY <1>2, <1>3, <1>4, <1>5, <1>6, <1>8, <1>9, <1>10 DEF Next, Accessory

(* Both ends agree about the next message, plain or encrypted, and its     *)
(* number: _send secures a session behind the answer, and the controller   *)
(* sends nothing that could be handled before it has that answer.          *)
THEOREM StaysInStep == Spec => []InStep
BY InitInv, NextInv, InvImpliesInStep, PTL DEF Spec
-----------------------------------------------------------------------------
(* Simple requests.                                                        *)
(*                                                                         *)
(* The last request waits to be handled, or none does and the numbers of   *)
(* both ends agree.  While it waits the accessory has, between the request *)
(* buffer, the buffer for receiving and the stream, each of its units once *)
(* and in order, of a block less than both units in the buffer.            *)
WaitingUnit(i) ==
  [req |-> Len(reqs), pos |-> i, nonce |-> IF ses.secured THEN ses.recv ELSE Plain]
Waiting ==
  /\ reqs # <<>> /\ reqs[Len(reqs)].secured = ses.secured
  /\ Len(got) + Len(tmp) + Len(stream) = reqs[Len(reqs)].len
  /\ \A i \in DOMAIN got : got[i] = WaitingUnit(i)
  /\ \A i \in DOMAIN tmp : tmp[i] = WaitingUnit(Len(got) + i)
  /\ \A i \in DOMAIN stream : stream[i] = WaitingUnit(Len(got) + Len(tmp) + i)
  /\ ctl.send = IF ses.secured THEN ses.recv + 1 ELSE ses.recv
  /\ ses.secured => got = <<>> /\ Len(tmp) < 2
  /\ ~ses.secured => tmp = <<>> /\ Len(got) < reqs[Len(reqs)].len
NoneWaits ==
  got = <<>> /\ tmp = <<>> /\ stream = <<>> /\ ctl.send = ses.recv

Served ==
  /\ pc # "closed"
  /\ \A h \in DOMAIN handled : handled[h].whole
  /\ \A r \in DOMAIN reqs : reqs[r].head <= reqs[r].len
  /\ ~ses.secured => ses.recv = 0
  /\ ~ctl.secured => ctl.send = 0
  /\ pc = "idle" => got = <<>> /\ tmp = <<>>
  /\ NoneWaits \/ Waiting
SimpleInv == Simple => Served

LEMMA TextLengths ==
  ASSUME TypeOK
  PROVE  /\ got \in Seq(Unit) /\ tmp \in Seq(Unit) /\ stream \in Seq(Unit) /\ reqs \in Seq(Request)
         /\ Len(got) \in Nat /\ Len(tmp) \in Nat /\ Len(stream) \in Nat /\ Len(reqs) \in Nat
         /\ DOMAIN got = 1 .. Len(got) /\ DOMAIN tmp = 1 .. Len(tmp)
         /\ DOMAIN stream = 1 .. Len(stream) /\ DOMAIN reqs = 1 .. Len(reqs)
         /\ ses.recv \in Nat /\ ctl.send \in Nat
         /\ ses.secured \in BOOLEAN /\ ctl.secured \in BOOLEAN
         /\ \A r \in 1 .. Len(reqs) : reqs[r] \in Request /\ reqs[r].len \in Nat /\ reqs[r].len > 0
<1>1. \A r \in 1 .. Len(reqs) : reqs[r] \in Request
  BY ElementOfSeq DEF TypeOK
<1>2. \A rq \in Request : rq.len \in Nat /\ rq.len > 0
  BY Numbers DEF Request
<1> QED
  BY <1>1, <1>2, LenProperties DEF TypeOK, End

(* Of a request that waits, the first unit does: so it is awaited.         *)
LEMMA WaitingIsAwaited ==
  ASSUME TypeOK, FirstUnits, Waiting
  PROVE  Awaited
<1>1. reqs # <<>> /\ Len(reqs) \in 1 .. Len(reqs)
  BY TextLengths, EmptySeq DEF Waiting
<1>2. Len(got) + Len(tmp) + Len(stream) > 0
  BY <1>1, TextLengths DEF Waiting
<1>3. CASE Len(got) > 0
  <2>1. 1 \in DOMAIN got /\ got[1] = WaitingUnit(1)
    BY <1>3, TextLengths DEF Waiting
  <2>2. IsFirst(got[1])
    BY <2>1 DEF WaitingUnit, IsFirst
  <2> QED
    BY <2>1, <2>2 DEF FirstUnits, Firsts, Elems
<1>4. CASE Len(got) = 0 /\ Len(tmp) > 0
  <2>1. 1 \in DOMAIN tmp /\ IsFirst(tmp[1])
    BY <1>4, TextLengths DEF Waiting, WaitingUnit, IsFirst
  <2> QED
    BY <2>1 DEF FirstUnits, Firsts, Elems
<1>5. CASE Len(got) = 0 /\ Len(tmp) = 0 /\ Len(stream) > 0
  <2>1. 1 \in DOMAIN stream /\ IsFirst(stream[1])
    BY <1>5, TextLengths DEF Waiting, WaitingUnit, IsFirst
  <2> QED
    BY <2>1 DEF FirstUnits, Firsts, Elems
<1> QED
  BY <1>2, <1>3, <1>4, <1>5, TextLengths

LEMMA SendServed ==
  ASSUME ChannelInv, TypeOK', Simple', Served, NEW rq \in Request, SendRequest(rq)
  PROVE  Served'
<1> DEFINE r == Len(reqs) + 1
           u == Units(r, rq)
<1>1. TypeOK /\ FirstUnits /\ Answers /\ Changeover
  BY DEF ChannelInv, SendRequest
<1>2. /\ answered = Len(reqs) /\ reqs' = Append(reqs, rq)
      /\ rq.secured = ctl.secured /\ rq.head <= rq.len
      /\ stream' = stream \o u
      /\ ctl' = IF ctl.secured THEN [ctl EXCEPT !.send = @ + rq.len \div 2] ELSE ctl
      /\ UNCHANGED <<pc, tmp, got, ses, handled>>
  BY DEF SendRequest, accessory
<1>3. /\ Len(reqs') = r /\ DOMAIN reqs' = 1 .. r /\ reqs'[r] = rq
      /\ \A i \in 1 .. Len(reqs) : reqs'[i] = reqs[i]
      /\ r \in 1 .. MaxRequests /\ Len(reqs) \in Nat
  BY <1>1, <1>2, TextLengths, Numbers, AppendProperties, LenProperties DEF SendRequest
<1>4. NoneWaits
  <2>1. ~Awaited
    BY <1>2, <1>3 DEF Awaited
  <2> QED
    BY <1>1, <2>1, WaitingIsAwaited DEF Served
<1>5. ses.secured = ctl.secured
  <2>1. AllEvents
    BY <1>1, <1>2, <1>3 DEF Answers
  <2>2. ~AnswerSecures
    BY <2>1 DEF AnswerSecures, AnswerAt, Ends, AllEvents
  <2> QED
    BY <1>1, <2>2, TextLengths DEF Changeover, BothPlain, BothSecured
<1>6. rq.len \in Nat /\ rq.len > 0 /\ (rq.secured => rq.len = 2)
  BY <1>3, Numbers DEF Simple, Request
<1>7. /\ u \in Seq(Unit) /\ Len(u) = rq.len
      /\ \A i \in 1 .. rq.len :
           u[i] = [req |-> r, pos |-> i,
                   nonce |-> IF ctl.secured THEN ctl.send + (i - 1) \div 2 ELSE Plain]
  <2>1. u \in Seq(Unit)
    BY <1>1, <1>3, UnitsAreUnits DEF TypeOK
  <2>2. u = [i \in 1 .. rq.len |->
              [req |-> r, pos |-> i,
               nonce |-> IF ctl.secured THEN ctl.send + (i - 1) \div 2 ELSE Plain]]
    BY DEF Units
  <2>3. DOMAIN u = 1 .. rq.len
    BY <2>2
  <2>4. Len(u) \in Nat /\ DOMAIN u = 1 .. Len(u)
    BY <2>1, LenProperties
  <2>5. Len(u) = rq.len
    <3> HIDE DEF u
    <3> QED
      BY <1>6, <2>3, <2>4
  <2> QED
    BY <2>1, <2>2, <2>5
<1> HIDE DEF u
<1>8. stream' = u
  BY <1>2, <1>4, <1>7, ConcatEmptySeq DEF NoneWaits
<1>9. /\ ctl'.secured = ctl.secured
      /\ ctl'.send = IF ctl.secured THEN ctl.send + rq.len \div 2 ELSE ctl.send
  BY <1>1, <1>2 DEF TypeOK, End
<1>10. ASSUME NEW i \in 1 .. rq.len PROVE u[i] = WaitingUnit(i)'
  <2>1. WaitingUnit(i)' = [req |-> r, pos |-> i,
                           nonce |-> IF ses.secured THEN ses.recv ELSE Plain]
    BY <1>2, <1>3 DEF WaitingUnit
  <2>2. CASE ctl.secured
    <3>1. i = 1 \/ i = 2
      BY <1>2, <1>6, <2>2
    <3>2. ctl.send + (i - 1) \div 2 = ses.recv
      BY <1>1, <1>4, <3>1, TextLengths DEF NoneWaits
    <3> QED
      BY <1>5, <1>7, <2>1, <2>2, <3>2
  <2>3. CASE ~ctl.secured
    BY <1>5, <1>7, <2>1, <2>3
  <2> QED
    BY <2>2, <2>3
<1>11. Waiting'
  <2>1. reqs' # <<>> /\ reqs'[Len(reqs')].secured = ses'.secured
    BY <1>2, <1>3, <1>5
  <2>2. got' = <<>> /\ tmp' = <<>> /\ Len(got') = 0 /\ Len(tmp') = 0
    BY <1>2, <1>4 DEF NoneWaits
  <2>3. \A i \in DOMAIN stream' : stream'[i] = WaitingUnit(Len(got) + Len(tmp) + i)'
    <3>1. DOMAIN u = 1 .. rq.len
      BY <1>7, LenProperties
    <3> SUFFICES ASSUME NEW i \in 1 .. rq.len
                 PROVE  stream'[i] = WaitingUnit(Len(got) + Len(tmp) + i)'
      BY <1>8, <3>1
    <3>2. Len(got') + Len(tmp') + i = i
      BY <2>2
    <3>3. WaitingUnit(Len(got) + Len(tmp) + i)' = WaitingUnit(i)'
      BY <3>2 DEF WaitingUnit
    <3> QED
      BY <1>8, <1>10, <3>3
  <2>4. ctl'.send = IF ses'.secured THEN ses'.recv + 1 ELSE ses'.recv
    <3>1. ctl.secured => rq.len \div 2 = 1
      BY <1>2, <1>6
    <3> QED
      BY <1>2, <1>4, <1>5, <1>9, <3>1 DEF NoneWaits
  <2>5. Len(got') + Len(tmp') + Len(stream') = rq.len
    BY <1>6, <1>7, <1>8, <2>2
  <2> QED
    BY <1>3, <1>6, <2>1, <2>2, <2>3, <2>4, <2>5 DEF Waiting
<1>12. /\ pc' # "closed" /\ \A h \in DOMAIN handled' : handled'[h].whole
       /\ (~ses'.secured => ses'.recv = 0) /\ (~ctl'.secured => ctl'.send = 0)
       /\ (pc' = "idle" => got' = <<>> /\ tmp' = <<>>)
  BY <1>2, <1>9 DEF Served
<1>13. \A i \in DOMAIN reqs' : reqs'[i].head <= reqs'[i].len
  BY <1>1, <1>2, <1>3, TextLengths DEF Served
<1> QED
  BY <1>11, <1>12, <1>13 DEF Served

(* Simple or not, the requests stay so while the controller sends none.    *)
LEMMA SameRequests == reqs' = reqs => (Simple' <=> Simple)
BY DEF Simple

(* The last request is handled, whole, and nothing is left of it.          *)
LEMMA HandledServed ==
  ASSUME TypeOK, Served, NEW buf, NEW end, NEW n \in 1 .. 2,
         reqs # <<>>, buf[1] = WaitingUnit(1), Len(buf) = reqs[Len(reqs)].len,
         Handle(buf, end, n), end \in End,
         end.secured = ses.secured, end.recv = ctl.send,
         tmp' = <<>>, got' = <<>>, stream' = <<>>, pc' = "idle", UNCHANGED controller
  PROVE  Served'
<1> DEFINE h == [req |-> buf[1].req,
                 whole |-> buf[1].pos = 1 /\ Len(buf) = reqs[buf[1].req].len]
           secures == h.whole /\ reqs[buf[1].req].kind = "verify"
<1>0. buf[1].req = Len(reqs) /\ buf[1].pos = 1 /\ n \in Nat
  BY DEF WaitingUnit
<1>1. handled' = Append(handled, h) /\ h.whole
  BY <1>0 DEF Handle
<1>2. ses' = [AfterSend(end, n) EXCEPT !.secured = @ \/ secures]
  BY DEF Handle
<1>3. ses'.recv = end.recv /\ (end.secured => ses'.secured)
  <2> HIDE DEF secures
  <2>1. AfterSend(end, n) \in End
    BY <1>0, AfterSendIsEnd DEF TypeOK
  <2>2. AfterSend(end, n).recv = end.recv /\ AfterSend(end, n).secured = end.secured
    BY DEF AfterSend, End
  <2> QED
    BY <1>2, <2>1, <2>2 DEF End
<1> HIDE DEF h
<1>4. \A i \in DOMAIN handled' : handled'[i].whole
  <2>1. handled \in Seq([req : 1 .. MaxRequests, whole : BOOLEAN])
    BY DEF TypeOK
  <2>2. /\ DOMAIN handled = 1 .. Len(handled) /\ DOMAIN handled' = 1 .. Len(handled) + 1
        /\ handled'[Len(handled) + 1] = h /\ Len(handled) \in Nat
        /\ \A i \in 1 .. Len(handled) : handled'[i] = handled[i]
    BY <1>1, <2>1, AppendProperties, LenProperties
  <2> QED
    BY <1>1, <2>2 DEF Served
<1>5. NoneWaits'
  BY <1>3 DEF NoneWaits, controller
<1>6. ~ses'.secured => ses'.recv = 0
  <2>1. ~ses'.secured => ~ses.secured
    BY <1>3
  <2>2. ~ses.secured => ctl.send = 0
    BY DEF Served, Waiting, NoneWaits
  <2> QED
    BY <1>3, <2>1, <2>2
<1> QED
  BY <1>4, <1>5, <1>6 DEF Served, controller

(* A round of the loop on a plain session: all that was received goes to   *)
(* the request buffer, which has the headers when it has the request.      *)
LEMMA PlainServed ==
  ASSUME TypeOK, Simple, Served, NEW k \in 1 .. Len(stream), Len(tmp) + k <= TmpRoom,
         pc = "recv", stream' = SubSeq(stream, k + 1, Len(stream)), UNCHANGED controller,
         ~ses.secured, ReadPlain(Received(k))
  PROVE  Served'
<1> DEFINE last == reqs[Len(reqs)]
           piece == SubSeq(stream, 1, k)
           buf == got \o piece
<1>0. /\ k \in Nat /\ k >= 1 /\ k <= Len(stream) /\ k \in 0 .. Len(stream)
      /\ Len(got) \in Nat /\ Len(stream) \in Nat /\ ReqRoom \in Nat
  BY TextLengths, Numbers
<1>1. Waiting /\ tmp = <<>> /\ reqs # <<>> /\ Len(reqs) \in 1 .. Len(reqs)
  BY TextLengths, EmptySeq DEF Served, NoneWaits, Waiting
<1>2. /\ last.len <= ReqRoom /\ last.head = last.len /\ last.len \in Nat
      /\ Len(got) + Len(stream) = last.len
  BY <1>1, TextLengths DEF Simple, Waiting
<1>3. piece \in Seq(Unit) /\ Len(piece) = k /\ \A i \in 1 .. k : piece[i] = stream[i]
  BY <1>0, TextLengths, Pieces
<1>4. /\ stream' \in Seq(Unit) /\ Len(stream') = Len(stream) - k
      /\ \A i \in 1 .. Len(stream) - k : stream'[i] = stream[i + k]
  BY <1>0, TextLengths, Pieces
<1>5. Received(k) = piece
  BY <1>1, <1>3, ConcatEmptySeq DEF Received
<1> HIDE DEF piece
<1>6. /\ buf \in Seq(Unit) /\ Len(buf) = Len(got) + k
      /\ \A i \in 1 .. Len(got) + k : buf[i] = WaitingUnit(i)
  <2>1. /\ buf \in Seq(Unit) /\ Len(buf) = Len(got) + k
        /\ \A i \in 1 .. Len(got) + k : buf[i] = IF i <= Len(got) THEN got[i] ELSE piece[i - Len(got)]
    BY <1>3, TextLengths, ConcatProperties
  <2> HIDE DEF buf
  <2>2. ASSUME NEW i \in 1 .. Len(got) + k PROVE buf[i] = WaitingUnit(i)
    <3>1. CASE i <= Len(got)
      BY <1>1, <2>1, <3>1, TextLengths DEF Waiting
    <3>2. CASE i > Len(got)
      <4>1. i - Len(got) \in 1 .. k /\ i - Len(got) \in DOMAIN stream
        BY <3>2, TextLengths
      <4>2. buf[i] = stream[i - Len(got)]
        BY <1>3, <2>1, <3>2, <4>1, TextLengths
      <4>3. stream[i - Len(got)] = WaitingUnit(Len(got) + Len(tmp) + (i - Len(got)))
        BY <1>1, <4>1 DEF Waiting
      <4>4. Len(got) + Len(tmp) + (i - Len(got)) = i
        BY <1>1, TextLengths
      <4> QED
        BY <4>2, <4>3, <4>4
    <3> QED
      BY <1>0, <3>1, <3>2
  <2> QED
    BY <2>1, <2>2
<1>7. Parse(buf, ses, <<>>)
  BY <1>0, <1>2, <1>3, <1>5 DEF ReadPlain
<1>8. buf[1] = WaitingUnit(1)
  BY <1>0, <1>6
<1> HIDE DEF buf
<1>9. Parses(buf) = IF Len(buf) >= last.len THEN {"Success"} ELSE {"Incomplete"}
  BY <1>2, <1>8 DEF Parses, WaitingUnit
<1>10. CASE Len(buf) >= last.len
  <2>1. Len(buf) = last.len /\ k = Len(stream)
    BY <1>0, <1>2, <1>6, <1>10
  <2>2. stream' = <<>>
    BY <1>4, <2>1, TextLengths, EmptySeq
  <2>3. PICK n \in 1 .. 2 : Handle(buf, ses, n)
    BY <1>7, <1>9, <1>10 DEF Parse
  <2>4. pc' = "idle" /\ tmp' = <<>> /\ got' = <<>>
    BY <1>7, <1>9, <1>10 DEF Parse
  <2>5. ses.recv = ctl.send /\ ses \in End
    BY <1>1 DEF Waiting, TypeOK
  <2> QED
    BY <1>1, <1>8, <2>1, <2>2, <2>3, <2>4, <2>5, HandledServed
<1>11. CASE ~(Len(buf) >= last.len)
  <2>1. tmp' = <<>> /\ got' = buf /\ UNCHANGED <<ses, pc, handled>>
    BY <1>7, <1>9, <1>11 DEF Parse
  <2>2. \A i : WaitingUnit(i)' = WaitingUnit(i)
    BY <2>1 DEF WaitingUnit, controller
  <2>3. /\ Len(got') = Len(got) + k /\ Len(tmp') = 0
        /\ DOMAIN got' = 1 .. Len(got) + k /\ DOMAIN tmp' = {}
        /\ DOMAIN stream' = 1 .. Len(stream) - k
    BY <1>4, <1>6, <2>1, LenProperties
  <2>4. \A i \in DOMAIN got' : got'[i] = WaitingUnit(i)'
    BY <1>6, <2>1, <2>2, <2>3
  <2>5. ASSUME NEW i \in 1 .. Len(stream) - k
        PROVE  stream'[i] = WaitingUnit(Len(got') + Len(tmp') + i)
    <3>1. i + k \in DOMAIN stream
      BY TextLengths
    <3>2. stream[i + k] = WaitingUnit(Len(got) + Len(tmp) + (i + k))
      BY <1>1, <3>1 DEF Waiting
    <3>3. Len(got) + Len(tmp) + (i + k) = Len(got') + Len(tmp') + i
      BY <1>1, <2>3, TextLengths
    <3> QED
      BY <1>4, <3>2, <3>3
  <2>6. \A i \in DOMAIN stream' : stream'[i] = WaitingUnit(Len(got) + Len(tmp) + i)'
    BY <2>2, <2>3, <2>5 DEF WaitingUnit
  <2>7. Waiting'
    <3>1. Len(got') + Len(tmp') + Len(stream') = last.len /\ Len(got') < last.len
      <4> HIDE DEF last
      <4>1. Len(got') = Len(got) + k /\ Len(tmp') = 0 /\ Len(stream') = Len(stream) - k
        BY <1>4, <2>3
      <4>2. ~(Len(got) + k >= last.len)
        BY <1>6, <1>11
      <4>3. Len(got) + Len(stream) = last.len /\ last.len \in Nat
        BY <1>2
      <4>4. Len(got) \in Nat /\ Len(stream) \in Nat /\ k \in Nat
        BY <1>0
      <4>5. Len(got') + Len(tmp') + Len(stream') = (Len(got) + k) + 0 + (Len(stream) - k)
        BY <4>1
      <4>6. (Len(got) + k) + 0 + (Len(stream) - k) = last.len
        BY <4>3, <4>4
      <4>7. Len(got) + k < last.len
        BY <4>2, <4>3, <4>4
      <4> QED
        BY <4>1, <4>5, <4>6, <4>7
    <3> QED
      BY <1>1, <2>1, <2>3, <2>4, <2>6, <3>1 DEF Waiting, controller
  <2> QED
    BY <2>1, <2>7 DEF Served, controller
<1> QED
  BY <1>10, <1>11

(* On a secured one, a unit alone waits for the other one of its block,    *)
(* and the block is the request.                                           *)
LEMMA SecuredServed ==
  ASSUME TypeOK, Simple, Served, NEW k \in 1 .. Len(stream), Len(tmp) + k <= TmpRoom,
         pc = "recv", stream' = SubSeq(stream, k + 1, Len(stream)), UNCHANGED controller,
         ses.secured, ReadSecured(Received(k))
  PROVE  Served'
<1> DEFINE last == reqs[Len(reqs)]
           piece == SubSeq(stream, 1, k)
           data == Received(k)
<1>0. /\ k \in Nat /\ k >= 1 /\ k <= Len(stream) /\ k \in 0 .. Len(stream)
      /\ Len(tmp) \in Nat /\ Len(stream) \in Nat /\ ReqRoom \in Nat
  BY TextLengths, Numbers
<1>1. Waiting /\ got = <<>> /\ Len(got) = 0 /\ reqs # <<>> /\ Len(reqs) \in 1 .. Len(reqs)
  <2>1. Waiting
    BY <1>0, EmptySeq DEF Served, NoneWaits
  <2>2. got = <<>> /\ reqs # <<>>
    BY <2>1 DEF Waiting
  <2> QED
    BY <2>1, <2>2, TextLengths, EmptySeq
<1>2. /\ last.len = 2 /\ last.len <= ReqRoom /\ last.head <= last.len
      /\ Len(tmp) + Len(stream) = 2 /\ Len(tmp) < 2
  <2>1. last.secured
    BY <1>1 DEF Waiting
  <2>2. last.len = 2 /\ last.len <= ReqRoom
    BY <1>1, <2>1 DEF Simple
  <2>3. last.head <= last.len
    BY <1>1, TextLengths DEF Served
  <2>4. Len(tmp) + Len(stream) = 2 /\ Len(tmp) < 2
    BY <1>0, <1>1, <2>2 DEF Waiting
  <2> QED
    BY <2>2, <2>3, <2>4
<1>3. piece \in Seq(Unit) /\ Len(piece) = k /\ \A i \in 1 .. k : piece[i] = stream[i]
  BY <1>0, TextLengths, Pieces
<1>4. /\ stream' \in Seq(Unit) /\ Len(stream') = Len(stream) - k
      /\ \A i \in 1 .. Len(stream) - k : stream'[i] = stream[i + k]
  BY <1>0, TextLengths, Pieces
<1> HIDE DEF piece
<1>5. /\ data \in Seq(Unit) /\ Len(data) = Len(tmp) + k
      /\ \A i \in 1 .. Len(tmp) + k : data[i] = WaitingUnit(i)
  <2>1. /\ data \in Seq(Unit) /\ Len(data) = Len(tmp) + k
        /\ \A i \in 1 .. Len(tmp) + k : data[i] = IF i <= Len(tmp) THEN tmp[i] ELSE piece[i - Len(tmp)]
    BY <1>3, TextLengths, ConcatProperties DEF Received, piece
  <2> HIDE DEF data
  <2>2. ASSUME NEW i \in 1 .. Len(tmp) + k PROVE data[i] = WaitingUnit(i)
    <3>1. CASE i <= Len(tmp)
      <4>1. i \in DOMAIN tmp /\ Len(got) + i = i
        BY <1>1, <3>1, TextLengths
      <4>2. tmp[i] = WaitingUnit(Len(got) + i)
        BY <1>1, <4>1 DEF Waiting
      <4> QED
        BY <2>1, <3>1, <4>1, <4>2
    <3>2. CASE i > Len(tmp)
      <4>1. i - Len(tmp) \in 1 .. k /\ i - Len(tmp) \in DOMAIN stream
        BY <1>0, <3>2, TextLengths
      <4>2. data[i] = stream[i - Len(tmp)]
        BY <1>0, <1>3, <2>1, <3>2, <4>1
      <4>3. stream[i - Len(tmp)] = WaitingUnit(Len(got) + Len(tmp) + (i - Len(tmp)))
        BY <1>1, <4>1 DEF Waiting
      <4>4. Len(got) + Len(tmp) + (i - Len(tmp)) = i
        BY <1>0, <1>1
      <4> QED
        BY <4>2, <4>3, <4>4
    <3> QED
      BY <1>0, <3>1, <3>2
  <2> QED
    BY <2>1, <2>2
<1> HIDE DEF data
<1>6. data[1] = WaitingUnit(1) /\ data[1].pos = 1 /\ Len(data) \in {1, 2}
  <2>1. data[1] = WaitingUnit(1) /\ Len(data) \in {1, 2}
    BY <1>0, <1>2, <1>5
  <2> QED
    BY <2>1 DEF WaitingUnit
<1>7. \/ Len(data) = 1 /\ Wait(data)
      \/ Len(data) = 2 /\ ReadBlock(data)
  <2>1. ReadSecured(data)
    BY DEF data
  <2>2. data[1].pos % 2 = 1 /\ ~(data[1].pos % 2 = 0) /\ (Len(data) > 1 => Len(data) = 2)
    <3>1. data[1].pos = 1
      BY <1>6
    <3>2. 1 % 2 = 1 /\ ~(1 % 2 = 0)
      OBVIOUS
    <3>3. Len(data) > 1 => Len(data) = 2
      <4>1. CASE Len(data) = 1
        BY <4>1
      <4>2. CASE Len(data) = 2
        BY <4>2
      <4> QED
        BY <1>6, <4>1, <4>2
    <3> QED
      BY <3>1, <3>2, <3>3
  <2> QED
    BY <2>1, <2>2 DEF ReadSecured
<1>8. CASE Len(data) = 1 /\ Wait(data)
  <2>1. tmp' = data /\ UNCHANGED <<got, ses, pc, handled>>
    BY <1>8 DEF Wait
  <2>2. Len(tmp) = 0 /\ k = 1 /\ Len(stream) = 2 /\ Len(got) = 0
    <3>1. Len(data) = Len(tmp) + k /\ Len(data) = 1
      BY <1>5, <1>8
    <3>2. Len(tmp) + k = 1
      BY <3>1
    <3>3. Len(got) = 0 /\ Len(tmp) \in Nat /\ Len(stream) \in Nat /\ k \in Nat /\ 1 <= k
      BY <1>0, <1>1
    <3>4. Len(tmp) + Len(stream) = 2
      BY <1>2
    <3> HIDE DEF last, data
    <3>5. Len(tmp) = 0 /\ k = 1
      BY <3>2, <3>3
    <3>6. Len(stream) = 2
      BY <3>3, <3>4, <3>5
    <3> QED
      BY <3>3, <3>5, <3>6
  <2>3. /\ Len(got') = 0 /\ Len(tmp') = 1 /\ Len(stream') = 1
        /\ DOMAIN got' = {} /\ DOMAIN tmp' = {1} /\ DOMAIN stream' = {1}
    BY <1>1, <1>4, <1>5, <1>8, <2>1, <2>2, LenProperties
  <2>4. \A i : WaitingUnit(i)' = WaitingUnit(i)
    BY <2>1 DEF WaitingUnit, controller
  <2>5. tmp'[1] = WaitingUnit(Len(got) + 1)'
    <3>1. Len(got') + 1 = 1
      BY <2>3
    <3>2. WaitingUnit(Len(got) + 1)' = WaitingUnit(1)
      BY <2>1, <3>1 DEF WaitingUnit, controller
    <3> QED
      BY <1>6, <2>1, <3>2
  <2>6. stream'[1] = WaitingUnit(Len(got) + Len(tmp) + 1)'
    <3>1. stream'[1] = stream[2] /\ 2 \in DOMAIN stream
      BY <1>4, <2>2, TextLengths
    <3>2. stream[2] = WaitingUnit(Len(got) + Len(tmp) + 2)
      BY <1>1, <3>1 DEF Waiting
    <3>3. Len(got) + Len(tmp) + 2 = 2 /\ Len(got') + Len(tmp') + 1 = 2
      BY <2>2, <2>3
    <3>4. WaitingUnit(Len(got) + Len(tmp) + 1)' = WaitingUnit(2)
      BY <2>1, <3>3 DEF WaitingUnit, controller
    <3> QED
      BY <3>1, <3>2, <3>3, <3>4
  <2>7. Waiting'
    <3>1. /\ \A i \in DOMAIN got' : got'[i] = WaitingUnit(i)'
          /\ \A i \in DOMAIN tmp' : tmp'[i] = WaitingUnit(Len(got) + i)'
          /\ \A i \in DOMAIN stream' : stream'[i] = WaitingUnit(Len(got) + Len(tmp) + i)'
      BY <2>3, <2>5, <2>6
    <3>2. Len(got') + Len(tmp') + Len(stream') = 2 /\ Len(tmp') < 2
      BY <2>3
    <3>3. UNCHANGED <<reqs, ctl, ses, got>>
      BY <2>1 DEF controller
    <3> QED
      BY <1>1, <1>2, <3>1, <3>2, <3>3 DEF Waiting
  <2> QED
    BY <2>1, <2>7 DEF Served, controller
<1>9. CASE Len(data) = 2 /\ ReadBlock(data)
  <2> DEFINE block == SubSeq(data, 1, 2)
             buf == got \o block
             end == NextRecv
  <2>1. /\ block \in Seq(Unit) /\ Len(block) = 2
        /\ block[1] = data[1] /\ block[2] = data[2]
    <3>1. 2 \in 0 .. Len(data) /\ 1 \in 1 .. 2 /\ 2 \in 1 .. 2
      BY <1>9
    <3>2. data \in Seq(Unit)
      BY <1>5
    <3>3. /\ SubSeq(data, 1, 2) \in Seq(Unit) /\ Len(SubSeq(data, 1, 2)) = 2
          /\ \A i \in 1 .. 2 : SubSeq(data, 1, 2)[i] = data[i]
      BY <3>1, <3>2, Pieces
    <3> QED
      BY <3>1, <3>3
  <2>2. buf = block
    BY <1>1, <2>1, ConcatEmptySeq
  <2>3. Authentic(data) /\ ~(Len(got) + 2 > ReqRoom)
    <3>1. data[2] = WaitingUnit(2)
      <4>1. 2 \in 1 .. Len(tmp) + k
        <5>1. Len(data) = Len(tmp) + k /\ Len(data) = 2
          BY <1>5, <1>9
        <5> QED
          BY <5>1
      <4> QED
        BY <1>5, <4>1
    <3> QED
      BY <1>0, <1>1, <1>2, <1>6, <3>1 DEF Authentic, WaitingUnit
  <2>4. Parse(buf, end, Rest(data))
    BY <1>9, <2>3 DEF ReadBlock, NextRecv, Decrypted
  <2> HIDE DEF block, end
  <2>5. Parses(buf) = {"Success"}
    <3>1. last.head \in Nat
      <4>1. last \in Request
        BY <1>1, TextLengths
      <4> HIDE DEF last
      <4> QED
        BY <4>1, Numbers DEF Request
    <3>2. Len(buf) >= last.head /\ buf[1] = WaitingUnit(1)
      BY <1>2, <1>6, <2>1, <2>2, <3>1
    <3> HIDE DEF buf
    <3> QED
      BY <3>2 DEF Parses, WaitingUnit
  <2>6. PICK n \in 1 .. 2 : Handle(buf, end, n)
    BY <2>4, <2>5 DEF Parse
  <2>7. pc' = "idle" /\ tmp' = <<>> /\ got' = <<>>
    BY <2>4, <2>5 DEF Parse
  <2>8. stream' = <<>>
    BY <1>0, <1>2, <1>4, <1>5, <1>9, EmptySeq
  <2>9. end \in End /\ end.secured = ses.secured /\ end.recv = ctl.send
    BY <1>1, NextRecvIsEnd DEF end, NextRecv, Waiting, TypeOK, End
  <2> QED
    BY <1>1, <1>2, <1>6, <2>1, <2>2, <2>6, <2>7, <2>8, <2>9, HandledServed
<1> QED
  BY <1>7, <1>8, <1>9
-----------------------------------------------------------------------------
LEMMA ServedKeeps ==
  ASSUME ChannelInv, SimpleInv, TypeOK', [Next]_vars
  PROVE  SimpleInv'
<1> SUFFICES ASSUME Simple' PROVE Served'
  BY DEF SimpleInv
<1>1. TypeOK
  BY DEF ChannelInv
<1>2. ASSUME NEW rq \in Request, SendRequest(rq) PROVE Served'
  <2>1. reqs' = Append(reqs, rq) /\ reqs \in Seq(Request)
    BY <1>1, <1>2 DEF SendRequest, TypeOK
  <2>2. /\ Len(reqs') = Len(reqs) + 1 /\ Len(reqs) \in Nat
        /\ \A r \in 1 .. Len(reqs) : reqs'[r] = reqs[r]
    BY <2>1, AppendProperties, LenProperties
  <2>3. Simple
    BY <2>2 DEF Simple
  <2> QED
    BY <1>2, <2>3, SendServed DEF SimpleInv
<1>3. CASE ReceiveFrame
  <2>1. /\ reqs' = reqs /\ ctl'.send = ctl.send /\ (ctl.secured => ctl'.secured)
        /\ UNCHANGED <<stream, pc, tmp, got, ses, handled>>
    <3> DEFINE ends == Head(out).is = "response" /\ Head(out).last
               recv == IF ctl.secured THEN ctl.recv + 1 ELSE ctl.recv
               secured == ctl.secured \/ (ends /\ Verified)
    <3>1. ctl' = [ctl EXCEPT !.recv = recv, !.secured = secured]
      BY <1>3 DEF ReceiveFrame
    <3> HIDE DEF recv
    <3>2. ctl'.send = ctl.send /\ ctl'.secured = secured
      BY <1>1, <3>1 DEF TypeOK, End
    <3> QED
      BY <1>3, <3>2 DEF ReceiveFrame, accessory
  <2>2. Served
    BY <2>1, SameRequests DEF SimpleInv
  <2>3. Waiting => Waiting'
    BY <2>1 DEF Waiting, WaitingUnit
  <2> QED
    BY <2>1, <2>2, <2>3 DEF Served, NoneWaits
<1>4. CASE Reconnect
  BY <1>4 DEF Reconnect, Served, NoneWaits, Fresh
<1>5. CASE StartProcess
  <2>1. /\ UNCHANGED <<reqs, ctl, stream, ses, handled>> /\ pc = "idle" /\ pc' = "recv"
        /\ tmp' = <<>> /\ got' = <<>>
    BY <1>5 DEF StartProcess, controller
  <2>2. Served /\ tmp' = tmp /\ got' = got
    BY <2>1, SameRequests DEF SimpleInv, Served
  <2>3. Waiting => Waiting'
    BY <2>1, <2>2 DEF Waiting, WaitingUnit
  <2> QED
    BY <2>1, <2>2, <2>3 DEF Served, NoneWaits
<1>6. CASE Recv
  <2>1. PICK k \in 1 .. Len(stream) :
          /\ Len(tmp) + k <= TmpRoom
          /\ stream' = SubSeq(stream, k + 1, Len(stream))
          /\ IF ses.secured THEN ReadSecured(Received(k)) ELSE ReadPlain(Received(k))
    BY <1>6 DEF Recv, Received
  <2>2. pc = "recv" /\ UNCHANGED controller
    BY <1>6 DEF Recv
  <2>3. Simple /\ Served
    BY <2>2, SameRequests DEF SimpleInv, controller
  <2> QED
    BY <1>1, <2>1, <2>2, <2>3, PlainServed, SecuredServed
<1>7. CASE RecvNothing
  <2>1. reqs' = reqs /\ Len(tmp) = TmpRoom
    BY <1>7 DEF RecvNothing, controller
  <2>2. Served
    BY <2>1, SameRequests DEF SimpleInv
  <2>3. Len(tmp) < 2
    BY <2>2, EmptySeq DEF Served, NoneWaits, Waiting
  <2>4. TmpRoom \in Nat /\ TmpRoom >= 2
    BY RoomAssumption
  <2> QED
    BY <2>1, <2>3, <2>4
<1>8. CASE Poll
  <2>1. /\ UNCHANGED <<reqs, ctl, stream, pc, tmp, got, handled>>
        /\ ses' = AfterSend(ses, 1)
    BY <1>8 DEF Poll, controller
  <2>2. ses'.secured = ses.secured /\ ses'.recv = ses.recv
    BY <1>1, <2>1 DEF AfterSend, TypeOK, End
  <2>3. Served
    BY <2>1, SameRequests DEF SimpleInv
  <2>4. Waiting => Waiting'
    BY <2>1, <2>2 DEF Waiting, WaitingUnit
  <2> QED
    BY <2>1, <2>2, <2>3, <2>4 DEF Served, NoneWaits
<1>9. CASE UNCHANGED vars
  <2>1. UNCHANGED <<reqs, ctl, stream, pc, tmp, got, ses, handled>>
    BY <1>9 DEF vars
  <2>2. Served
    BY <2>1, SameRequests DEF SimpleInv
  <2>3. Waiting => Waiting'
    BY <2>1 DEF Waiting, WaitingUnit
  <2> QED
    BY <2>1, <2>2, <2>3 DEF Served, NoneWaits
<1> QED
  BY <1>2, <1>3, <1>4, <1>5, <1>6, <1>7, <1>8, <1>9 DEF Next, Accessory

(* Requests that the reading loop is made for, encrypted in one block or   *)
(* plain without a body, are handled whole in whatever pieces they arrive, *)
(* and Process never closes the connection over them: for buffers, pieces  *)
(* and numbers of requests of any size.                                    *)
THEOREM SimpleRequestsAreServed == Spec => []SimpleIsServed
<1>1. Init => SimpleInv
  BY DEF Init, SimpleInv, Served, NoneWaits, Fresh
<1>2. ChannelInv /\ SimpleInv /\ [Next]_vars => SimpleInv'
  <2>1. ChannelInv /\ [Next]_vars => TypeOK'
    BY NextInv DEF ChannelInv
  <2> QED
    BY <2>1, ServedKeeps
<1>3. ChannelInv /\ SimpleInv => SimpleIsServed
  <2> SUFFICES ASSUME ChannelInv, SimpleInv, Simple
               PROVE  cause = "none" /\ \A h \in 1 .. Len(handled) : handled[h].whole
    BY DEF SimpleIsServed
  <2> QED
    BY Lengths DEF ChannelInv, SimpleInv, Served
<1> QED
  BY <1>1, <1>2, <1>3, InitInv, NextInv, PTL DEF Spec

-----------------------------------------------------------------------------
(* The creator of responses, src/Hap/HapHttp.h, for lines of any length.   *)

(* What a place of the response's buffer can hold.                         *)
Letter == {"s", "h", "n", "r", "d", "0", "junk"}
(* The response as class Response keeps it.                                *)
Response == [buf : Seq(Letter), max : Nat, len : Nat, lenPos : Nat, length : Nat, past : BOOLEAN]

(* A buffer of size places begins with the text, and nothing was written   *)
(* beyond it.                                                              *)
Holds(obj, text, size) ==
  /\ obj \in Response /\ text \in Seq(Letter)
  /\ obj.buf \in [1 .. size -> Letter] /\ Len(obj.buf) = size
  /\ obj.len = Len(text) /\ Len(text) <= size
  /\ \A i \in 1 .. Len(text) : obj.buf[i] = text[i]
  /\ ~obj.past

(* An object that creates in a buffer of size places, with some of its room*)
(* left.                                                                   *)
Ready(obj, size, space) ==
  /\ obj \in Response /\ obj.buf \in [1 .. size -> Letter] /\ Len(obj.buf) = size
  /\ ~obj.past
  /\ space \in Nat /\ space <= size /\ size < Uint16 /\ obj.max = space

(* The lines have a length and the numbers of 16 bits an end.              *)
LEMMA Widths == 
  /\ StatusLine \in Nat /\ StatusLine > 0 /\ TypeLine \in Nat /\ TypeLine > 0
  /\ LengthLine \in Nat /\ LengthLine > 6 /\ Uint16 \in Nat /\ Uint16 > 0
BY ResponseAssumption

(* A text of one letter.                                                   *)
LEMMA TextIs == \A c \in Letter, n \in Nat :
  /\ Text(c, n) \in Seq(Letter) /\ Len(Text(c, n)) = n
  /\ \A i \in 1 .. n : Text(c, n)[i] = c
<1> SUFFICES ASSUME NEW c \in Letter, NEW n \in Nat
             PROVE  /\ Text(c, n) \in Seq(Letter) /\ Len(Text(c, n)) = n
                    /\ \A i \in 1 .. n : Text(c, n)[i] = c
  OBVIOUS
<1>1. Text(c, n) = [i \in 1 .. n |-> c]
  BY DEF Text
<1>2. [i \in 1 .. n |-> c] \in Seq(Letter) /\ Len([i \in 1 .. n |-> c]) = n
  OBVIOUS
<1> QED
  BY <1>1, <1>2

(* A number that fits the 16 bits stays what it is.                        *)
LEMMA Fits16 == \A n \in Nat : n < Uint16 => n % Uint16 = n
BY Widths

(* Writing behind the text makes it longer.                                *)
LEMMA Written ==
  ASSUME NEW size \in Nat, NEW text, NEW obj, Holds(obj, text, size),
         NEW line \in Seq(Letter), NEW more \in Seq(Letter), Len(more) >= Len(line),
         \A i \in 1 .. Len(line) : more[i] = line[i],
         Len(text) + Len(more) <= size
  PROVE  /\ Write(obj, obj.len, more) \in Response
         /\ Write(obj, obj.len, more).buf \in [1 .. size -> Letter]
         /\ ~Write(obj, obj.len, more).past
         /\ Write(obj, obj.len, more).len = obj.len
         /\ Write(obj, obj.len, more).max = obj.max
         /\ Write(obj, obj.len, more).lenPos = obj.lenPos
         /\ Write(obj, obj.len, more).length = obj.length
         /\ \A i \in 1 .. Len(text) + Len(line) :
               Write(obj, obj.len, more).buf[i] = (text \o line)[i]
<1> DEFINE w == Write(obj, obj.len, more)
           b == [i \in 1 .. size |-> IF i - Len(text) \in 1 .. Len(more) THEN more[i - Len(text)] ELSE obj.buf[i]]
<1>0. Len(text) \in Nat /\ Len(more) \in Nat /\ Len(line) \in Nat
  BY DEF Holds
<1>1. DOMAIN obj.buf = 1 .. size /\ DOMAIN more = 1 .. Len(more)
  BY DEF Holds
<1>2. ~(obj.past \/ Len(text) + Len(more) > size)
  BY <1>0 DEF Holds
<1>3. w = [obj EXCEPT !.buf = b, !.past = obj.past \/ Len(text) + Len(more) > size]
  BY <1>1 DEF Write, Holds
<1>4. b \in [1 .. size -> Letter]
  BY <1>0 DEF Holds
<1>5. b \in Seq(Letter)
  BY <1>4
<1>6. \A i \in 1 .. Len(text) + Len(line) : b[i] = (text \o line)[i]
  <2> SUFFICES ASSUME NEW i \in 1 .. Len(text) + Len(line) PROVE b[i] = (text \o line)[i]
    OBVIOUS
  <2>1. i \in 1 .. size /\ (i - Len(text) \in 1 .. Len(more) <=> i > Len(text))
    BY <1>0
  <2>2. (text \o line)[i] = IF i <= Len(text) THEN text[i] ELSE line[i - Len(text)]
    BY <1>0, ConcatProperties DEF Holds
  <2>3. CASE i <= Len(text)
    BY <1>0, <2>1, <2>2, <2>3 DEF Holds
  <2>4. CASE i > Len(text)
    <3>1. i - Len(text) \in 1 .. Len(line)
      BY <1>0, <2>4
    <3> QED
      BY <1>0, <2>1, <2>2, <2>4, <3>1
  <2> QED
    BY <1>0, <2>3, <2>4
<1> HIDE DEF b
<1> QED
  BY <1>2, <1>3, <1>4, <1>5, <1>6 DEF Response, Holds

(* snprintf at _len, where its line and its end have room: the line is     *)
(* behind the text, whole.                                                 *)
LEMMA PutWrites ==
  ASSUME NEW size \in Nat, NEW text, NEW obj, Holds(obj, text, size), obj.max # 0,
         NEW line \in Seq(Letter), Len(line) < obj.max, Len(text) + Len(line) < size,
         Len(text) + Len(line) < Uint16,
         NEW longer, longer = Grow(Put(obj, line), Len(line))
  PROVE  /\ Holds(longer, text \o line, size)
         /\ longer.max = obj.max /\ longer.lenPos = obj.lenPos /\ longer.length = obj.length
<1> DEFINE more == Append(line, "0")
           w == Write(obj, obj.len, more)
<1>0. Len(text) \in Nat /\ Len(line) \in Nat /\ obj.len = Len(text) /\ text \in Seq(Letter)
  BY DEF Holds
<1>1. more \in Seq(Letter) /\ Len(more) = Len(line) + 1 /\ \A i \in 1 .. Len(line) : more[i] = line[i]
  <2>1. "0" \in Letter
    BY DEF Letter
  <2> QED
    BY <2>1, AppendProperties
<1>2. Put(obj, line) = w
  BY DEF Put
<1> HIDE DEF more
<1>3. Len(more) >= Len(line) /\ Len(text) + Len(more) <= size
  BY <1>0, <1>1
<1>4. /\ w \in Response /\ w.buf \in [1 .. size -> Letter] /\ ~w.past /\ w.len = obj.len
      /\ w.max = obj.max /\ w.lenPos = obj.lenPos /\ w.length = obj.length
      /\ \A i \in 1 .. Len(text) + Len(line) : w.buf[i] = (text \o line)[i]
  BY <1>1, <1>3, Written
<1> HIDE DEF w
<1>5. text \o line \in Seq(Letter) /\ Len(text \o line) = Len(text) + Len(line)
  BY <1>0, ConcatProperties
<1>6. (w.len + Len(line)) % Uint16 = Len(text) + Len(line)
  BY <1>0, <1>4, Fits16
<1>7. longer = [w EXCEPT !.len = Len(text) + Len(line)]
  BY <1>2, <1>4, <1>6 DEF Grow
<1>8. Len(w.buf) = size
  BY <1>4
<1>9. /\ longer \in Response /\ longer.buf = w.buf /\ longer.len = Len(text) + Len(line)
      /\ longer.past = w.past /\ longer.max = w.max /\ longer.lenPos = w.lenPos
      /\ longer.length = w.length
  <2>1. Len(text) + Len(line) \in Nat
    BY <1>0
  <2> DEFINE sum == Len(text) + Len(line)
  <2>2. longer = [w EXCEPT !.len = sum] /\ w \in Response /\ sum \in Nat
    BY <1>4, <1>7, <2>1
  <2> HIDE DEF sum
  <2>3. /\ longer \in Response /\ longer.buf = w.buf /\ longer.len = sum
        /\ longer.past = w.past /\ longer.max = w.max /\ longer.lenPos = w.lenPos
        /\ longer.length = w.length
    BY <2>2 DEF Response
  <2> QED
    BY <2>3 DEF sum
<1> HIDE DEF Holds
<1>10. \A i \in 1 .. Len(text \o line) : longer.buf[i] = (text \o line)[i]
  BY <1>4, <1>5, <1>9
<1>11. Len(text \o line) <= size
  BY <1>0, <1>5
<1> QED
  BY <1>4, <1>5, <1>8, <1>9, <1>10, <1>11 DEF Holds

(* Response::init leaves the length and _len_pos of the response before.   *)
LEMMA Initialised ==
  ASSUME NEW before \in Response, NEW size \in Nat, size < Uint16
  PROVE  Ready(RspInit(before, size), size, size)
<1> DEFINE junk == Text("junk", size)
           obj == RspInit(before, size)
<1>1. junk \in Seq(Letter) /\ Len(junk) = size /\ junk \in [1 .. size -> Letter]
      /\ junk = [i \in 1 .. size |-> "junk"]
  BY TextIs DEF Letter, Text
<1> HIDE DEF junk
<1>2. obj = [before EXCEPT !.max = size, !.buf = junk, !.past = FALSE]
  BY <1>1 DEF RspInit
<1> HIDE DEF obj
<1>3. obj \in Response /\ obj.max = size /\ obj.buf = junk /\ obj.past = FALSE
  BY <1>1, <1>2 DEF Response
<1>4. Ready(obj, size, size)
  BY <1>1, <1>3 DEF Ready
<1> QED
  BY <1>4 DEF obj

(* Response::start, on whatever the response before left.                  *)
LEMMA Started ==
  ASSUME NEW before, NEW size \in Nat, NEW space, Ready(before, size, space), StatusLine < space,
         NEW obj, obj = RspStart(before)
  PROVE  Holds(obj, Text("s", StatusLine), size) /\ obj.max = space - StatusLine
<1> DEFINE blank == [before EXCEPT !.len = 0]
           line == Text("s", StatusLine)
           longer == Grow(Put(blank, line), Len(line))
<1>0. line \in Seq(Letter) /\ Len(line) = StatusLine /\ StatusLine \in Nat /\ StatusLine > 0
  <2>1. "s" \in Letter
    BY DEF Letter
  <2> QED
    BY <2>1, Widths, TextIs
<1>1. space \in Nat /\ space <= size /\ size < Uint16 /\ before.max = space
  BY DEF Ready
<1>2. Holds(blank, <<>>, size) /\ blank.max = space
  <2>1. <<>> \in Seq(Letter) /\ Len(<<>>) = 0
    OBVIOUS
  <2>2. /\ blank \in Response /\ blank.max = space /\ blank.buf = before.buf /\ blank.len = 0
        /\ blank.past = before.past
    BY DEF Response, Ready
  <2> HIDE DEF blank
  <2> QED
    BY <2>1, <2>2 DEF Holds, Ready
<1> HIDE DEF blank, line
<1>3. Holds(longer, <<>> \o line, size) /\ longer.max = space
  <2> DEFINE none == <<>>
  <2>1. Len(none) = 0
    OBVIOUS
  <2>2. blank.max # 0 /\ Len(line) < blank.max /\ Len(none) + Len(line) < size
        /\ Len(none) + Len(line) < Uint16
    BY <1>0, <1>1, <1>2, <2>1, Widths
  <2>3. Holds(blank, none, size)
    BY <1>2
  <2> HIDE DEF none, longer
  <2>4. longer = Grow(Put(blank, line), Len(line))
    BY DEF longer
  <2>5. Holds(longer, none \o line, size) /\ longer.max = blank.max
    BY <1>0, <2>2, <2>3, <2>4, PutWrites
  <2> QED
    BY <1>2, <2>5 DEF none
<1>4. <<>> \o line = line
  BY <1>0, ConcatEmptySeq
<1>5. obj = Take(longer, StatusLine)
  BY <1>0 DEF RspStart, blank, line
<1>6. (space - StatusLine) % Uint16 = space - StatusLine
  <2>1. space - StatusLine \in Nat /\ space - StatusLine < Uint16
    BY <1>0, <1>1, Widths
  <2> QED
    BY <2>1, Fits16
<1> HIDE DEF longer
<1>7. obj = [longer EXCEPT !.max = space - StatusLine]
  BY <1>3, <1>5, <1>6 DEF Take
<1>8. space - StatusLine \in Nat
  BY <1>0, <1>1
<1>9. Holds(longer, line, size) /\ obj = [longer EXCEPT !.max = space - StatusLine]
  BY <1>3, <1>4, <1>7
<1>10. Holds(obj, line, size) /\ obj.max = space - StatusLine
  BY <1>8, <1>9 DEF Holds, Response
<1> QED
  BY <1>10 DEF line

(* Response::add: what it takes from the room is the length so far.        *)
LEMMA Added ==
  ASSUME NEW size \in Nat, size < Uint16, NEW text, NEW obj, Holds(obj, text, size),
         NEW line \in Seq(Letter), Len(text) + Len(line) < size,
         Len(line) < obj.max, Len(text) + Len(line) <= obj.max, obj.max <= size,
         NEW longer, longer = AddLine(obj, line)
  PROVE  /\ Holds(longer, text \o line, size)
         /\ longer.max = obj.max - (Len(text) + Len(line))
         /\ longer.lenPos = obj.lenPos /\ longer.length = obj.length
<1> DEFINE grown == Grow(Put(obj, line), Len(line))
<1>0. Len(text) \in Nat /\ Len(line) \in Nat /\ obj.max \in Nat /\ text \in Seq(Letter)
  BY DEF Holds, Response
<1>1. /\ Holds(grown, text \o line, size)
      /\ grown.max = obj.max /\ grown.lenPos = obj.lenPos /\ grown.length = obj.length
  <2>1. obj.max # 0 /\ Len(text) + Len(line) < Uint16
    BY <1>0, Widths
  <2> QED
    BY <2>1, PutWrites
<1>2. longer = Take(grown, grown.len)
  <2>1. obj.max # 0
    BY <1>0
  <2> QED
    BY <2>1 DEF AddLine
<1> HIDE DEF grown
<1>3. grown.len = Len(text) + Len(line)
  BY <1>0, <1>1, ConcatProperties DEF Holds
<1>4. (grown.max - grown.len) % Uint16 = obj.max - (Len(text) + Len(line))
  <2>1. obj.max - (Len(text) + Len(line)) \in Nat /\ obj.max - (Len(text) + Len(line)) < Uint16
    BY <1>0, Widths
  <2> QED
    BY <1>1, <1>3, <2>1, Fits16
<1>5. longer = [grown EXCEPT !.max = obj.max - (Len(text) + Len(line))]
  BY <1>2, <1>4 DEF Take
<1>6. obj.max - (Len(text) + Len(line)) \in Nat
  BY <1>0
<1> QED
  BY <1>1, <1>5, <1>6 DEF Holds, Response

(* The places of two texts, one behind the other.                          *)
LEMMA LettersJoined ==
  ASSUME NEW a \in Seq(Letter), NEW b \in Seq(Letter), NEW m \in Nat, Len(a) = m, NEW n \in Nat, Len(b) = n
  PROVE  /\ a \o b \in Seq(Letter) /\ Len(a \o b) = m + n
         /\ \A i \in 1 .. m : (a \o b)[i] = a[i]
         /\ \A i \in 1 .. n : (a \o b)[m + i] = b[i]
<1>1. /\ a \o b \in Seq(Letter) /\ Len(a \o b) = Len(a) + Len(b)
      /\ \A i \in 1 .. Len(a) + Len(b) : (a \o b)[i] = IF i <= Len(a) THEN a[i] ELSE b[i - Len(a)]
  BY ConcatProperties
<1> HIDE DEF Letter
<1>2. \A i \in 1 .. m + n : (a \o b)[i] = IF i <= m THEN a[i] ELSE b[i - m]
  BY <1>1
<1>3. ASSUME NEW i \in 1 .. n PROVE (a \o b)[m + i] = b[i]
  <2>1. m + i \in 1 .. m + n /\ ~(m + i <= m) /\ (m + i) - m = i
    OBVIOUS
  <2> QED
    BY <1>2, <2>1
<1>4. ASSUME NEW i \in 1 .. m PROVE (a \o b)[i] = a[i]
  BY <1>2
<1> QED
  BY <1>1, <1>3, <1>4

(* The second of two texts.                                                *)
LEMMA LettersJoinedRight ==
  ASSUME NEW a \in Seq(Letter), NEW b \in Seq(Letter), NEW m \in Nat, Len(a) = m, NEW i \in 1 .. Len(b)
  PROVE  (a \o b)[m + i] = b[i]
<1> DEFINE n == Len(b)
<1>1. n \in Nat /\ i \in 1 .. n
  OBVIOUS
<1>2. \A x \in 1 .. n : (a \o b)[m + x] = b[x]
  <2> HIDE DEF Letter
  <2> QED
    BY <1>1, LettersJoined
<1> QED
  BY <1>1, <1>2

(* The lines, and what stands in front of the data.                        *)
TypeText == Text("h", TypeLine)
LengthText == Text("h", LengthLine - 6) \o Text("n", 4) \o Text("h", 2)
Status == Text("s", StatusLine)
BareHead == Status \o Text("r", 2)
LongHead == (Status \o TypeText) \o LengthText

(* The lines are texts; the digits of the length are the four characters   *)
(* before the last two of theirs.                                          *)
LEMMA Lines ==
  /\ Status \in Seq(Letter) /\ Len(Status) = StatusLine
  /\ TypeText \in Seq(Letter) /\ Len(TypeText) = TypeLine
  /\ LengthText \in Seq(Letter) /\ Len(LengthText) = LengthLine
  /\ \A i \in LengthLine - 5 .. LengthLine - 2 : LengthText[i] = "n"
  /\ Text("r", 2) \in Seq(Letter) /\ Len(Text("r", 2)) = 2
  /\ \A n \in Nat : Text("d", n) \in Seq(Letter) /\ Len(Text("d", n)) = n
<1> DEFINE first == Text("h", LengthLine - 6)
           digits == Text("n", 4)
           rest == Text("h", 2)
<1>1. LengthLine - 6 \in Nat
  BY Widths
<1>2. "h" \in Letter /\ "n" \in Letter /\ "r" \in Letter /\ "s" \in Letter /\ "d" \in Letter
  BY DEF Letter
<1>3. first \in Seq(Letter) /\ Len(first) = LengthLine - 6
  BY <1>1, <1>2, TextIs
<1>4. digits \in Seq(Letter) /\ Len(digits) = 4 /\ \A i \in 1 .. 4 : digits[i] = "n"
  BY <1>2, TextIs
<1>5. rest \in Seq(Letter) /\ Len(rest) = 2
  BY <1>2, TextIs
<1>6. /\ Status \in Seq(Letter) /\ Len(Status) = StatusLine
      /\ TypeText \in Seq(Letter) /\ Len(TypeText) = TypeLine
      /\ Text("r", 2) \in Seq(Letter) /\ Len(Text("r", 2)) = 2
      /\ \A n \in Nat : Text("d", n) \in Seq(Letter) /\ Len(Text("d", n)) = n
  BY <1>2, Widths, TextIs DEF Status, TypeText
<1> DEFINE most == first \o digits
<1>7. LengthText = most \o rest
  BY DEF LengthText
<1> HIDE DEF first, digits, rest
<1>8. /\ most \in Seq(Letter) /\ Len(most) = (LengthLine - 6) + 4
      /\ \A i \in 1 .. 4 : most[(LengthLine - 6) + i] = digits[i]
  <2> DEFINE k == LengthLine - 6
             four == 4
  <2>1. k \in Nat /\ Len(first) = k /\ four \in Nat /\ Len(digits) = four
    BY <1>1, <1>3, <1>4
  <2>2. first \in Seq(Letter) /\ digits \in Seq(Letter)
    BY <1>3, <1>4
  <2> HIDE DEF k, four
  <2>3. /\ first \o digits \in Seq(Letter) /\ Len(first \o digits) = k + four
        /\ \A i \in 1 .. four : (first \o digits)[k + i] = digits[i]
    <3> HIDE DEF most, Letter
    <3>1. first \o digits \in Seq(Letter) /\ Len(first \o digits) = k + four
      BY <2>1, <2>2, LettersJoined
    <3>2. ASSUME NEW i \in 1 .. four PROVE (first \o digits)[k + i] = digits[i]
      BY <2>1, <2>2, LettersJoinedRight
    <3> QED
      BY <3>1, <3>2
  <2> QED
    BY <2>3 DEF k, four
<1> HIDE DEF most
<1>9. (LengthLine - 6) + 4 \in Nat /\ ((LengthLine - 6) + 4) + 2 = LengthLine
  BY Widths
<1>10. /\ most \o rest \in Seq(Letter) /\ Len(most \o rest) = LengthLine
       /\ \A i \in 1 .. (LengthLine - 6) + 4 : (most \o rest)[i] = most[i]
  <2> DEFINE k == (LengthLine - 6) + 4
             two == 2
  <2>1. k \in Nat /\ Len(most) = k /\ two \in Nat /\ Len(rest) = two
    BY <1>5, <1>8, <1>9
  <2>2. most \in Seq(Letter) /\ rest \in Seq(Letter)
    BY <1>5, <1>8
  <2> HIDE DEF k, two
  <2>3. /\ most \o rest \in Seq(Letter) /\ Len(most \o rest) = k + two
        /\ \A i \in 1 .. k : (most \o rest)[i] = most[i]
    BY <2>1, <2>2, LettersJoined
  <2> QED
    BY <1>9, <2>3 DEF k, two
<1>11. ASSUME NEW i \in LengthLine - 5 .. LengthLine - 2 PROVE (most \o rest)[i] = "n"
  <2>1. /\ i \in 1 .. (LengthLine - 6) + 4
        /\ i - (LengthLine - 6) \in 1 .. 4 /\ (LengthLine - 6) + (i - (LengthLine - 6)) = i
    BY Widths
  <2> QED
    BY <1>4, <1>8, <1>10, <2>1
<1> QED
  BY <1>6, <1>7, <1>10, <1>11

(* Response::end, and what is sent of a buffer.                            *)
LEMMA Ended ==
  ASSUME NEW size \in Nat, size < Uint16, NEW text, NEW obj, Holds(obj, text, size),
         NEW line \in Seq(Letter), Len(text) + Len(line) < size,
         Len(line) < obj.max, obj.max <= size,
         NEW longer, longer = Take(Grow(Put(obj, line), Len(line)), Len(line))
  PROVE  /\ Holds(longer, text \o line, size)
         /\ longer.max = obj.max - Len(line)
         /\ longer.lenPos = obj.lenPos /\ longer.length = obj.length
<1> DEFINE grown == Grow(Put(obj, line), Len(line))
<1>0. Len(text) \in Nat /\ Len(line) \in Nat /\ obj.max \in Nat /\ text \in Seq(Letter)
  BY DEF Holds, Response
<1>1. /\ Holds(grown, text \o line, size)
      /\ grown.max = obj.max /\ grown.lenPos = obj.lenPos /\ grown.length = obj.length
  <2>1. obj.max # 0 /\ Len(text) + Len(line) < Uint16
    BY <1>0, Widths
  <2> QED
    BY <2>1, PutWrites
<1> HIDE DEF grown
<1>2. longer = Take(grown, Len(line))
  BY DEF grown
<1>3. (grown.max - Len(line)) % Uint16 = obj.max - Len(line)
  <2>1. obj.max - Len(line) \in Nat /\ obj.max - Len(line) < Uint16
    BY <1>0, Widths
  <2> QED
    BY <1>1, <2>1, Fits16
<1>4. longer = [grown EXCEPT !.max = obj.max - Len(line)] /\ obj.max - Len(line) \in Nat
  <2>1. longer = [grown EXCEPT !.max = (grown.max - Len(line)) % Uint16]
    BY <1>2 DEF Take
  <2>2. obj.max - Len(line) \in Nat
    BY <1>0
  <2> QED
    BY <1>3, <2>1, <2>2
<1> QED
  BY <1>1, <1>4 DEF Holds, Response

(* What is sent of a buffer that begins with a text is the text.           *)
LEMMA HeldIsSent ==
  ASSUME NEW size \in Nat, NEW text, NEW obj, Holds(obj, text, size), obj.max # 0
  PROVE  ~obj.past /\ RspSent(obj) = text
<1>1. text \in Seq(Letter) /\ Len(text) \in Nat /\ obj.len = Len(text) /\ Len(text) <= Len(obj.buf)
      /\ obj.buf \in Seq(Letter) /\ ~obj.past
  BY DEF Holds, Response
<1>2. RspSent(obj) = SubSeq(obj.buf, 1, Len(text))
  BY <1>1 DEF RspSent
<1>3. /\ SubSeq(obj.buf, 1, Len(text)) \in Seq(Letter) /\ Len(SubSeq(obj.buf, 1, Len(text))) = Len(text)
      /\ \A i \in 1 .. Len(text) : SubSeq(obj.buf, 1, Len(text))[i] = obj.buf[i]
  BY <1>1, SubSeqProperties
<1>4. \A i \in 1 .. Len(text) : SubSeq(obj.buf, 1, Len(text))[i] = text[i]
  BY <1>3 DEF Holds
<1> QED
  BY <1>1, <1>2, <1>3, <1>4, SeqEqual

(* An object that has created a text can create the next one.              *)
LEMMA HeldIsReady ==
  ASSUME NEW size \in Nat, size < Uint16, NEW text, NEW obj, Holds(obj, text, size),
         NEW space, obj.max = space, space <= size
  PROVE  Ready(obj, size, space)
BY DEF Holds, Ready, Response

(* The status line, the type and the length, and the place of the digits.  *)
LEMMA Heads ==
  ASSUME NEW before, NEW size \in Nat, NEW space, Ready(before, size, space),
         3 * StatusLine + 2 * TypeLine + LengthLine + 2 < space, NEW n \in Nat,
         NEW obj, obj = RspAddLength(RspAddType(RspStart(before)), n)
  PROVE  /\ Holds(obj, LongHead, size)
         /\ Len(LongHead) = StatusLine + TypeLine + LengthLine
         /\ obj.max = space - (3 * StatusLine + 2 * TypeLine + LengthLine)
         /\ obj.lenPos = StatusLine + TypeLine + LengthLine - 2
         /\ obj.length = n
<1>0. space \in Nat /\ space <= size /\ size < Uint16
  BY DEF Ready
<1> DEFINE started == RspStart(before)
           typed == AddLine(started, TypeText)
           sized == AddLine(typed, LengthText)
           long == StatusLine + TypeLine + LengthLine
<1>1. Holds(started, Status, size) /\ started.max = space - StatusLine
  <2>1. StatusLine < space
    BY <1>0, Widths
  <2> QED
    BY <2>1, Started DEF Status
<1> HIDE DEF started
<1>2. Len(Status) + Len(TypeText) = StatusLine + TypeLine
  BY Lines
<1>3. /\ Holds(typed, Status \o TypeText, size)
      /\ typed.max = (space - StatusLine) - (StatusLine + TypeLine)
  <2>1. /\ Len(Status) + Len(TypeText) < size /\ Len(TypeText) < started.max
        /\ Len(Status) + Len(TypeText) <= started.max /\ started.max <= size
    BY <1>0, <1>1, <1>2, Lines, Widths
  <2>2. /\ Holds(typed, Status \o TypeText, size)
        /\ typed.max = started.max - (Len(Status) + Len(TypeText))
    <3> HIDE DEF typed
    <3>1. typed = AddLine(started, TypeText)
      BY DEF typed
    <3>2. TypeText \in Seq(Letter) /\ Holds(started, Status, size)
      BY <1>1, Lines
    <3> QED
      BY <1>0, <2>1, <3>1, <3>2, Added
  <2> QED
    BY <1>1, <1>2, <2>2
<1> HIDE DEF typed
<1>4. Len(Status \o TypeText) = StatusLine + TypeLine
  BY <1>2, Lines, ConcatProperties
<1>5. Len(Status \o TypeText) + Len(LengthText) = long
  BY <1>4, Lines, Widths
<1>6. /\ Holds(sized, LongHead, size)
      /\ sized.max = typed.max - long
  <2>1. /\ long < size /\ LengthLine < typed.max
        /\ long <= typed.max /\ typed.max <= size
    BY <1>0, <1>3, Widths
  <2> HIDE DEF sized, long
  <2>2. sized = AddLine(typed, LengthText)
    BY DEF sized
  <2>3. /\ Len(Status \o TypeText) + Len(LengthText) < size /\ Len(LengthText) < typed.max
        /\ Len(Status \o TypeText) + Len(LengthText) <= typed.max
    BY <1>5, <2>1, Lines
  <2>4. LengthText \in Seq(Letter) /\ Holds(typed, Status \o TypeText, size)
    BY <1>3, Lines
  <2>5. /\ Holds(sized, (Status \o TypeText) \o LengthText, size)
        /\ sized.max = typed.max - (Len(Status \o TypeText) + Len(LengthText))
    <3> DEFINE prefix == Status \o TypeText
    <3>1. /\ Holds(typed, prefix, size) /\ Len(prefix) + Len(LengthText) < size
          /\ Len(prefix) + Len(LengthText) <= typed.max
      BY <2>3, <2>4
    <3> HIDE DEF prefix
    <3>2. /\ Holds(sized, prefix \o LengthText, size)
          /\ sized.max = typed.max - (Len(prefix) + Len(LengthText))
      BY <1>0, <2>1, <2>2, <2>3, <2>4, <3>1, Added
    <3> QED
      BY <3>2 DEF prefix
  <2> QED
    BY <1>5, <2>5 DEF LongHead
<1>7. Len(LongHead) = long
  <2>1. Status \o TypeText \in Seq(Letter)
    BY Lines, ConcatProperties
  <2> QED
    BY <1>5, <2>1, Lines, ConcatProperties DEF LongHead
<1>8. obj = [sized EXCEPT !.lenPos = (sized.len - 2) % Uint16, !.length = n]
  <2>1. typed.max # 0
    BY <1>0, <1>3, Widths
  <2>2. typed = RspAddType(started)
    BY DEF RspAddType, typed, TypeText
  <2> QED
    BY <2>1, <2>2 DEF RspAddLength, LengthText, started
<1> HIDE DEF sized
<1>9. sized.len = long
  BY <1>6, <1>7 DEF Holds
<1>10. long - 2 \in Nat /\ typed.max - long = space - (3 * StatusLine + 2 * TypeLine + LengthLine)
  BY <1>0, <1>3, Widths
<1>11. obj = [sized EXCEPT !.lenPos = long - 2, !.length = n]
  <2>1. long <= size
    BY <1>6, <1>7 DEF Holds
  <2>2. (long - 2) % Uint16 = long - 2
    <3>1. long - 2 \in Nat /\ long \in Nat
      BY <1>10, Widths
    <3> HIDE DEF long
    <3>2. long - 2 < Uint16
      BY <1>0, <2>1, <3>1, Widths
    <3> QED
      BY <3>1, <3>2, Fits16
  <2> HIDE DEF long
  <2> QED
    BY <1>8, <1>9, <2>2
<1> HIDE DEF long
<1>12. /\ Holds(obj, LongHead, size) /\ obj.max = sized.max
       /\ obj.lenPos = long - 2 /\ obj.length = n
  BY <1>6, <1>10, <1>11 DEF Holds, Response
<1>13. obj.max = space - (3 * StatusLine + 2 * TypeLine + LengthLine)
  BY <1>6, <1>10, <1>12
<1>14. obj.lenPos = StatusLine + TypeLine + LengthLine - 2
  BY <1>12, Widths DEF long
<1>15. Len(LongHead) = StatusLine + TypeLine + LengthLine
  BY <1>7 DEF long
<1> QED
  BY <1>12, <1>13, <1>14, <1>15

(* A response without data (start, end): if the room holds the two lines,  *)
(* they are what is sent, nothing is written beyond the buffer, and only   *)
(* they are taken from the room - for any length of the lines, and         *)
(* whatever the response before left (src/Hap/HapHttp.h, class Response).  *)
THEOREM BareResponsesAreWhole ==
  ASSUME NEW before, NEW size \in Nat, NEW space, Ready(before, size, space), StatusLine + 2 < space
  PROVE  /\ Ready(Bare(before), size, space - (StatusLine + 2))
         /\ RspSent(Bare(before)) = Status \o Text("r", 2)
<1> DEFINE started == RspStart(before)
           obj == Bare(before)
           line == Text("r", 2)
<1>0. space \in Nat /\ space <= size /\ size < Uint16
  BY DEF Ready
<1>1. Holds(started, Status, size) /\ started.max = space - StatusLine
  <2>1. StatusLine < space
    BY <1>0, Widths
  <2> QED
    BY <2>1, Started DEF Status
<1>2. line \in Seq(Letter) /\ Len(line) = 2 /\ Len(Status) = StatusLine
  BY Lines
<1>3. obj = Take(Grow(Put(started, line), Len(line)), Len(line))
  <2>1. started.max # 0
    BY <1>0, <1>1, Widths
  <2>2. obj = RspEnd(started)
    BY DEF Bare
  <2> HIDE DEF started, obj
  <2> QED
    BY <1>2, <2>1, <2>2 DEF RspEnd
<1> HIDE DEF started
<1> HIDE DEF obj, line
<1>4. Holds(obj, Status \o line, size) /\ obj.max = started.max - 2
  <2>1. Len(Status) + Len(line) < size /\ Len(line) < started.max /\ started.max <= size
    BY <1>0, <1>1, <1>2, Widths
  <2>2. /\ Holds(obj, Status \o line, size)
        /\ obj.max = started.max - Len(line)
    <3>1. Holds(started, Status, size) /\ line \in Seq(Letter)
      BY <1>1, <1>2
    <3> QED
      BY <1>0, <1>3, <2>1, <3>1, Ended
  <2> QED
    BY <1>2, <2>2
<1>5. obj.max = space - (StatusLine + 2) /\ obj.max # 0
  BY <1>0, <1>1, <1>4, Widths
<1>6. ~obj.past /\ RspSent(obj) = Status \o line
  BY <1>4, <1>5, HeldIsSent
<1>7. Ready(obj, size, space - (StatusLine + 2))
  BY <1>0, <1>4, <1>5, HeldIsReady, Widths
<1> QED
  BY <1>6, <1>7 DEF obj, line

(* A response with a text (start, add of both headers, end): the lines, the*)
(* text whole, and its length, whenever the room is enough for what add    *)
(* takes twice.                                                            *)
THEOREM TextResponsesAreWhole ==
  ASSUME NEW before, NEW size \in Nat, NEW space, Ready(before, size, space), NEW n \in Nat,
         3 * StatusLine + 2 * TypeLine + LengthLine + 2 + n < space
  PROVE  /\ Ready(WithText(before, n), size,
                  space - (3 * StatusLine + 2 * TypeLine + LengthLine + 2 + n))
         /\ WithText(before, n).length = n
         /\ RspSent(WithText(before, n)) = LongHead \o (Text("r", 2) \o Text("d", n))
<1> DEFINE typed == RspAddType(RspStart(before))
           sized == RspAddLength(typed, n)
           obj == WithText(before, n)
           line == Text("r", 2) \o Text("d", n)
<1>0. space \in Nat /\ space <= size /\ size < Uint16
  BY DEF Ready
<1>1. /\ Holds(sized, LongHead, size)
      /\ Len(LongHead) = StatusLine + TypeLine + LengthLine
      /\ sized.max = space - (3 * StatusLine + 2 * TypeLine + LengthLine)
      /\ sized.length = n
  <2>1. 3 * StatusLine + 2 * TypeLine + LengthLine + 2 < space
    BY <1>0, Widths
  <2> QED
    BY <2>1, Heads
<1>2. line \in Seq(Letter) /\ Len(line) = 2 + n
  <2> DEFINE empty == Text("r", 2)
             data == Text("d", n)
             two == 2
  <2>1. empty \in Seq(Letter) /\ Len(empty) = two /\ data \in Seq(Letter) /\ Len(data) = n
    BY Lines
  <2>2. two \in Nat
    OBVIOUS
  <2> HIDE DEF empty, data, two
  <2>3. empty \o data \in Seq(Letter) /\ Len(empty \o data) = two + n
    BY <2>1, <2>2, LettersJoined
  <2> QED
    BY <2>3 DEF empty, data, two
<1>3. sized.max # 0 /\ Len(line) < sized.max /\ sized.max <= size /\ Len(LongHead) + Len(line) < size
  BY <1>0, <1>1, <1>2, Widths
<1>4. typed.max # 0
  <2>1. SUFFICES ASSUME typed.max = 0 PROVE FALSE
    OBVIOUS
  <2> HIDE DEF typed
  <2>2. typed = sized /\ sized = AddLine(typed, LengthText)
    BY <2>1 DEF RspAddLength, AddLine, LengthText
  <2> QED
    BY <1>3, <2>1, <2>2
<1>5. obj = Take(Grow(Put(sized, line), Len(line)), Len(line))
  <2>1. obj = RspEndText(typed, n)
    BY DEF WithText
  <2> HIDE DEF typed, obj
  <2> QED
    BY <1>3, <1>4, <2>1 DEF RspEndText
<1> HIDE DEF obj, line, sized
<1>6. Holds(obj, LongHead \o line, size) /\ obj.length = n /\ obj.max = sized.max - Len(line)
  BY <1>0, <1>1, <1>2, <1>3, <1>5, Ended
<1>7. /\ obj.max = space - (3 * StatusLine + 2 * TypeLine + LengthLine + 2 + n)
      /\ obj.max # 0 /\ obj.max <= size
  BY <1>0, <1>1, <1>2, <1>6, Widths
<1>8. ~obj.past /\ RspSent(obj) = LongHead \o line
  BY <1>6, <1>7, HeldIsSent
<1>9. Ready(obj, size, space - (3 * StatusLine + 2 * TypeLine + LengthLine + 2 + n))
  BY <1>0, <1>6, <1>7, HeldIsReady
<1> QED
  BY <1>6, <1>8, <1>9 DEF obj, line

(* Writing again what is there changes nothing.                            *)
LEMMA Rewritten ==
  ASSUME NEW size \in Nat, NEW text, NEW obj, Holds(obj, text, size),
         NEW at \in Nat, NEW again \in Seq(Letter), at + Len(again) <= Len(text),
         \A i \in 1 .. Len(again) : text[at + i] = again[i]
  PROVE  /\ Holds(Write(obj, at, again), text, size)
         /\ Write(obj, at, again).length = obj.length
         /\ Write(obj, at, again).lenPos = obj.lenPos
         /\ Write(obj, at, again).max = obj.max
<1> DEFINE w == Write(obj, at, again)
           b == [i \in 1 .. size |-> IF i - at \in 1 .. Len(again) THEN again[i - at] ELSE obj.buf[i]]
<1>0. Len(text) \in Nat /\ Len(again) \in Nat /\ Len(text) <= size
  BY DEF Holds
<1>1. DOMAIN obj.buf = 1 .. size /\ DOMAIN again = 1 .. Len(again) /\ Len(obj.buf) = size
  BY DEF Holds
<1>2. ~(obj.past \/ at + Len(again) > size)
  BY <1>0 DEF Holds
<1>3. w = [obj EXCEPT !.buf = b, !.past = obj.past \/ at + Len(again) > size]
  BY <1>1 DEF Write
<1>4. b \in [1 .. size -> Letter]
  BY <1>0 DEF Holds
<1>5. b \in Seq(Letter) /\ Len(b) = size
  BY <1>4
<1>6. ASSUME NEW i \in 1 .. Len(text) PROVE b[i] = text[i]
  <2>1. i \in 1 .. size /\ b[i] = IF i - at \in 1 .. Len(again) THEN again[i - at] ELSE obj.buf[i]
    BY <1>0
  <2>2. CASE i - at \in 1 .. Len(again)
    <3>1. text[at + (i - at)] = again[i - at] /\ at + (i - at) = i
      BY <2>2
    <3> QED
      BY <2>1, <2>2, <3>1
  <2>3. CASE i - at \notin 1 .. Len(again)
    BY <2>1, <2>3 DEF Holds
  <2> QED
    BY <2>2, <2>3
<1> HIDE DEF b
<1>7. w = [obj EXCEPT !.buf = b, !.past = FALSE]
  BY <1>2, <1>3
<1> HIDE DEF w
<1>8. w \in Response /\ w.buf = b /\ w.len = obj.len /\ w.past = FALSE
      /\ w.length = obj.length /\ w.lenPos = obj.lenPos /\ w.max = obj.max
  BY <1>5, <1>7 DEF Response, Holds
<1>9. Holds(w, text, size)
  BY <1>4, <1>5, <1>6, <1>8 DEF Holds
<1> QED
  BY <1>8, <1>9 DEF w

(* What a creator writes behind the headers, before its length is known.   *)
LEMMA FilledIn ==
  ASSUME NEW size \in Nat, size < Uint16, NEW text, NEW obj, Holds(obj, text, size),
         NEW data \in Seq(Letter), Len(text) + Len(data) <= size,
         NEW at \in Nat, obj.lenPos - 4 = at, obj.lenPos # 0, at + 4 <= Len(text),
         \A i \in 1 .. 4 : text[at + i] = "n",
         NEW filled, filled = SetContentLength(Write(obj, obj.len, data), Len(data))
  PROVE  /\ Holds(filled, text \o data, size) /\ filled.length = Len(data)
         /\ filled.max = obj.max
<1> DEFINE w == Write(obj, obj.len, data)
           digits == Text("n", 4)
           v == Write(w, at, digits)
           m == Len(data)
<1>0. Len(text) \in Nat /\ m \in Nat /\ text \in Seq(Letter) /\ obj.len = Len(text) /\ obj.max \in Nat
  BY DEF Holds, Response
<1>1. /\ w \in Response /\ w.buf \in [1 .. size -> Letter] /\ ~w.past /\ w.len = Len(text)
      /\ w.max = obj.max /\ w.lenPos = obj.lenPos
      /\ \A i \in 1 .. Len(text) + m : w.buf[i] = (text \o data)[i]
  BY <1>0, Written
<1>2. digits \in Seq(Letter) /\ Len(digits) = 4 /\ \A i \in 1 .. 4 : digits[i] = "n"
  <2>1. "n" \in Letter
    BY DEF Letter
  <2> QED
    BY <2>1, TextIs
<1>3. /\ text \o data \in Seq(Letter) /\ Len(text \o data) = Len(text) + m
      /\ \A i \in 1 .. Len(text) : (text \o data)[i] = text[i]
  BY <1>0, LettersJoined
<1> HIDE DEF w, digits, m
<1>4. filled = Grow([v EXCEPT !.length = m], m)
  BY <1>1 DEF SetContentLength, w, digits, m
<1> DEFINE u == [w EXCEPT !.len = Len(text) + m]
<1>5. /\ Holds(u, text \o data, size) /\ u.buf = w.buf /\ u.past = w.past
      /\ u.max = w.max /\ u.lenPos = w.lenPos /\ u.length = w.length
  <2>1. Len(w.buf) = size
    BY <1>1
  <2>2. Len(text) + m \in Nat /\ Len(text) + m <= size
    BY <1>0 DEF m
  <2> DEFINE sum == Len(text) + m
  <2> HIDE DEF sum
  <2>3. u = [w EXCEPT !.len = sum] /\ sum \in Nat
    BY <2>2 DEF sum
  <2> HIDE DEF u
  <2>4. u \in Response /\ u.len = sum /\ u.buf = w.buf /\ u.past = w.past
        /\ u.max = w.max /\ u.lenPos = w.lenPos /\ u.length = w.length
    BY <1>1, <2>3 DEF Response
  <2>5. sum = Len(text \o data) /\ sum <= size
    BY <1>3, <2>2 DEF sum
  <2>6. \A i \in 1 .. Len(text \o data) : u.buf[i] = (text \o data)[i]
    BY <1>1, <1>3, <2>4
  <2> HIDE DEF Letter
  <2> QED
    BY <1>1, <1>3, <2>1, <2>4, <2>5, <2>6 DEF Holds
<1> HIDE DEF u
<1>6. /\ Holds(Write(u, at, digits), text \o data, size)
      /\ Write(u, at, digits).max = u.max
  <2>1. at + Len(digits) <= Len(text \o data)
    BY <1>0, <1>2, <1>3 DEF m
  <2>2. ASSUME NEW i \in 1 .. Len(digits) PROVE (text \o data)[at + i] = digits[i]
    <3>1. i \in 1 .. 4 /\ at + i \in 1 .. Len(text)
      BY <1>0, <1>2
    <3> QED
      BY <1>2, <1>3, <3>1
  <2> DEFINE both == text \o data
             rewritten == Write(u, at, digits)
  <2>3. Holds(u, both, size) /\ digits \in Seq(Letter)
    BY <1>2, <1>5
  <2>4. at + Len(digits) <= Len(both) /\ \A i \in 1 .. Len(digits) : both[at + i] = digits[i]
    BY <2>1, <2>2
  <2> HIDE DEF both
  <2>5. Holds(rewritten, both, size) /\ rewritten.max = u.max
    BY <2>3, <2>4, Rewritten
  <2> QED
    BY <2>5 DEF both
<1>7. filled = [Write(u, at, digits) EXCEPT !.length = m]
  <2> DEFINE b == [i \in DOMAIN w.buf |-> IF i - at \in DOMAIN digits THEN digits[i - at] ELSE w.buf[i]]
             p == w.past \/ at + Len(digits) > Len(w.buf)
             sum == Len(text) + m
  <2>1. v = [w EXCEPT !.buf = b, !.past = p]
    BY DEF Write
  <2>2. Write(u, at, digits) = [u EXCEPT !.buf = b, !.past = p]
    BY <1>5 DEF Write
  <2>3. sum % Uint16 = sum
    <3>1. sum \in Nat /\ sum < Uint16
      BY <1>0, Widths DEF m
    <3> QED
      BY <3>1, Fits16
  <2> HIDE DEF b, p, sum, v
  <2>4. u = [w EXCEPT !.len = sum]
    BY DEF u, sum
  <2>5. filled = [[v EXCEPT !.length = m] EXCEPT !.len = (w.len + m) % Uint16]
    BY <1>1, <1>4, <2>1 DEF Grow, Response
  <2>6. (w.len + m) % Uint16 = sum
    BY <1>1, <2>3 DEF sum
  <2> QED
    BY <1>1, <2>1, <2>2, <2>4, <2>5, <2>6 DEF Response
<1>8. Holds(filled, text \o data, size) /\ filled.length = m
      /\ filled.max = Write(u, at, digits).max
  BY <1>0, <1>6, <1>7 DEF Holds, Response
<1> QED
  BY <1>1, <1>5, <1>6, <1>8 DEF m

(* A response whose data a creator wrote behind the headers, in the room   *)
(* that size() told it, before setContentLength puts the digits in front of*)
(* _len_pos: the lines, the data whole, and its length.  _len_pos is that of*)
(* this response, whatever the response before left.                       *)
THEOREM FilledResponsesAreWhole ==
  ASSUME NEW before, NEW size \in Nat, NEW space, Ready(before, size, space),
         3 * StatusLine + 2 * TypeLine + LengthLine + 2 < space, NEW n \in Nat,
         n <= Headed(before).max
  PROVE  /\ Ready(FillIn(Headed(before), n), size,
                  space - (3 * StatusLine + 2 * TypeLine + LengthLine + 2))
         /\ FillIn(Headed(before), n).length = n
         /\ RspSent(FillIn(Headed(before), n)) = (LongHead \o Text("r", 2)) \o Text("d", n)
<1> DEFINE sized == RspAddLength(RspAddType(RspStart(before)), 0)
           headed == Headed(before)
           line == Text("r", 2)
           data == Text("d", n)
           obj == FillIn(headed, n)
           long == StatusLine + TypeLine + LengthLine
<1>0. space \in Nat /\ space <= size /\ size < Uint16
  BY DEF Ready
<1>1. /\ Holds(sized, LongHead, size) /\ Len(LongHead) = long
      /\ sized.max = space - (3 * StatusLine + 2 * TypeLine + LengthLine)
      /\ sized.lenPos = long - 2
  BY <1>0, Heads, Widths
<1>2. /\ line \in Seq(Letter) /\ Len(line) = 2 /\ data \in Seq(Letter) /\ Len(data) = n
  BY Lines
<1>3. headed = Take(Grow(Put(sized, line), Len(line)), Len(line))
  <2>1. sized.max # 0
    BY <1>0, <1>1, Widths
  <2>2. headed = RspEnd(sized)
    BY DEF Headed
  <2> HIDE DEF sized, headed
  <2> QED
    BY <1>2, <2>1, <2>2 DEF RspEnd
<1> HIDE DEF sized, line, data
<1>4. n <= headed.max
  BY DEF sized
<1> HIDE DEF headed
<1>5. /\ Holds(headed, LongHead \o line, size) /\ headed.max = sized.max - 2
      /\ headed.lenPos = long - 2
  <2>1. Len(LongHead) + Len(line) < size /\ Len(line) < sized.max /\ sized.max <= size
    BY <1>0, <1>1, <1>2, Widths
  <2> HIDE DEF long
  <2>2. /\ Holds(headed, LongHead \o line, size) /\ headed.max = sized.max - Len(line)
        /\ headed.lenPos = sized.lenPos
    <3>1. Holds(sized, LongHead, size) /\ line \in Seq(Letter)
      BY <1>1, <1>2
    <3> QED
      BY <1>0, <1>3, <2>1, <3>1, Ended
  <2> QED
    BY <1>1, <1>2, <2>2
<1>6. Len(LongHead \o line) = long + 2
  <2>1. LongHead \in Seq(Letter)
    BY <1>1 DEF Holds
  <2> DEFINE two == 2
  <2>2. long \in Nat /\ two \in Nat /\ line \in Seq(Letter) /\ Len(line) = two /\ Len(LongHead) = long
    BY <1>0, <1>1, <1>2, Widths
  <2> HIDE DEF two, long
  <2>3. Len(LongHead \o line) = long + two
    BY <2>1, <2>2, LettersJoined
  <2> QED
    BY <2>3 DEF two
<1>7. \A i \in 1 .. 4 : (LongHead \o line)[(long - 6) + i] = "n"
  <2> SUFFICES ASSUME NEW i \in 1 .. 4 PROVE (LongHead \o line)[(long - 6) + i] = "n"
    OBVIOUS
  <2> DEFINE two == 2
             k == StatusLine + TypeLine
             j == (LengthLine - 6) + i
             prefix == Status \o TypeText
  <2>1. j \in 1 .. LengthLine /\ LengthText[j] = "n" /\ LengthLine \in Nat /\ k \in Nat /\ two \in Nat
    <3>1. j \in LengthLine - 5 .. LengthLine - 2 /\ j \in 1 .. LengthLine
      BY Widths
    <3> QED
      BY <3>1, Lines, Widths
  <2>2. (long - 6) + i = k + j /\ k + j \in 1 .. long /\ long \in Nat
    BY Widths
  <2>3. prefix \in Seq(Letter) /\ Len(prefix) = k
    <3>1. Status \in Seq(Letter) /\ TypeText \in Seq(Letter)
          /\ Len(Status) = StatusLine /\ Len(TypeText) = TypeLine
      BY Lines
    <3> QED
      BY <3>1, ConcatProperties
  <2>4. LengthText \in Seq(Letter) /\ Len(LengthText) = LengthLine
    BY Lines
  <2> HIDE DEF two, k, j, prefix
  <2>5. (prefix \o LengthText)[k + j] = LengthText[j]
    <3>1. j \in 1 .. Len(LengthText)
      BY <2>1, <2>4
    <3> HIDE DEF Letter
    <3> QED
      BY <2>1, <2>3, <2>4, <3>1, LettersJoinedRight
  <2>6. LongHead = prefix \o LengthText
    BY DEF LongHead, prefix
  <2>7. LongHead \in Seq(Letter) /\ line \in Seq(Letter) /\ Len(LongHead) = long /\ Len(line) = two
    BY <1>1, <1>2 DEF Holds, two
  <2> HIDE DEF long
  <2>8. (LongHead \o line)[k + j] = LongHead[k + j]
    BY <2>1, <2>2, <2>7, LettersJoined
  <2> QED
    BY <2>1, <2>2, <2>5, <2>6, <2>8
<1>8. /\ Holds(obj, (LongHead \o line) \o data, size) /\ obj.length = n
      /\ obj.max = headed.max
  <2> DEFINE head == LongHead \o line
             at == long - 6
  <2>1. /\ Len(head) + Len(data) <= size
        /\ at \in Nat /\ headed.lenPos - 4 = at /\ headed.lenPos # 0 /\ at + 4 <= Len(head)
    BY <1>0, <1>1, <1>2, <1>4, <1>5, <1>6, Widths
  <2>2. Holds(headed, head, size) /\ \A i \in 1 .. 4 : head[at + i] = "n"
    BY <1>5, <1>7
  <2>3. obj = SetContentLength(Write(headed, headed.len, data), Len(data))
    BY <1>2 DEF FillIn, data
  <2> HIDE DEF head, at, obj, long
  <2>4. Holds(obj, head \o data, size) /\ obj.length = Len(data) /\ obj.max = headed.max
    <3>1. obj = SetContentLength(Write(headed, headed.len, data), Len(data)) /\ data \in Seq(Letter)
      BY <1>2, <2>3
    <3> QED
      BY <1>0, <2>1, <2>2, <3>1, FilledIn
  <2> QED
    BY <1>2, <2>4 DEF head
<1> HIDE DEF obj
<1>9. /\ obj.max = space - (3 * StatusLine + 2 * TypeLine + LengthLine + 2)
      /\ obj.max # 0 /\ obj.max <= size
  BY <1>0, <1>1, <1>5, <1>8, Widths
<1>10. ~obj.past /\ RspSent(obj) = (LongHead \o line) \o data
  BY <1>8, <1>9, HeldIsSent
<1>11. Ready(obj, size, space - (3 * StatusLine + 2 * TypeLine + LengthLine + 2))
  BY <1>0, <1>8, <1>9, HeldIsReady
<1> QED
  BY <1>8, <1>10, <1>11 DEF obj, headed, line, data

(* Whatever the lengths, the object stays one.                             *)
LEMMA WriteTyped ==
  ASSUME NEW obj \in Response, NEW at \in Int, NEW text \in Seq(Letter)
  PROVE  Write(obj, at, text) \in Response
<1> DEFINE b == [i \in DOMAIN obj.buf |-> IF i - at \in DOMAIN text THEN text[i - at] ELSE obj.buf[i]]
           p == obj.past \/ at + Len(text) > Len(obj.buf)
<1>1. obj.buf \in Seq(Letter)
  BY DEF Response
<1>2. b \in Seq(Letter)
  <2> DEFINE m == Len(obj.buf)
  <2>1. m \in Nat /\ DOMAIN obj.buf = 1 .. m
    BY <1>1
  <2>2. \A i \in 1 .. m : (IF i - at \in DOMAIN text THEN text[i - at] ELSE obj.buf[i]) \in Letter
    BY <1>1, <2>1
  <2> HIDE DEF m, Letter
  <2>3. b \in [1 .. m -> Letter]
    BY <2>1, <2>2
  <2> QED
    BY <2>1, <2>3
<1>3. Write(obj, at, text) = [obj EXCEPT !.buf = b, !.past = p] /\ p \in BOOLEAN
  BY DEF Write
<1> HIDE DEF b, p
<1> QED
  BY <1>2, <1>3 DEF Response

(* snprintf leaves an object.                                            *)
LEMMA PutTyped ==
  ASSUME NEW obj \in Response, NEW line \in Seq(Letter)
  PROVE  Put(obj, line) \in Response
<1> DEFINE kept == IF Len(line) < obj.max THEN line ELSE SubSeq(line, 1, obj.max - 1)
<1>1. obj.max \in Nat /\ obj.len \in Int
  BY DEF Response
<1>2. CASE obj.max = 0
  BY <1>2 DEF Put
<1>3. CASE obj.max # 0
  <2>1. kept \in Seq(Letter)
    <3>1. CASE Len(line) < obj.max
      BY <3>1
    <3>2. CASE ~(Len(line) < obj.max)
      <4>1. SubSeq(line, 1, obj.max - 1) \in Seq(Letter)
        BY <1>1, <1>3, <3>2
      <4> QED
        BY <3>2, <4>1
    <3> QED
      BY <3>1, <3>2
  <2> HIDE DEF kept
  <2>2. Append(kept, "0") \in Seq(Letter)
    <3>1. "0" \in Letter
      BY DEF Letter
    <3> HIDE DEF Letter
    <3> QED
      BY <2>1, <3>1
  <2>3. Put(obj, line) = Write(obj, obj.len, Append(kept, "0"))
    BY <1>3 DEF Put, kept
  <2> QED
    BY <1>1, <2>2, <2>3, WriteTyped
<1> QED
  BY <1>2, <1>3

(* So does the arithmetic of 16 bits,                                    *)
LEMMA CountsTyped ==
  ASSUME NEW obj \in Response, NEW n \in Nat
  PROVE  Take(obj, n) \in Response /\ Grow(obj, n) \in Response
<1>1. obj.max - n \in Int /\ obj.len + n \in Int
  BY DEF Response
<1>2. (obj.max - n) % Uint16 \in Nat /\ (obj.len + n) % Uint16 \in Nat
  BY <1>1, Widths
<1> QED
  BY <1>2 DEF Take, Grow, Response

(* a header,                                                             *)
LEMMA AddTyped ==
  ASSUME NEW obj \in Response, NEW line \in Seq(Letter)
  PROVE  AddLine(obj, line) \in Response
<1> DEFINE grown == Grow(Put(obj, line), Len(line))
<1>1. grown \in Response /\ grown.len \in Nat
  <2>1. grown \in Response
    BY PutTyped, CountsTyped
  <2> QED
    BY <2>1 DEF Response
<1> HIDE DEF grown
<1>2. Take(grown, grown.len) \in Response
  BY <1>1, CountsTyped
<1> QED
  BY <1>2 DEF AddLine, grown

(* an end,                                                               *)
LEMMA EndTyped ==
  ASSUME NEW obj \in Response, NEW line \in Seq(Letter)
  PROVE  Take(Grow(Put(obj, line), Len(line)), Len(line)) \in Response
<1>1. Put(obj, line) \in Response /\ Len(line) \in Nat
  BY PutTyped
<1>2. Grow(Put(obj, line), Len(line)) \in Response
  BY <1>1, CountsTyped
<1> QED
  BY <1>1, <1>2, CountsTyped

(* a beginning,                                                          *)
LEMMA StartTyped ==
  ASSUME NEW obj \in Response
  PROVE  RspStart(obj) \in Response /\ RspAddType(RspStart(obj)) \in Response
<1>1. [obj EXCEPT !.len = 0] \in Response
  BY DEF Response
<1> DEFINE none == [obj EXCEPT !.len = 0]
<1> HIDE DEF none
<1>2. none \in Response
  BY <1>1 DEF none
<1>3. RspStart(obj) = Take(Grow(Put(none, Status), Len(Status)), Len(Status))
  BY Lines DEF RspStart, Status, none
<1>4. RspStart(obj) \in Response
  BY <1>2, <1>3, Lines, EndTyped
<1>5. RspAddType(RspStart(obj)) \in Response
  BY <1>4, Lines, AddTyped DEF RspAddType, TypeText
<1> QED
  BY <1>4, <1>5

(* the header with the length,                                           *)
LEMMA LengthTyped ==
  ASSUME NEW obj \in Response, NEW n \in Nat
  PROVE  RspAddLength(obj, n) \in Response
<1> DEFINE sized == AddLine(obj, LengthText)
<1>1. sized \in Response
  BY Lines, AddTyped
<1>2. (sized.len - 2) % Uint16 \in Nat
  <2>1. sized.len - 2 \in Int
    BY <1>1 DEF Response
  <2> QED
    BY <2>1, Widths
<1>3. RspAddLength(obj, n) = IF obj.max = 0 THEN obj
                             ELSE [sized EXCEPT !.lenPos = (sized.len - 2) % Uint16, !.length = n]
  BY DEF RspAddLength, LengthText
<1> HIDE DEF sized
<1> QED
  BY <1>1, <1>2, <1>3 DEF Response

(* and each form of response.                                            *)
LEMMA FormsTyped ==
  ASSUME NEW obj \in Response, NEW n \in Nat
  PROVE  /\ Bare(obj) \in Response
         /\ WithText(obj, n) \in Response
         /\ Headed(obj) \in Response
         /\ FillIn(Headed(obj), n) \in Response
<1>1. ASSUME NEW o \in Response PROVE RspEnd(o) \in Response
  <2> DEFINE line == Text("r", 2)
  <2>1. line \in Seq(Letter) /\ Len(line) = 2
    BY Lines
  <2>2. RspEnd(o) = IF o.max = 0 THEN o ELSE Take(Grow(Put(o, line), Len(line)), Len(line))
    BY <2>1 DEF RspEnd
  <2> HIDE DEF line
  <2> QED
    BY <2>1, <2>2, EndTyped
<1>2. Bare(obj) \in Response
  BY <1>1, StartTyped DEF Bare
<1>3. WithText(obj, n) \in Response
  <2> DEFINE o == RspAddType(RspStart(obj))
             sized == RspAddLength(o, n)
             line == Text("r", 2) \o Text("d", n)
  <2>1. o \in Response
    BY StartTyped
  <2>2. sized \in Response
    BY <2>1, LengthTyped
  <2>3. line \in Seq(Letter)
    BY Lines
  <2>4. WithText(obj, n) = IF o.max = 0 \/ sized.max = 0 THEN sized
                           ELSE Take(Grow(Put(sized, line), Len(line)), Len(line))
    BY DEF WithText, RspEndText
  <2> HIDE DEF o, sized, line
  <2> QED
    BY <2>2, <2>3, <2>4, EndTyped
<1>4. Headed(obj) \in Response
  <2>1. RspAddLength(RspAddType(RspStart(obj)), 0) \in Response
    BY StartTyped, LengthTyped
  <2> QED
    BY <1>1, <2>1 DEF Headed
<1>5. ASSUME NEW o \in Response PROVE FillIn(o, n) \in Response
  <2> DEFINE w == Write(o, o.len, Text("d", n))
             d == Write(w, w.lenPos - 4, Text("n", 4))
  <2>1. w \in Response
    <3>1. o.len \in Int /\ Text("d", n) \in Seq(Letter)
      BY Lines DEF Response
    <3> QED
      BY <3>1, WriteTyped
  <2>2. d \in Response
    <3>1. w.lenPos - 4 \in Int /\ Text("n", 4) \in Seq(Letter)
      <4>1. "n" \in Letter
        BY DEF Letter
      <4>2. w.lenPos \in Nat
        BY <2>1 DEF Response
      <4> QED
        BY <4>1, <4>2, TextIs
    <3> QED
      BY <2>1, <3>1, WriteTyped
  <2>3. FillIn(o, n) = IF w.lenPos = 0 THEN w ELSE Grow([d EXCEPT !.length = n], n)
    BY DEF FillIn, SetContentLength
  <2> HIDE DEF w, d
  <2>4. [d EXCEPT !.length = n] \in Response
    BY <2>2 DEF Response
  <2> QED
    BY <2>1, <2>3, <2>4, CountsTyped
<1>6. FillIn(Headed(obj), n) \in Response
  BY <1>4, <1>5
<1> QED
  BY <1>2, <1>3, <1>4, <1>6

-----------------------------------------------------------------------------
(* The response buffer in use.                                             *)

(* What was taken from the room since the last request is missing in it.   *)
ResponseInv ==
  /\ rsp \in Response
  /\ spent \in 0 .. BufSize
  /\ spent < BufSize => Ready(rsp, BufSize, BufSize - spent)
  /\ ResponseIsWhole

(* The object holds a whole response of a form, with n characters of data. *)
WholeOf(obj, form, n) ==
  /\ ~obj.past
  /\ RspSent(obj) = HeadOf(form) \o Text("r", 2) \o Text("d", n)
  /\ form # "bare" => obj.length = n

(* What stands in front of the data, in both modules.                    *)
LEMMA HeadIs == LongHead \in Seq(Letter) /\ HeadOf("text") = LongHead /\ HeadOf("filled") = LongHead
<1>1. Status \o TypeText \in Seq(Letter)
  BY Lines, ConcatProperties
<1>2. LongHead \in Seq(Letter)
  BY <1>1, Lines, ConcatProperties DEF LongHead
<1> QED
  BY <1>2 DEF HeadOf, LongHead, LengthText, TypeText, Status

(* An answer without data is whole and takes its two lines.              *)
LEMMA BareIsWhole ==
  ASSUME NEW obj, NEW space, Ready(obj, BufSize, space), RoomFor("bare") < space
  PROVE  Ready(Bare(obj), BufSize, space - RoomFor("bare")) /\ WholeOf(Bare(obj), "bare", 0)
<1>1. BufSize \in Nat
  BY ResponsesAssumption
<1>2. RoomFor("bare") = StatusLine + 2
  BY DEF RoomFor
<1>3. /\ Ready(Bare(obj), BufSize, space - (StatusLine + 2))
      /\ RspSent(Bare(obj)) = Status \o Text("r", 2)
  BY <1>1, <1>2, BareResponsesAreWhole
<1>4. (Status \o Text("r", 2)) \o Text("d", 0) = Status \o Text("r", 2)
  <2> DEFINE first == Status \o Text("r", 2)
  <2>1. first \in Seq(Letter)
    BY Lines, ConcatProperties
  <2>2. Text("d", 0) = <<>>
    BY EmptySeq, Lines DEF Text
  <2> HIDE DEF first
  <2>3. first \o <<>> = first
    BY <2>1, ConcatEmptySeq
  <2> QED
    BY <2>2, <2>3 DEF first
<1>5. ~Bare(obj).past
  BY <1>3 DEF Ready
<1>6. HeadOf("bare") = Status
  BY DEF HeadOf, Status
<1> QED
  BY <1>2, <1>3, <1>4, <1>5, <1>6 DEF WholeOf

(* A text,                                                               *)
LEMMA TextIsWhole ==
  ASSUME NEW obj, NEW space, Ready(obj, BufSize, space), NEW n \in Nat, RoomFor("text") + n < space
  PROVE  /\ Ready(WithText(obj, n), BufSize, space - (RoomFor("text") + n))
         /\ WholeOf(WithText(obj, n), "text", n)
<1>1. BufSize \in Nat
  BY ResponsesAssumption
<1>2. RoomFor("text") + n = 3 * StatusLine + 2 * TypeLine + LengthLine + 2 + n
  BY DEF RoomFor
<1>3. /\ Ready(WithText(obj, n), BufSize, space - (RoomFor("text") + n))
      /\ WithText(obj, n).length = n
      /\ RspSent(WithText(obj, n)) = LongHead \o (Text("r", 2) \o Text("d", n))
  BY <1>1, <1>2, TextResponsesAreWhole
<1>4. LongHead \o (Text("r", 2) \o Text("d", n)) = (LongHead \o Text("r", 2)) \o Text("d", n)
  <2> DEFINE empty == Text("r", 2)
             data == Text("d", n)
  <2>1. empty \in Seq(Letter) /\ data \in Seq(Letter) /\ LongHead \in Seq(Letter)
    BY Lines, HeadIs
  <2> HIDE DEF empty, data, Letter
  <2>2. LongHead \o (empty \o data) = (LongHead \o empty) \o data
    BY <2>1, ConcatAssociative
  <2> QED
    BY <2>2 DEF empty, data
<1>5. ~WithText(obj, n).past
  BY <1>3 DEF Ready
<1> QED
  BY <1>3, <1>4, <1>5, HeadIs DEF WholeOf

(* and data behind the headers.                                          *)
LEMMA FilledIsWhole ==
  ASSUME NEW obj, NEW space, Ready(obj, BufSize, space), RoomFor("filled") < space,
         NEW n \in Nat, n <= Headed(obj).max
  PROVE  /\ Ready(FillIn(Headed(obj), n), BufSize, space - RoomFor("filled"))
         /\ WholeOf(FillIn(Headed(obj), n), "filled", n)
<1>1. BufSize \in Nat
  BY ResponsesAssumption
<1>2. RoomFor("filled") = 3 * StatusLine + 2 * TypeLine + LengthLine + 2
  BY DEF RoomFor
<1>3. /\ Ready(FillIn(Headed(obj), n), BufSize, space - RoomFor("filled"))
      /\ FillIn(Headed(obj), n).length = n
      /\ RspSent(FillIn(Headed(obj), n)) = (LongHead \o Text("r", 2)) \o Text("d", n)
  BY <1>1, <1>2, FilledResponsesAreWhole
<1>4. ~FillIn(Headed(obj), n).past
  BY <1>3 DEF Ready
<1> QED
  BY <1>3, <1>4, HeadIs DEF WholeOf

(* At first there is no room at all.                                     *)
LEMMA ResponseStart == ResponseInit => ResponseInv
<1> SUFFICES ASSUME ResponseInit PROVE ResponseInv
  OBVIOUS
<1>1. BufSize \in Nat /\ spent = BufSize /\ rsp = RspNew
  BY ResponsesAssumption DEF ResponseInit
<1>2. RspNew \in Response
  <2>1. <<>> \in Seq(Letter)
    OBVIOUS
  <2> HIDE DEF Letter
  <2> QED
    BY <2>1 DEF RspNew, Response
<1> QED
  BY <1>1, <1>2 DEF ResponseInv, ResponseIsWhole

(* An answer begins with the whole buffer, an event with what is left.     *)
LEMMA ResponseStep == ResponseInv /\ [ResponseNext]_responseVars => ResponseInv'
<1> SUFFICES ASSUME ResponseInv, [ResponseNext]_responseVars PROVE ResponseInv'
  OBVIOUS
<1> DEFINE fresh == RspInit(rsp, BufSize)
           left == BufSize - spent
<1>1. /\ BufSize \in Nat /\ BufSize < Uint16 /\ Data \subseteq Nat /\ spent \in 0 .. BufSize
      /\ rsp \in Response
      /\ spent < BufSize => Ready(rsp, BufSize, left)
  BY ResponsesAssumption DEF ResponseInv
<1>2. Ready(fresh, BufSize, BufSize) /\ fresh \in Response
  <2>1. Ready(fresh, BufSize, BufSize)
    BY <1>1, Initialised
  <2> QED
    BY <2>1 DEF Ready
<1>3. RoomFor("bare") \in Nat /\ RoomFor("text") \in Nat /\ RoomFor("filled") \in Nat
  BY Widths DEF RoomFor
<1>4. ASSUME NEW m \in Nat, NEW k \in Nat
      PROVE  /\ Spent(m, k) \in 0 .. BufSize
             /\ Spent(m, k) < BufSize => Spent(m, k) = m + k
  BY <1>1 DEF Spent
<1>5. ASSUME NEW form, NEW n, made' = [form |-> form, n |-> n], rsp' \in Response,
             NEW m \in Nat, NEW k \in Nat, spent' = Spent(m, k),
             m + k < BufSize => Ready(rsp', BufSize, BufSize - (m + k)) /\ WholeOf(rsp', form, n)
      PROVE  ResponseInv'
  <2>1. spent' \in 0 .. BufSize /\ (spent' < BufSize => spent' = m + k)
    BY <1>4, <1>5
  <2>2. spent' < BufSize => Ready(rsp', BufSize, BufSize - spent') /\ WholeOf(rsp', form, n)
    BY <1>5, <2>1
  <2>3. ResponseIsWhole'
    BY <1>5, <2>2 DEF ResponseIsWhole, WholeOf
  <2> QED
    BY <1>5, <2>1, <2>2, <2>3 DEF ResponseInv
<1> HIDE DEF fresh, left
<1>6. CASE AnswerBare
  <2>1. rsp' = Bare(fresh) /\ made' = [form |-> "bare", n |-> 0] /\ spent' = Spent(0, RoomFor("bare"))
    BY <1>6 DEF AnswerBare, fresh
  <2>2. rsp' \in Response
    BY <1>2, <2>1, FormsTyped
  <2>3. 0 + RoomFor("bare") < BufSize
        => Ready(rsp', BufSize, BufSize - (0 + RoomFor("bare"))) /\ WholeOf(rsp', "bare", 0)
    <3> DEFINE k == RoomFor("bare")
    <3>1. 0 + k = k
      BY <1>3
    <3>2. k < BufSize => Ready(Bare(fresh), BufSize, BufSize - k) /\ WholeOf(Bare(fresh), "bare", 0)
      BY <1>2, BareIsWhole
    <3> QED
      BY <2>1, <3>1, <3>2
  <2> QED
    BY <1>3, <1>5, <2>1, <2>2, <2>3
<1>7. CASE \E n \in Data : AnswerText(n)
  <2>1. PICK n \in Data : AnswerText(n)
    BY <1>7
  <2> DEFINE k == RoomFor("text") + n
  <2>2. n \in Nat /\ k \in Nat /\ 0 + k = k
    BY <1>1, <1>3
  <2>3. rsp' = WithText(fresh, n) /\ made' = [form |-> "text", n |-> n] /\ spent' = Spent(0, k)
    BY <2>1 DEF AnswerText, fresh
  <2>4. rsp' \in Response
    BY <1>2, <2>2, <2>3, FormsTyped
  <2>5. k < BufSize => Ready(rsp', BufSize, BufSize - k) /\ WholeOf(rsp', "text", n)
    BY <1>2, <2>2, <2>3, TextIsWhole
  <2> HIDE DEF k
  <2> QED
    BY <1>5, <2>2, <2>3, <2>4, <2>5
<1>8. CASE \E n \in Data : AnswerFilled(n)
  <2>1. PICK n \in Data : AnswerFilled(n)
    BY <1>8
  <2> DEFINE k == RoomFor("filled")
  <2>2. n \in Nat /\ k \in Nat /\ 0 + k = k
    BY <1>1, <1>3
  <2>3. /\ rsp' = FillIn(Headed(fresh), n) /\ made' = [form |-> "filled", n |-> n]
        /\ spent' = Spent(0, k) /\ n <= Headed(fresh).max
    BY <2>1 DEF AnswerFilled, fresh
  <2>4. rsp' \in Response
    BY <1>2, <2>2, <2>3, FormsTyped
  <2>5. k < BufSize => Ready(rsp', BufSize, BufSize - k) /\ WholeOf(rsp', "filled", n)
    BY <1>2, <2>2, <2>3, FilledIsWhole
  <2> HIDE DEF k
  <2> QED
    BY <1>5, <2>2, <2>3, <2>4, <2>5
<1>9. CASE \E n \in Data : Event(n)
  <2>1. PICK n \in Data : Event(n)
    BY <1>9
  <2> DEFINE k == RoomFor("text") + n
  <2>2. n \in Nat /\ k \in Nat /\ spent \in Nat
    BY <1>1, <1>3
  <2>3. /\ rsp' = WithText(rsp, n) /\ made' = [form |-> "text", n |-> n]
        /\ spent' = Spent(spent, k) /\ spent < BufSize
    BY <2>1 DEF Event
  <2>4. rsp' \in Response
    BY <1>1, <2>2, <2>3, FormsTyped
  <2>5. k < left => Ready(rsp', BufSize, left - k) /\ WholeOf(rsp', "text", n)
    BY <1>1, <2>2, <2>3, TextIsWhole
  <2>6. (spent + k < BufSize => k < left) /\ left - k = BufSize - (spent + k)
    BY <1>1, <2>2 DEF left
  <2> HIDE DEF k
  <2>7. spent + k < BufSize => Ready(rsp', BufSize, BufSize - (spent + k)) /\ WholeOf(rsp', "text", n)
    BY <2>5, <2>6
  <2> QED
    BY <1>5, <2>2, <2>3, <2>4, <2>7
<1>10. CASE UNCHANGED responseVars
  BY <1>10 DEF ResponseInv, ResponseIsWhole, responseVars
<1> QED
  BY <1>6, <1>7, <1>8, <1>9, <1>10 DEF ResponseNext

(* The room left in a response buffer is what its size and the calls since *)
(* the last request make it, as long as it lasts (src/Hap/HapHttp.h).      *)
THEOREM RoomIsKnown == ResponseSpec => []ResponseInv
<1>1. ResponseInit => ResponseInv
  BY ResponseStart
<1>2. ResponseInv /\ [ResponseNext]_responseVars => ResponseInv'
  BY ResponseStep
<1> QED
  BY <1>1, <1>2, PTL DEF ResponseSpec

(* Hence every answer, and every event that still finds room, is sent      *)
(* whole, for any lengths, buffers and orders (src/Hap/HapHttp.h).         *)
THEOREM ResponsesAreWhole == ResponseSpec => []ResponseIsWhole
<1>1. ResponseInv => ResponseIsWhole
  BY DEF ResponseInv
<1> QED
  BY <1>1, RoomIsKnown, PTL
=============================================================================
