----------------------------- MODULE HttpChannel -----------------------------
(***************************************************************************)
(* One connection: Server::Process with its reading loop, _send and Poll   *)
(* (Hap/HapHttp.cpp), the response buffer (Hap/HapHttp.h) and, external,   *)
(* the controller at the other end, which sends a request when the one     *)
(* before has been answered.                                               *)
(*                                                                         *)
(* Bytes are grouped in units.  A request is a sequence of units; its      *)
(* headers end with unit head.  On a secured connection two units make a   *)
(* block, encrypted with the next number of the controller as nonce.  TCP  *)
(* delivers the stream in pieces of any size.                              *)
(***************************************************************************)
EXTENDS Integers, Sequences

CONSTANTS MaxUnits,     \* units of a request
          MaxRequests,  \* requests of a connection, bounds the model
          TmpRoom,      \* units that fit the buffer data is received into
          ReqRoom,      \* units that fit the request buffer
          EventRoom,    \* events that fit the response buffer after a request
          WrapRoom,     \* events until _max is small again, once it wrapped
          MaxNumber     \* frames the accessory sends, bounds the model

ASSUME UnitsAssumption == MaxUnits \in Nat \ {0} /\ MaxRequests \in Nat /\ MaxNumber \in Nat
ASSUME RoomAssumption ==
  /\ TmpRoom \in Nat \ {0, 1}
  /\ ReqRoom \in Nat
  /\ EventRoom \in Nat \ {0}
  /\ WrapRoom \in Nat \ {0}

Plain == -1     \* in the place of a nonce: not encrypted
Stale == 0      \* in the place of position 1: overwritten

VARIABLES
  \* of the controller
  reqs,      \* the requests it sent on this connection
  answered,  \* how many of them have been answered
  ctl,       \* whether it encrypts, and its numbers for sending, receiving
  \* of the network
  stream,    \* units on their way to the accessory
  out,       \* messages on their way to the controller
  \* of the accessory
  pc,        \* "idle", "recv" in Process, or "closed"
  cause,     \* why Process closed the connection
  tmp,       \* valid units in the buffer for receiving, its length is len
  got,       \* units in the request buffer, its length is http_len
  ses,       \* secured, recvSeq and sendSeq of the session
  room,      \* events that fit what _max leaves of the response buffer
  handled    \* requests the handlers have seen, and whether whole

vars == <<reqs, answered, ctl, stream, out, pc, cause, tmp, got, ses, room, handled>>
controller == <<reqs, answered, ctl>>
accessory == <<pc, cause, tmp, got, ses, room, handled>>

Request == [kind : {"other", "verify"}, secured : BOOLEAN,
            len : 1 .. MaxUnits, head : 1 .. MaxUnits]
Unit == [req : 1 .. MaxRequests, pos : Stale .. MaxUnits, nonce : Nat \cup {Plain}]
Frame == [is : {"response", "event"}, secured : BOOLEAN, nonce : Nat \cup {Plain},
          last : BOOLEAN, whole : BOOLEAN]
End == [secured : BOOLEAN, send : Nat, recv : Nat]

TypeOK ==
  /\ reqs \in Seq(Request)
  /\ answered \in 0 .. Len(reqs)
  /\ ctl \in End
  /\ stream \in Seq(Unit)
  /\ out \in Seq(Frame)
  /\ pc \in {"idle", "recv", "closed"}
  /\ cause \in {"none", "eof", "size", "decrypt", "parse"}
  /\ tmp \in Seq(Unit) /\ Len(tmp) <= TmpRoom
  /\ got \in Seq(Unit) /\ Len(got) <= ReqRoom
  /\ ses \in End
  /\ room \in 0 .. EventRoom \cup 0 .. WrapRoom
  /\ handled \in Seq([req : 1 .. MaxRequests, whole : BOOLEAN])

Fresh == [secured |-> FALSE, send |-> 0, recv |-> 0]

Init ==
  /\ reqs = <<>> /\ answered = 0 /\ ctl = Fresh
  /\ stream = <<>> /\ out = <<>>
  /\ pc = "idle" /\ cause = "none" /\ tmp = <<>> /\ got = <<>> /\ ses = Fresh
  /\ room = EventRoom /\ handled = <<>>
-----------------------------------------------------------------------------
(* The controller.                                                         *)

Units(r, rq) ==
  [k \in 1 .. rq.len |->
     [req |-> r, pos |-> k,
      nonce |-> IF ctl.secured THEN ctl.send + (k - 1) \div 2 ELSE Plain]]

(* It verifies once per connection, though the accessory lets it do so     *)
(* again.  Encrypted, a request is whole blocks.                           *)
SendRequest(rq) ==
  /\ pc # "closed"
  /\ answered = Len(reqs) /\ Len(reqs) < MaxRequests
  /\ rq.head <= rq.len
  /\ rq.secured = ctl.secured
  /\ rq.secured => rq.len % 2 = 0 /\ rq.kind = "other"
  /\ reqs' = Append(reqs, rq)
  /\ stream' = stream \o Units(Len(reqs) + 1, rq)
  /\ ctl' = IF ctl.secured THEN [ctl EXCEPT !.send = @ + rq.len \div 2] ELSE ctl
  /\ UNCHANGED <<answered, out, accessory>>

Decodes(frame) ==
  /\ frame.secured = ctl.secured
  /\ frame.secured => frame.nonce = ctl.recv

(* It encrypts from the answer to its last pair-verify message on, if that *)
(* request was seen whole.                                                 *)
Verified == \E h \in 1 .. Len(handled) :
  handled[h] = [req |-> Len(reqs), whole |-> TRUE] /\ reqs[Len(reqs)].kind = "verify"

ReceiveFrame ==
  /\ out # <<>> /\ Decodes(Head(out))
  /\ out' = Tail(out)
  /\ LET ends == Head(out).is = "response" /\ Head(out).last
     IN  /\ answered' = IF ends THEN Len(reqs) ELSE answered
         /\ ctl' = [ctl EXCEPT !.recv = IF ctl.secured THEN @ + 1 ELSE @,
                               !.secured = @ \/ (ends /\ Verified)]
  /\ UNCHANGED <<reqs, stream, accessory>>

(* The connection is closed by its controller, or was by Process, and a    *)
(* new one gets the session: Session::Open.  The response buffer's room    *)
(* is not part of what Open sets.                                          *)
Reconnect_KeepsNumbers ==
  /\ reqs' = <<>> /\ answered' = 0 /\ ctl' = Fresh
  /\ stream' = <<>> /\ out' = <<>>
  /\ pc' = "idle" /\ cause' = "none" /\ tmp' = <<>> /\ got' = <<>>
  /\ ses' = [ses EXCEPT !.secured = FALSE]
  /\ handled' = <<>>
  /\ UNCHANGED room
Reconnect ==
  /\ reqs' = <<>> /\ answered' = 0 /\ ctl' = Fresh
  /\ stream' = <<>> /\ out' = <<>>
  /\ pc' = "idle" /\ cause' = "none" /\ tmp' = <<>> /\ got' = <<>>
  /\ ses' = Fresh
  /\ handled' = <<>>
  /\ UNCHANGED room
-----------------------------------------------------------------------------
(* The accessory.                                                          *)

(* select reports data: Process is called, Session::Init.                  *)
StartProcess ==
  /\ pc = "idle" /\ stream # <<>>
  /\ pc' = "recv"
  /\ tmp' = <<>> /\ got' = <<>>
  /\ room' = EventRoom
  /\ UNCHANGED <<controller, stream, out, cause, ses, handled>>

Close(why) ==
  /\ pc' = "closed" /\ cause' = why
  /\ UNCHANGED <<tmp, got, room, handled>>

(* _send: a message of n frames, each encrypted with the next number if    *)
(* the session is secured.                                                 *)
Frames(is, n, whole) ==
  [k \in 1 .. n |-> [is |-> is, secured |-> ses.secured,
                     nonce |-> IF ses.secured THEN ses.send + k - 1 ELSE Plain,
                     last |-> k = n, whole |-> whole]]
AfterSend(end, n) == IF ses.secured THEN [end EXCEPT !.send = @ + n] ELSE end

(* What the parser makes of the request buffer.  It looks for the end of   *)
(* the headers only; what is left of an earlier request is taken for the   *)
(* beginning of a new one.  With its start overwritten, a request may pass *)
(* for one whose method has no handler.                                    *)
Parses(buf) ==
  LET ends == Len(buf) >= reqs[buf[1].req].head
  IN  IF buf[1].pos = 1 THEN {IF ends THEN "Success" ELSE "Incomplete"}
      ELSE {"Error", "Incomplete"} \cup (IF buf[1].pos = Stale /\ ends THEN {"Success"} ELSE {})

(* The handler runs, the answer is sent as the session was, and only then  *)
(* is the session secured.  A request without its body is refused.         *)
Handle_SecuresFirst(buf, end, n) ==
  LET r == buf[1].req
      whole == buf[1].pos = 1 /\ Len(buf) = reqs[r].len
      secures == whole /\ reqs[r].kind = "verify"
  IN  /\ out' = out \o [k \in 1 .. n |->
                          [Frames("response", n, TRUE)[k] EXCEPT
                             !.secured = ses.secured \/ secures]]
      /\ ses' = [AfterSend(end, n) EXCEPT !.secured = @ \/ secures]
      /\ handled' = Append(handled, [req |-> r, whole |-> whole])
Handle(buf, end, n) ==
  LET r == buf[1].req
      whole == buf[1].pos = 1 /\ Len(buf) = reqs[r].len
  IN  /\ out' = out \o Frames("response", n, TRUE)
      /\ ses' = [AfterSend(end, n) EXCEPT
                   !.secured = @ \/ (whole /\ reqs[r].kind = "verify")]
      /\ handled' = Append(handled, [req |-> r, whole |-> whole])

(* The end of the loop's body, with buf in the request buffer, the session *)
(* at end and rest left of what was received.                              *)
Parse(buf, end, rest) ==
  \E status \in Parses(buf) :
    \/ /\ status = "Incomplete"
       /\ tmp' = rest /\ got' = buf /\ ses' = end
       /\ UNCHANGED <<out, pc, cause, room, handled>>
    \/ /\ status = "Error"          \* answered with 500, never encrypted
       /\ out' = Append(out, [is |-> "response", secured |-> FALSE, nonce |-> Plain,
                              last |-> TRUE, whole |-> TRUE])
       /\ ses' = end
       /\ Close("parse")
    \/ /\ status = "Success"
       /\ \E n \in 1 .. 2 : Handle(buf, end, n)
       /\ pc' = "idle" /\ tmp' = <<>> /\ got' = <<>>
       /\ UNCHANGED <<cause, room>>

(* Read data on a session that is not secured is appended as it is.        *)
ReadPlain(data) ==
  IF Len(got) + Len(data) > ReqRoom
  THEN Close("size") /\ UNCHANGED <<out, ses>>
  ELSE Parse(got \o data, ses, <<>>)

(* Read data on a secured one is decrypted, a block at a time.  A block    *)
(* that came alone is not taken out of the buffer; of a block with more    *)
(* behind it the length is, but the rest is not moved to the front: the    *)
(* move is made in the request buffer, whose start is overwritten with as  *)
(* much from further behind: anything that an earlier request left there.  *)
Authentic(data) ==
  /\ data[1].nonce = ses.recv /\ data[2].nonce = ses.recv
  /\ data[2].pos = data[1].pos + 1
Rest(data) == IF Len(data) > 2 THEN SubSeq(data, 1, Len(data) - 2) ELSE data

Decrypted(data) ==
  LET buf == got \o SubSeq(data, 1, 2)
  IN  IF Len(data) = 2 THEN buf
      ELSE [buf EXCEPT ![1].pos = IF @ = 1 THEN Stale ELSE @]

ReadBlock(data) ==
  LET end == [ses EXCEPT !.recv = @ + 1]
  IN  \/ /\ Len(got) + 2 > ReqRoom
         /\ Close("size") /\ UNCHANGED <<out, ses>>
      \/ /\ Len(got) + 2 <= ReqRoom /\ ~Authentic(data)
         /\ Close("decrypt") /\ ses' = end /\ UNCHANGED out
      \/ /\ Len(got) + 2 <= ReqRoom /\ Authentic(data)
         /\ Parse(Decrypted(data), end, Rest(data))

Wait(data) ==
  /\ tmp' = data
  /\ UNCHANGED <<out, pc, cause, got, ses, room, handled>>

(* A length that is read from the middle of a block can be anything.       *)
ReadSecured_OffByOne(data) ==
  \/ data[1].pos % 2 = 1 /\ Len(data) <= 2 /\ Wait(data)
  \/ data[1].pos % 2 = 1 /\ Len(data) > 2 /\ ReadBlock(data)
ReadSecured(data) ==
  \/ data[1].pos % 2 = 1 /\ Len(data) = 1 /\ Wait(data)
  \/ data[1].pos % 2 = 1 /\ Len(data) > 1 /\ ReadBlock(data)
  \/ /\ data[1].pos % 2 = 0
     /\ \/ Wait(data)
        \/ Close("size") /\ UNCHANGED <<out, ses>>
        \/ Close("decrypt") /\ ses' = [ses EXCEPT !.recv = @ + 1] /\ UNCHANGED out

(* One round of the loop.  With no room left recv is asked for 0 bytes,    *)
(* and returns as at the end of the connection.                            *)
Recv ==
  /\ pc = "recv" /\ Len(tmp) < TmpRoom /\ stream # <<>>
  /\ \E k \in 1 .. Len(stream) :
       /\ Len(tmp) + k <= TmpRoom
       /\ stream' = SubSeq(stream, k + 1, Len(stream))
       /\ LET data == tmp \o SubSeq(stream, 1, k)
          IN  IF ses.secured THEN ReadSecured(data) ELSE ReadPlain(data)
  /\ UNCHANGED controller

RecvNothing ==
  /\ pc = "recv" /\ Len(tmp) = TmpRoom
  /\ Close("eof")
  /\ UNCHANGED <<controller, stream, out, ses>>

(* Poll with an event to send.  It starts its message where the last one   *)
(* left _max, which only Process sets again.  The message that does not    *)
(* fit is cut off, and _max, 16 bits wide, wraps.                          *)
Poll ==
  /\ pc = "idle" /\ ses.secured /\ ses.send < MaxNumber
  /\ out' = out \o Frames("event", 1, room > 0)
  /\ ses' = AfterSend(ses, 1)
  /\ room' = IF room > 0 THEN room - 1 ELSE WrapRoom
  /\ UNCHANGED <<controller, stream, pc, cause, tmp, got, handled>>

Accessory == StartProcess \/ Recv \/ RecvNothing

Next ==
  \/ \E rq \in Request : SendRequest(rq)
  \/ ReceiveFrame
  \/ Reconnect
  \/ Accessory
  \/ Poll

Spec == Init /\ [][Next]_vars

(* The network task serves the connection, and TCP delivers what was sent. *)
FairSpec == Spec /\ WF_vars(Accessory) /\ WF_vars(ReceiveFrame)
-----------------------------------------------------------------------------
(* Both ends agree about every message on its way to the controller:       *)
(* whether it is encrypted, and its number.  They change over in step, the *)
(* controller when it receives what the accessory sent before it did.      *)
(* (The plain 500 that Process answers before it closes is excepted.)      *)
InStep == out # <<>> /\ cause # "parse" => Decodes(Head(out))

(* Requests the reading loop is made for: encrypted in one block, or plain *)
(* without a body.                                                         *)
Simple ==
  \A r \in 1 .. Len(reqs) :
    reqs[r].len <= ReqRoom
    /\ IF reqs[r].secured THEN reqs[r].len = 2 ELSE reqs[r].head = reqs[r].len

(* Those are handled whole, whatever pieces they arrive in, and the        *)
(* connection is not closed.                                               *)
SimpleIsServed ==
  Simple => cause = "none" /\ \A h \in 1 .. Len(handled) : handled[h].whole

(* And they are answered.                                                  *)
SimpleIsAnswered ==
  (Simple /\ answered < Len(reqs)) ~> (answered = Len(reqs))
-----------------------------------------------------------------------------
(* Hap/HapHttp.h:474: Process "calls 'recv' one or more times until        *)
(* complete HTTP request is arrived".                                      *)
RequestIsWhole == \A h \in 1 .. Len(handled) : handled[h].whole
=============================================================================
