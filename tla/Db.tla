--------------------------------- MODULE Db ---------------------------------
(***************************************************************************)
(* The database under the requests of a controller (Hap/HapDb.h): the tree *)
(* of accessories, services and characteristics with the ids setId gives   *)
(* them, PUT /characteristics (Db::Write), GET /characteristics (Db::Read) *)
(* and GET /accessories (Db::getDb).  A request works off its elements one *)
(* after the other, each with what Events says of a write or a read, and   *)
(* counts those that failed; the status of the answer follows from that.   *)
(*                                                                         *)
(* An element is chosen when its turn comes, so the text of a request is   *)
(* not a variable: malformed is an element that the parser refuses.  An    *)
(* answer fits its buffer or not, depending on the lengths of its entries. *)
(* Calls of the database do not overlap (see Events), so while a request   *)
(* is worked off nothing else is.                                          *)
(*                                                                         *)
(* History in rq: met counts the elements that got what they asked for,    *)
(* stored those whose value was stored, and blamed the ids reported as     *)
(* failed although their characteristic is there and can be read.          *)
(***************************************************************************)
EXTENDS Events, Sequences, SequencesExt, AppleServices

CONSTANTS Accessories,  \* sequence of [aid, services]; a service is its slots
          TypeOf,       \* the name of the type of a characteristic
          Possible,     \* the values a characteristic can have
          Handled,      \* characteristics with a write handler
          MaxElements   \* bound on the elements of a request

ASSUME MaxElementsAssumption == MaxElements \in Nat
ASSUME PossibleAssumption == \A c \in Char : Possible[c] \in SUBSET Value \ {{}}

(* A characteristic that can be written but not subscribed to has a write  *)
(* handler, as Identify has in RpiHap.cpp: see Stores.                     *)
ASSUME HandledAssumption ==
  \A c \in Char : /\ "PairedWrite" \in Permissions[TypeOf[c]]
                  /\ "Events" \notin Permissions[TypeOf[c]]
                  => c \in Handled

VARIABLE rq       \* the request that is being worked off

dvars == <<vars, rq>>

Can(c, p) == p \in Permissions[TypeOf[c]]

Count == 0 .. MaxElements
PutRequest == [op : {"PUT"}, s : Session, n : Count, err : Count, met : Count, stored : Count]
GetRequest == [op : {"GET"}, s : Session, n : Count, err : Count, blamed : Count,
               status : {"Success", "CannotRead", "ResourceNotExist"}, got : SUBSET Char]
NoRequest == [op |-> "none"]

DbTypeOK == TypeOK /\ rq \in {NoRequest} \cup PutRequest \cup GetRequest
-----------------------------------------------------------------------------
(* Accessory::setId and Service::setId number the services and their       *)
(* characteristics in one sequence.                                        *)
Number(ids, c) ==
  IF c = NoChar THEN ids ELSE [next |-> ids.next + 1, iid |-> (c :> ids.next) @@ ids.iid]
SetServiceId_NotItself(ids, service) ==
  [FoldLeft(Number, [ids EXCEPT !.next = 1], service) EXCEPT !.next = @]
SetServiceId(ids, service) ==
  FoldLeft(Number, [ids EXCEPT !.next = @ + 1], service)
SetId(acc) ==
  FoldLeft(SetServiceId, [next |-> 1, iid |-> <<>>], acc.services).iid

(* The ids a controller is shown by GET /accessories; no characteristic    *)
(* has the ids Unknown.                                                    *)
Unknown == [aid |-> 1, iid |-> 99]
IdOf(c) ==
  IF c = NoChar THEN Unknown
  ELSE LET a == CHOOSE i \in DOMAIN Accessories : c \in DOMAIN SetId(Accessories[i])
       IN [aid |-> Accessories[a].aid, iid |-> SetId(Accessories[a])[c]]

(* GetAcc, then the first characteristic of any service that has the id.   *)
Find(id) ==
  LET a == SelectInSeq(Accessories, LAMBDA acc : acc.aid = id.aid)
      slots == FlattenSeq(Accessories[a].services)
      i == SelectInSeq(slots, LAMBDA c :
             c # NoChar /\ SetId(Accessories[a])[c] = id.iid)
  IN IF a = 0 THEN NoChar ELSE IF i = 0 THEN NoChar ELSE slots[i]

(* The characteristic a request for c gets to.                             *)
Target == [c \in Char \cup {NoChar} |-> Find(IdOf(c))]

(* The ids setId gives lead back to their characteristics; MCDb supposes   *)
(* it, so that TLC evaluates it, and the proofs for every tree do too.     *)
Identified == \A c \in Char \cup {NoChar} : Target[c] = c
-----------------------------------------------------------------------------
(* One element of a PUT, "value" and "ev" each present or not; Bad is a    *)
(* value that hap_type::Write does not convert.  An "ev" that is not a     *)
(* boolean counts as absent.                                               *)
Absent == "absent"
Bad == "bad"

ASSUME BadAssumption == Absent \notin Value /\ Bad \notin Value

Subscribes(c, e) == e # Absent /\ Can(c, "Events")
EvStatus(c, e) ==
  IF e # Absent /\ ~Can(c, "Events") THEN "NotificationNotSupported" ELSE "Success"

(* With a write handler the value is not stored if the status is not       *)
(* Success, be it set by the handler or left by "ev".                      *)
Stores(c, v, e) ==
  /\ v \in Value /\ Can(c, "PairedWrite")
  /\ c \in Handled => EvStatus(c, e) = "Success"

PutStatus_SecondForgets(c, v, e) ==
  CASE c = NoChar -> "ResourceNotExist"
    [] v = Absent \/ v \in Value -> "Success"
    [] ~Can(c, "PairedWrite") -> "CannotWrite"
    [] OTHER -> "InvalidValue"
PutStatus(c, v, e) ==
  CASE c = NoChar -> "ResourceNotExist"
    [] c # NoChar /\ v = Absent -> EvStatus(c, e)
    [] c # NoChar /\ v # Absent /\ ~Can(c, "PairedWrite") -> "CannotWrite"
    [] c # NoChar /\ v = Bad /\ Can(c, "PairedWrite") -> "InvalidValue"
    [] OTHER -> EvStatus(c, e)

Apply(s, c, v, e) ==
  \/ c = NoChar /\ UNCHANGED vars
  \/ c # NoChar /\ ~Subscribes(c, e) /\ ~Stores(c, v, e) /\ UNCHANGED vars
  \/ c # NoChar /\ Subscribes(c, e) /\ ~Stores(c, v, e) /\ WriteOnlyEv(s, c, e = "on")
  \/ c # NoChar /\ ~Subscribes(c, e) /\ Stores(c, v, e) /\ WriteValue(s, c, v)
  \/ c # NoChar /\ Subscribes(c, e) /\ Stores(c, v, e) /\ WriteValueAndEv(s, c, e = "on", v)

(* What the controller asked of c has come about.                          *)
IsMet(s, c, v, e) ==
  /\ c # NoChar /\ v # Bad
  /\ v \in Value => value'[c] = v
  /\ e # Absent => (s \in ev'[c] <=> e = "on")

One(condition) == IF condition THEN 1 ELSE 0

StartPut(s) ==
  /\ rq = NoRequest /\ s \in open
  /\ rq' = [op |-> "PUT", s |-> s, n |-> 0, err |-> 0, met |-> 0, stored |-> 0]
  /\ UNCHANGED vars

PutElement(c, v, e, fits) ==
  LET t == Target[c] IN
  /\ rq.op = "PUT" /\ rq.n < MaxElements
  /\ Apply(rq.s, t, v, e)
  /\ rq' = IF ~fits THEN NoRequest
           ELSE [rq EXCEPT !.n = @ + 1,
                           !.err = @ + One(PutStatus(t, v, e) # "Success"),
                           !.met = @ + One(IsMet(rq.s, c, v, e)),
                           !.stored = @ + One(t # NoChar /\ Stores(t, v, e))]

(* The end of a request, with its answer: Answer(rq) after the last        *)
(* element, 400 without a body at a malformed one.  What the elements      *)
(* before it have written stays.                                           *)
Answer_IfAny(r) == IF r.err = 0 THEN "AllDone" ELSE "AllFailed"
Answer(r) ==
  IF r.err = 0 THEN "AllDone" ELSE IF r.err = r.n THEN "AllFailed" ELSE "MultiStatus"

PutEnd ==
  /\ rq.op = "PUT"
  /\ rq' = NoRequest
  /\ UNCHANGED vars
-----------------------------------------------------------------------------
(* GET /characteristics.  One rd_prm serves all ids: Simple::Read and      *)
(* Db::Read set its status when they fail, and nobody sets it to Success   *)
(* again.  The value of an entry counts if its status does.                *)
StartGet(s) ==
  /\ rq = NoRequest /\ s \in open
  /\ rq' = [op |-> "GET", s |-> s, n |-> 0, err |-> 0, status |-> "Success", got |-> {},
            blamed |-> 0]
  /\ UNCHANGED vars

Readable(c) == c # NoChar /\ Can(c, "PairedRead")

GetStatus_OfTheLast(c, status) ==
  IF c = NoChar THEN "ResourceNotExist" ELSE "Success"
GetStatus(c, status) ==
  CASE c = NoChar -> "ResourceNotExist"
    [] c # NoChar /\ ~Readable(c) -> "CannotRead"
    [] OTHER -> status

GetElement(c, fits) ==
  LET t == Target[c]
      status == GetStatus(t, rq.status) IN
  /\ rq.op = "GET" /\ rq.n < MaxElements
  /\ rq' = IF ~fits THEN NoRequest
           ELSE [rq EXCEPT !.n = @ + 1, !.status = status,
                           !.err = @ + One(status # "Success"),
                           !.got = IF status = "Success" THEN @ \cup {t} ELSE @,
                           !.blamed = @ + One(Readable(c) /\ status # "Success")]
  /\ UNCHANGED vars

GetMalformed ==
  /\ rq.op = "GET"
  /\ rq' = NoRequest
  /\ UNCHANGED vars

(* The answer has a body: it tells the controller the values.              *)
GetEnd_ClearsEvents ==
  /\ rq.op = "GET"
  /\ seen' = [c \in Char |-> IF c \in rq.got THEN [seen[c] EXCEPT ![rq.s] = value[c]]
                             ELSE seen[c]]
  /\ pending' = [c \in Char |-> IF c \in rq.got THEN pending[c] \ {rq.s} ELSE pending[c]]
  /\ rq' = NoRequest
  /\ UNCHANGED <<value, ev, open>>
GetEnd ==
  /\ rq.op = "GET"
  /\ Read(rq.s, rq.got)
  /\ rq' = NoRequest

(* GET /accessories shows the value of everything that can be read.        *)
GetAccessories(s) ==
  /\ rq = NoRequest
  /\ Read(s, {c \in Char : Can(c, "PairedRead")})
  /\ UNCHANGED rq
-----------------------------------------------------------------------------
DbInit == Init /\ (\A c \in Char : value[c] \in Possible[c]) /\ rq = NoRequest

Element ==
  \E c \in Char \cup {NoChar}, fits \in BOOLEAN :
    \/ GetElement(c, fits)
    \/ \E v \in (IF c = NoChar THEN {} ELSE Possible[c]) \cup {Absent, Bad},
          e \in {"on", "off", Absent} : PutElement(c, v, e, fits)

End == PutEnd \/ GetEnd
Work == Element \/ GetMalformed \/ End

Between(A) == rq = NoRequest /\ A /\ UNCHANGED rq

DbNext ==
  \/ Work
  \/ \E s \in Session :
       \/ StartPut(s) \/ StartGet(s) \/ GetAccessories(s)
       \/ Between(Open(s)) \/ Between(Close(s)) \/ Between(Poll(s))
  \/ \E c \in Char : \E v \in Possible[c] :
       Can(c, "Events") /\ Between(DeviceSet(c, v))

DbSpec == DbInit /\ [][DbNext]_dvars

(* As FairSpec of Events; a request that has begun ends, and polls are     *)
(* between requests.                                                       *)
FairDbSpec ==
  /\ DbSpec
  /\ WF_dvars(End)
  /\ \A s \in Session : SF_dvars(Between(Poll(s)))
-----------------------------------------------------------------------------
(* The answer to a PUT is true of the request as a whole, wherever it      *)
(* ends: an element it reports as written has all it asked for, one it     *)
(* reports as failed has stored nothing, also if "value" and "ev" of the   *)
(* same element fared differently; so 204 means that all is as asked, 400  *)
(* with a body that no value was stored.                                   *)
PutAnswerIsTrue ==
  rq.op = "PUT" =>
    /\ rq.n - rq.err <= rq.met
    /\ rq.stored <= rq.n - rq.err
    /\ Answer(rq) = "AllDone" => rq.met = rq.n
    /\ Answer(rq) = "AllFailed" => rq.stored = 0

(* The answer to a GET tells only what can be read, and an id that could   *)
(* be read is reported as failed only if another one of the same request   *)
(* really failed: 200 has them all.                                        *)
GetAnswerIsTrue ==
  rq.op = "GET" =>
    /\ \A c \in rq.got : Readable(c)
    /\ rq.blamed > 0 => rq.err > rq.blamed
    /\ Answer(rq) = "AllDone" => rq.blamed = 0 /\ rq.err = 0
=============================================================================
