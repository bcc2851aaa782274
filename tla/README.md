# A verification of uHap

uHap is a HomeKit accessory server in C++: `Hap/` is the protocol, `Crypto/` the
cryptography, `Linux/` and `Windows/` the platform, `RpiHap/` a light with a joystick
built from them. This directory has TLA+ modules of the parts that keep state, TLC
configurations that check them on small instances, and TLAPS proofs for all instances.

- [The system](#the-system)
- [Modules](#modules)
- [Runs](#runs)
- [Disagreements found](#disagreements-found)
- [Fairness](#fairness)
- [Proofs](#proofs)
- [What is not modelled](#what-is-not-modelled)
- [What could follow](#what-could-follow)

## The system

| Component | State | Operations | Has to |
|---|---|---|---|
| Pairing table (`Hap/Hap.cpp`, `HapPairing.h`) | 16 controller records | Add, Update, Remove, Get, Count, init, save, restore | be a map from controllers to key and permission, although its scans treat free records differently |
| HTTP server (`Hap/HapHttp.cpp`, `HapHttp.h`) | 8 sessions and an overflow slot; one SRP exchange for all of them | Open, Close, Process (pair-setup M1 to M5, pair-verify M1 and M3, pairings, characteristics), Poll | pair the first controller only once, let only verified administrators change pairings, keep sessions apart |
| Channel, in the same files | request, receive and response buffers; `secured`, `recvSeq`, `sendSeq` | the reading loop, `_send`, Poll | handle whole requests, switch to encryption in step with the controller |
| Network task (`Linux/HapTcp.cpp`) | table of clients, their sessions, counters of silence | accept, the turn of a client, poll, time-out, Stop, Start | give each client a session of its own, free it, serve everybody |
| Database (`Hap/HapDb.h`) | the tree and its ids; per characteristic a value, and per session the flags "enabled" and "pending" | Open, Close, Value, Write (PUT), Read (GET), getDb, getEvents | let no subscriber miss a change, answer what was done |
| Configuration (`Hap/Hap.h`, `Util/FileConfig.h`) | one file; the flag "not paired" | Init, Update, Save, restore, default, reset | keep pairings over the end of the process |
| main and the light bulb (`RpiHap/RpiHap.cpp`) | lamp, button, joystick; `Restart` | start, stop and restart the servers; change characteristics | stop when told to; show what the database says |
| mDNS (`Linux/HapMdns.cpp`) | one registration | Start, Stop, Update | advertise "not paired" as it is |
| SRP (`Crypto/Srp.cpp`, `MD.cpp`) | the values of the exchange, in shared buffers | init, setA, verification | agree with the controller on a key iff the setup code is right |
| Other cryptography (`Crypto/`) | hash buffer, limbs, counters of a call | hash, HMAC, key derivation, AEAD, key agreement | compute the standard's functions, in pieces too |
| TLV, JSON, HTTP (`Hap/HapTlv.h`, `HapJson.h`, `jsmn.cpp`, `picohttpparser.c`) | tokens and lengths | parse, create | read back what was written; not depend on where a message is cut |

How they interact. There are three threads besides main: the network task, mDNS, and the
light bulb's. The network task makes all calls of the HTTP server; the server calls the
table, the SRP exchange and the database, and, after a change of pairings,
`config->Update`, which sets the flag, saves the file and tells mDNS, all on the network
task. The light bulb's thread changes characteristics without a lock while the network task
reads, writes and polls them. main starts and stops the others and saves the file too.

What makes it hard:

- Requests of several sessions interleave *between* the messages of a pairing exchange, and
  all sessions share one exchange, one table, one file.
- The scans of the table disagree about free records.
- Sessions, records and slots are small numbers or pointers that are reused; whoever keeps one
  (a session its record, a client its session, a characteristic its flags) can meet the next
  user of it.
- TCP cuts the stream anywhere; encryption starts in the middle of a connection; both ends
  count messages on their own.
- One thread waits for all clients; inside a request it waits for one.
- Two threads share the event flags and the lamp without a lock, and two save the file.
- The process can end at any moment, also in the middle of a save.
- Buffers of the algorithms are reused, half carried, or exactly full.

`PROJECT.json` lists each of these hazards at its line with the properties about it.

## Modules

| Module | Models | Used by |
|---|---|---|
| `PairingTable` | the table's operations, as operators on a table | `Pairings`, `HapServer` |
| `PairingMap` | **abstract**: the map of paired controllers and how it changes | refined by `Pairings` |
| `Authority` | **abstract**: `PairingMap` with the sessions that ask for the changes, and the controllers they act for | refined by `HapServer` |
| `Pairings` | the table under the calls made on it | |
| `HapServer` | sessions, SRP exchange, table, flag, file, restart, end of the process | |
| `HttpChannel` | one connection: reading loop, encryption, events, response buffer | |
| `TcpServer` | the network task | |
| `Sessions` | **abstract**: sessions that connections hold; one is free, or one connection's until that gives it back | refined by `HapServer` and `TcpServer` |
| `Events` | values and event flags, calls one after the other; **abstract** for `Db` | `EventsThreads`; refined by `Db` |
| `AppleServices` | permissions of the characteristics, slots of the services | `Db` |
| `Db` | the tree, its ids, PUT and GET element by element | |
| `EventsThreads` | the flags of `Events` with both threads, one access to memory at a time | `LightBulb` |
| `LightBulb` | lamp and characteristic under the write handler and the joystick's thread | |
| `Application` | main's loop and signals, mDNS thread, the file and its two writers | |
| `MD`, `Srp` | numbers of several digits; the SRP exchange computed with them | `MCAlgorithms` |
| `Sha512`, `Poly1305`, `Curve25519` | hash, HMAC and key derivation; authenticator, stream and AEAD; key agreement | `HashStream`, `MCAlgorithms` |
| `HashStream` | a hash and an HMAC in use: begun and fed in pieces, with what they would give if ended now | `MCAlgorithms` |
| `Tlv`, `Json`, `HttpParser`, `HttpResponse` | parsers and creators | `TlvMessage`, `Responses`, `MCAlgorithms` |
| `TlvMessage` | a pairing message in use: created item by item, in a buffer that may be too small, and parsed | `MCAlgorithms` |
| `Responses` | the response object in use: answers of each form and events, in any order, in one buffer | `MCAlgorithms` |
| `PairingTableProofs`, `PairingsProofs`, `HapServerProofs`, `TcpServerProofs`, `HttpChannelProofs` (of `Responses` too), `CharacteristicProofs` (of `Events`, `Db`, `EventsThreads` and `LightBulb`), `AlgorithmProofs` (of `HashStream`, `Poly1305` and `TlvMessage`), `ApplicationProofs` | proofs | |
| `MC...` | instances for TLC, with their symmetry; `MCAlgorithms` has the reference definitions too | |

Names follow the source: an action has the name of its function without the underscore
(`PairSetup1` is `Server::_pairSetup1`), a variable that of the member. `map` in
`PROJECT.json` gives the lines of each definition. An operator named `X_Fault`, such as
`Remove_Closing`, is `X` with a mistake such as a dropped guard or a missing reset. No
specification uses these; they are there to be put in the place of `X`, to see that a property
tells the difference.

**PairingTable, Pairings.** A record whose permission is `"None"` is free and keeps its
identifier and key, as in `Remove` and `init`. `Add` stops at the first record that is free or
has the identifier, `Get` and `Update` skip free records, `Remove` does not. Identifiers are
compared whole; the code compares as many bytes as the identifier it is passed has, so that one
that is the beginning of another would match. Controllers have identifiers of 36 bytes, all of them, and no two
with the same beginning occur in the model. `PairingAdd`
takes the permission from the request unchecked, as the code does: `"Regular"` stands for every byte
but those of Admin (1) and None (0xFF), for the code only asks whether a permission is one of these
two; with `"None"` what is added is a free record with a controller's identifier. `Saved` and
`Restored` are what the file does to a table: it is compacted, and records read back leave the rest
of memory as it was.

**HapServer.** One action per message that changes state, in the order of the
handlers: a step is a whole request, because one thread makes all these calls.
`sess[s].key` stands for what the controller at the other end of the connection shares with the
session; a message it encrypted is readable iff both have a key of the same exchange.
`_pairVerify3` sets the controller and Process decides by it whether the session is secured,
whatever exchange set it. Signatures are not verified by the code (two `TODO`s), so a
controller is who it says it is. `ConfigUpdate` is `config->Update` of `RpiHap.cpp`. `Readable`
is the 100-token parser of `_restore`: the file takes 41 tokens and 4 for each controller, so 14
of 16 controllers can be read back, and otherwise the defaults are taken and saved.

**HttpChannel.** Bytes are grouped in units; on a secured connection two units are a block,
encrypted under one number, so that a block can arrive in pieces. A read takes any number of
units. `ReadSecured` has what the loop does with data behind the block it decrypts: it shortens
the buffer but does not move the rest to the front, and overwrites the start of what it has decrypted instead
(`Decrypted`), with anything: the request may still parse, with a method nobody handles. The controller is external and sends a
request when the one before is answered; it verifies once per connection. The accessory would take another
pair-verify on a secured connection (in `HapServer` it does), with new keys before the answer is encrypted; the
numbers of the channel after that are not modelled. The response buffer is a count of events that still
fit, because that is all `_max` does: Process sets it, each event lowers it, and below 0 it
wraps.

**TcpServer.** `pc` is where the task is; `recv` is inside Process, waiting for this client.
`SelectError` is the case where Stop closes the listening socket before select is called.
It leaves every client in both `ready` and `except`: the task reads from each, and closes it after its turn.
`pollCount` has one entry too few: what the last slot reads behind it is a free choice while a client is in it (see
[below](#what-is-not-modelled) for when it is free).
History variables are `lost`, the sessions that were open when the task was started again, and `silence`, how often a
client was polled since it last sent something or was sent an event: the counters follow slots, `silence` follows clients.

**Events, EventsThreads.** `seen` is a history variable: what the controller of a session knows
of a characteristic. `Room` is the number of entries that fit an event message;
the message that does not fit is not sent, but its flags have been cleared. In
`EventsThreads` both threads run `Value()` in its steps (read, store, look at each session, mark
it); `clean` says whether the last change of a characteristic ran without a step of the other.

**Db.** `SetId` numbers services and characteristics as `setId` does, and `Find` looks an id up as
Write and Read do, through accessory, service and slot; an optional characteristic that is not
there is an empty slot. A request works off one element per step with what `Events` says of a write or a
read, and counts those that failed. The text of a request is not a variable: an
element is chosen when its turn comes, `Bad` where the parser refuses it, and an answer's next entry
fits or not. `met`, `stored` and `blamed` are history: what the elements really got.

**LightBulb.** One characteristic, which may be any of the four, and what the LEDs show of it.
The write handler sets the lamp *before* `Value()`, the thread sets it *after*, to the
value it computed from an earlier read. `owes` is that value while the thread has still to
show it, `lone` is history: the last change, lamp included, met no step of the other thread.

**Application.** The network task receives (`Receive`), from a client that may keep it waiting, and
then changes the table or not (`ChangeTable`, `Served`); a change is followed by `Update`, the save, and `NewText` and
`Publish` to mDNS. The two calls of `signal()` and `pause()` are three steps: a signal without a handler ends the process, one
with a handler ends `pause()` if main is there, and is lost elsewhere. A save is four steps: open (which empties the
file), format the flags, format the table, close (which writes); each can be the last
of a process (`PowerCycle`), or the save fails at its start. Two saves can overlap, and the longer text leaves its end behind
the shorter. The mDNS thread tests `running`, and then waits, in two steps.

**Algorithms.** Each follows the code's loops at small sizes: `MD` the carries and borrows by
digits, `Srp` the order of calculations with what each leaves in the shared
buffers, `Sha512` the ring of two blocks and its padding (a hash is the sequence of blocks compressed),
`Poly1305` and `Curve25519` the limbs that are carried only in part, `Tlv` the
fragments and limits of parser and creator, `Json` the tokenizer with its signed one-byte
parent, `HttpParser` the search for the end of a request that arrives in parts,
`HttpResponse` the arithmetic of `_max`, `_len` and `_len_pos`. Hashes and block functions are abstract.
Three are specifications of an object in use, whose state is what one call leaves to the next: `HashStream` (a hash and an
HMAC that are fed a message in pieces), `Responses` (answers and events in one buffer), `TlvMessage` (a pairing
message that grows).

**Sessions.** What network task and HTTP server rely on each other for: the lowest free session is opened for a client,
secured and closed by nobody else. `HapServer` implements it from the side of the sessions, `TcpServer` from
the side of the clients, each with the sessions its clients hold as `held`.

## Runs

| Run | States | Shows |
|---|---|---|
| `pairings` | 256 up to symmetry | The scans agree (`FirstIsLive`), no slot is lost (`NoSlotLost`), and the table is a map (`MapSpec`). |
| `server` | 327,904 up to symmetry | Pair-setup is open only while nobody is paired, whatever comes between its messages (`SetupOnUnpaired`), and ends with its session (`SetupOwnerOpen`); a session is secured only while a connection holds it, and stays so until that gives it back (`SessionsSpec`); a new process knows the same controllers, or none if there were too many for the file (`PowerCycleKeepsPairings`); and after the first pairing only a session that acts for a paired administrator changes the map, where a session acts for the controller it was verified for until that is removed, and then for nobody, or for the one whose new record it points to (`AuthoritySpec`). |
| `channel` | 227,501 | Both ends agree on encryption and numbers (`InStep`). Requests of one block, or plain and without a body, are handled whole however they are cut (`SimpleIsServed`) and answered (`SimpleIsAnswered`). |
| `db` | 126,120 | A database under PUT, GET and polls is one of `Events` (`Spec`): a subscriber knows the value or has an event pending (`SubscriberIsCurrent`), is told in the end (`SubscriberCatchesUp`), and nothing is inherited from an earlier connection (`FlagsOfOpenSessions`). The answers to PUT and GET are true of what was done (`PutAnswerIsTrue`, `GetAnswerIsTrue`). |
| `lightBulb` | 2,446,405 | Without a lock changes can be lost; the next change that runs alone makes up for it, for subscribers (`CurrentAfterCleanChange`) and for the lamp (`LampShowsValue`). |
| `application` | 1,346,895 | The file is what the memory holds once the writers are done (`FileIsCurrent`), the flag follows the table (`FlagMatches`) and is advertised (`AdvertisedIsCurrent`); each with the exception the code has, which the property names. A signal that ends `pause()` ends the program or starts it anew, if no client keeps the network task in `recv` and the mDNS thread is at its wait or has failed to register when it comes (`SignalIsHandled`). |
| `tcpServer` | 714,078 | No two clients share a session (`SessionsAreOwned`), none leaks but the overflow session and those of a restart (`NoSessionLeak`), and each is one client's until that is closed (`SessionsSpec`). While no client stops in the middle of a request: each is taken up (`RequestIsServed`), events are delivered once all clients are quiet (`EventsReachQuietClients`), and a client that stays silent, without events, is closed whatever the others do, as long as select times out again and again (`SilentClientIsClosed`). A client from which there is nothing to read is closed only for its own silence (`OnlySilentAreClosed`). Both leave the last slot out. |
| `algorithms` | 103,075 | Each algorithm against a reference definition on bounded inputs: numbers against integers (`MdCorrect`), SRP against its formulas (`SrpAsDocumented`), authenticator and encryption (`AeadIsStandard`), key agreement against the addition of the curve (`CurveIsStandard`), JSON (`JsonRoundTrip`), HTTP requests in parts (`HttpPieces`). Three are objects in use, call after call: hash (`HashIsStandard`), HMAC and key derivation (`HmacIsNested`) fed in pieces, responses and events that share a buffer (`ResponseIsWhole`), pairing messages (`TlvRoundTrip`). |

Type invariants, and those properties the runs' properties rest on or imply (`RemoveIsEffective`, `RecordsAreStable`, `SecuredHasController`, `SecuredUntilClosed`,
`SessionsAreNotMoved`, `JoystickKeepsRange`, and `FlagMatches` and `FileIsCurrent` of `HapServer`), are proved for every instance
instead; see [Proofs](#proofs).

Four more runs show [disagreements](#disagreements-found): `pairingsArePersistent`,
`requestIsWhole`, `paddingIsStandard`, `sessionKeyIsHash`.

The bounds, and why they are enough:

- `MaxPairings` 3, with 4 controllers in `pairings`: a hole before and after a live record, and a
  full table with a controller left over. In `server` 3 slots, 3 controllers, and
  `MaxRestored` 2, so that the table can outgrow the file (14 of 16 in the code).
- `MaxHttpSessions` 2 in `server`: two sessions that race in an exchange, and the
  overflow slot. 1 in `tcpServer`: two slots for three connections, so that the table of clients and the
  sessions overflow. The input "end" of a connection is left out of that run: it takes the steps of a request
  Process refuses.
- `MaxAuthAttempts` 1 (100), `PollLimit` 1 (18,000): both sides of the comparison are reached.
- `MaxUnits` 4 and `TmpRoom` 3 in `channel`: requests of two blocks, a block and a half in the receiving
  buffer; `ReqRoom` 4. `MaxRequests` 3: one before, the verification, one after. `MaxNumber` 2: bounds
  the events sent. `EventRoom` 1 is 20 in RpiHap for events of about 130 bytes, `WrapRoom` 1 several hundred.
- `db`: two sessions; four characteristics, one of each kind of permissions, On with two values (a change and a
  change back between polls), Brightness with one, whose events come from writing "ev";
  `MaxElements` 2, so that one element fails and another does not, in both orders. `Room` is the number of
  characteristics: the accessory's five fit a message.
- `lightBulb`: two sessions, so that a subscriber can be overtaken while the other is marked; `Top` 1 and `Turn` 2 with
  values up to 2: on the limit, at the wrap, and beyond (100, 360 and 255 in the code).
- `application`: two controllers, a text longer and one shorter than another; `MaxBoots` 2, a
  process and what the next one reads. The program may end, so a state without a successor is no deadlock there.
- `algorithms`: every size is small, with each relation between sizes that the code branches on kept. Digits of
  nine values, three to a number, and the prime 727 just below 9^3; a block of 8 bytes with messages of 0 to 34
  (up to past two rings); limbs of 2 bits in words of 8 (26 in 32), modulus 2^10 - 3; field of 2^15 - 19 with
  real bytes and the code's constants 38 and 218, all private keys of two residues; fragments of 3 bytes (255);
  15 tokens (100, 200) and a parent's index of 26 values (256). A hash in use has two bytes, a message of it up to past two rings,
  and the length of a MAC cuts it or does not; texts of responses have 3, 4 and 8 characters, with a buffer of 86 and
  a counter of 8 bits (16), and events after one that did not fit are left out; a pairing message has three types,
  6 items and a buffer of 2 to 29 bytes, below and above what each content takes. Nothing is shown about sizes that differ in kind, such as the
  carries' width against 26 bits.
- Controllers, keys and connections are symmetric, and symmetry is used only where no liveness
  property is checked.

Deadlock is checked in every run but `application`.

## Disagreements found

Each of these is a run that ends in a violation, with the sentence of the code it contradicts.

- `pairingsArePersistent` (`FileConfig.h:319`): "pairings DB, persistent across reboots". With 15 or 16 controllers
  `_restore` runs out of tokens and the defaults replace all pairings and keys.
- `requestIsWhole` (`HapHttp.cpp:195`): Process reads "until complete HTTP request is arrived". It ends with
  the headers: a body in a later segment is not waited for.
- `paddingIsStandard` (`Sha512.cpp:91`): a message of 111 bytes (modulo 128), or of 239 to 255 (modulo 256), is
  padded or compressed in another way than SHA-512 says.
- `sessionKeyIsHash` (`Srp.cpp:217`): "K = H(S)". S without its leading zeros is hashed at
  full length, with what the buffer held before behind it: about one exchange in 128 fails.

Weaker forms are what does hold, and the passing runs have
them: `PowerCycleKeepsPairings`, `SimpleIsServed`, `HashIsStandard`, `SrpAsDocumented`.

Others were met while modelling. The models have the behaviour, and the properties except
it where they would meet it; no run of its own shows it:

- A session keeps the pointer to its controller's record when the controller is removed; the next one to get
  the record is acted for, with its permission (`HapHttp.cpp:1354`; `Inherited` of `Authority`).
- A pair-setup that is under way when the servers are stopped and started in one process belongs to a session without a
  client: every later one is answered Busy until the process ends (`HapHttp.cpp:57`, `HapTcp.cpp:206`).
- The permission of an added pairing is not checked (`HapHttp.cpp:1295`): with the byte 0xFF of
  `Perm::None` the controller is answered success and is not paired.
- Events without a request in between use up the response buffer: the 21st or so in RpiHap is cut off (`HapHttp.cpp:629`).
- A pair-setup or pair-verify request without a State makes no response, and the one that is
  in the buffer from before is sent again (`HapHttp.cpp:262`); a pairings request without one is answered 400.
- The counter of "unsuccessfull auth attempts" counts the exchanges that are begun, and nothing resets it (`HapHttp.cpp:725`).
- In a GET, an element after one that failed is reported with the older status (`HapDb.h:2086`); and the answer can be
  400, "all reads completed with error", when one was read (`HapDb.h:2136`).
- SIGINT is not handled "gracefully" (`RpiHap.cpp:756`) in three cases: it comes before `pause()` and is lost (`RpiHap.cpp:763`);
  Stop waits for a task in `recv` of a client that sends nothing, in the middle of a request or because select failed
  (`HapTcp.cpp:161`, `HapTcp.cpp:72`); mDNS misses the notification of its Stop (`HapMdns.cpp:108`).
- Data behind an encrypted block makes the loop overwrite what it has decrypted (`HapHttp.cpp:161`).
- A token's parent is a signed byte: with more than 128 tokens a request is misread (`jsmn.h:50`).
- `User::auth` subtracts without the modulo, which differs when B is less than k g^x (`Srp.cpp:319`).
- The time the reset button has to be held is summed over all presses (`RpiHap.cpp:358`).
- The key agreement does not mask the top bit of the peer's key as the standard asks (`Curve25519.cpp:269`).

## Fairness

- `TcpServer`: weak fairness of `Task`. It is a thread of its own; an
  action of it is enabled iff it does not wait in `recv`, and a call of select ends at the latest with its
  time-out. Clients and Stop are not fair. recv has no time-out, so the promises to clients suppose
  `RequestsAreWhole`, that the task comes out of recv again and again. Silence is counted only when select times out, so
  `SilentClientIsClosed` supposes that it does again and again: clients that between them never pause for 0.1 s
  keep a silent one open.
- `HttpChannel`: weak fairness of `Accessory`, the network task that serves the connection, and of
  `ReceiveFrame`, TCP that delivers what was sent. The controller need not send.
- `Db`: weak fairness of the `End` of a request, which the code reaches after finitely many elements, and strong fairness of the
  poll of each session between requests, which `TcpServer` shows the task to make when clients
  are quiet. `SubscriberCatchesUp` therefore says nothing for a server under steady traffic.
- `Application`: weak fairness of main, of the network task, of the mDNS thread and of each save: they are threads that wait
  only where the model says so. Nobody has to send: `Receive`, `Served` and `ChangeTable` are not fair, and `SignalIsHandled`
  supposes `ClientsFinish`, that the task comes out of `recv` again and again. Strong fairness of `StopTcp`: it needs the
  network task at the head of its loop, where it is again and again then, and where `running` ends it at the first time
  in the code; the round that is under way has at most one request of each client.
- `Pairings`, `HapServer` and `LightBulb` have safety properties only.

## Proofs

`tlapm` proves, for all values of the constants that satisfy the named assumptions (numbers of
slots and sessions positive, `NoId` no controller, `Free` no connection, buffers of at least a block and the like):

- **PairingTableProofs**: what each operation returns and preserves. The core is
  `WellFormed`: every live record has a controller, and no slot in front of it, free ones
  included, has its identifier. `Add` keeps it because it stops at the first of both kinds of
  slots; `Remove` because it only clears. `SavedRecords` and `SavedSameMap` say that
  compaction keeps the records and the map.
- **PairingsProofs**: `WellFormed` is inductive. From it follow `FirstIsLive`, `NoSlotLost`,
  `RemoveIsEffective`, `RecordsAreStable` (a live record keeps its controller and key), and that every step is a step of `PairingMap`
  or leaves the map alone (`ImplementsMap`).
- **HapServerProofs**: the inductive invariant `IInv` joins types, `WellFormed`, a current
  file, the flag, and three ties between sessions, exchange and table. `SetupOnUnpaired` is
  inductive only with them: an administrator's request proves that the table is not
  empty only if secured sessions have a controller; and the end of the process keeps it only
  because the exchange ends too. All of the run's properties are proved, the refinements of `Authority` and
  `Sessions` included, besides types, flag and file. `ImplementsAuthority` needs what the table's operations do to records,
  not only to the map: which record a new controller gets decides who is acted for (`AddFills`), and a removal frees that of
  the removed controller and no other (`RemoveFrees`). `ImplementsSessions` needs that whatever a client holds is open
  (`HeldAreOpen`). That a session stays secured until it is closed, which `Sessions` implies, is also proved by itself
  (`SecuredStays`), as it does not depend on who holds it.
- **HttpChannelProofs**: `TypeOK`, `InStep` and `SimpleIsServed`. `InStep` is about the first message on its way, but a message
  becomes first when the one before is received: `ChannelInv` numbers all of them. Its `Changeover` has three
  cases: both ends plain (`BothPlain`), both secured and the messages numbered from the controller's count on
  (`BothSecured`), or the accessory secured and the answer that makes the controller so still under way,
  plain up to its last frame and numbered behind it (`AnswerSecures`). The second case could
  be lost if a plain answer came after: `Answers` says that at most one answer is under way and only to a request that
  waits, and for that `FirstUnits` says that the first unit of a request reaches the loop only
  while the request waits, so that what is left of an old one is never taken for it.
  `SimpleIsServed` needs to know what is in the buffers (`SimpleInv`): as long as all requests were simple, either none waits and
  nothing is left of the ones before, or what was decrypted, what waits to be and what is on the way are, in this
  order, exactly the units of the one request that waits (`Waiting`), so that the block is complete when its second half
  arrives and a plain head is complete with its last unit, never before.
  Behind these, the module proves what the channel takes as done, that responses are sent whole. `ResponsesAreWhole` says it
  of all answers and events of a session, in any order: an answer gets the whole buffer, an event what is left of it, and
  how much that is, `_max`, is known from the calls since the last request (`RoomIsKnown`), one that did not fit excepted.
  It rests on a theorem for each form of response that `class Response` makes (`BareResponsesAreWhole`,
  `TextResponsesAreWhole`, `FilledResponsesAreWhole`): for any length of the lines, any buffer that 16 bits
  count, any data and whatever the response before left in `_len_pos`. `Holds`, that the buffer begins with the text
  so far, is kept by each call; the hypothesis is the room it takes, the lengths that `add` subtracts twice included
  (one more than is filled, for the end that `snprintf` writes).
- **AlgorithmProofs**: what the objects of `HashStream`, `Poly1305` and `TlvMessage` compute, for messages of any length.
  - A hash that was fed a text in any pieces has compressed exactly the blocks of the text, and has the rest in the half
    of its buffer that is next (`HashOf`); of what else is in the buffer nothing is said, and `fini` does not need it. From
    that, two pieces are hashed as one (`HashOfPieces`), and whatever is fed is hashed as the standard says
    (`HashesAreStandard`), the lengths of `paddingIsStandard` and those `L` cannot count excepted. An HMAC and a key derived with
    it are those of RFC 2104 and RFC 5869 (`HmacsAreNested`): the inner and the outer hash are two such hashes (`StreamInvariant`).
  - What is written to a pairing message is read back (`MessagesAreReadBack`): any contents, one of each type, in any order, into
    buffers of any size. `MessageInv` says that a message that fitted is its items laid end to end (`Laid`), and that the items
    of a type are the pieces of one content, in one run. Creating, parsing and joining are recursive functions; that they
    exist for every length is `Recursion`. An integer is a number of any size here, where the code has 32 bits.
  - `Poly1305::update` takes a piece after any text as if both had come at once (`PiecesDoNotMatter`), for any size of a block:
    the blocks and the rest are those of the whole text (`Gathered`), by the division of its length.
  - `Aead::exec` opens what it has locked, with the same tag (`LockedOpens`).
- **CharacteristicProofs**, of `Events` and `Db`: of `Events`, `TypeOK`, `FlagsOfOpenSessions` and `SubscriberIsCurrent` are inductive
  together; the last needs `RoomForAll`, that a message has room for every
  characteristic, which is stated in the theorem. Requests refine `Events` element by element, and so inherit
  its properties; `PutAnswerIsTrue` needs only the counters' bounds (`Counted`) besides, and `GetAnswerIsTrue` that a
  status of success means that no error is counted, and any other one that fewer elements were blamed than counted (`ReadSoFar`).
  They suppose `Identified`, that the ids of the tree lead back to
  their characteristics, which TLC evaluates for the tree of `MCDb`.
- **CharacteristicProofs**, of `EventsThreads` and `LightBulb`: `CleanInv` says, for a change that runs alone, what the thread has done for each session at
  its place in Value(): sessions it has passed are marked or know the new value, those in front still
  know the old one or were marked before, and nobody else is at work. It follows that an
  alone change makes up for whatever was lost, which is `CurrentAfterCleanChange` for `EventsThreads` and for `LightBulb`. `LampInv` adds the lamp:
  what the thread owes is what it stores, and what the handler has shown is what it stores. Besides, a characteristic
  "On" keeps to 0 and 1, since the joystick's step from it is 1 - v.
- **TcpServerProofs**: `IInv` adds to the safety properties that clients have been
  accepted, that the reader's slot has a session, that lost sessions belong to no client, and
  that only a slot whose turn is to come has a counter over the limit (without which the
  counter's type is not inductive), and that a slot's counter is the silence of the client in it (`CountsAreSilence`), which
  is why none is closed for another's (`OnlySilentGo`). A new client's session is new because all bound and lost sessions
  are open; for the same reason each step is one of `Sessions` (`ImplementsSessions`), and besides, no client takes over
  the session of another (`NoTakeover`).
- **ApplicationProofs**: `AppTypeOK`, `FileIsCurrent`, `FlagMatches` and `AdvertisedIsCurrent` follow from one inductive
  invariant, `AppInv`. A save formats the configuration before it writes it, so the invariant has to say when the
  formatted text is still the one in memory (`Texts`): always for the network task, which makes the changes, for main
  unless the two have overlapped, and for main in any case if it saves alone and no change waits for its save, which is
  the case `FileIsCurrent` needs and `FlagMatches` does not. `SavesAlone` says that the file is still
  empty then, so that what is written is whole. `Announced` follows the flag on its way to the service, from the change
  over `news` and the text to the client. It supposes a finite set of controllers and at least one
  start (`ControllerAssumption`, `BootsAssumption`).

Only model-checked are:

- all liveness properties: fairness and `ENABLED` are beyond the prover;
- `MdCorrect`, `SrpAsDocumented`, `AeadIsStandard` and `CurveIsStandard`: each relates long arithmetic, digit by digit or limb by limb,
  to numbers and their remainders, which are sums and powers of variable length;
- `JsonRoundTrip` and `HttpPieces`: `Json` and `HttpParser` have `RECURSIVE` operators, which the prover does not
  take; no module with proofs reaches them.

Principles of induction take an operator as their parameter, and cannot be cited. The proofs about loops use induction over
a set instead, a number at a time (`Numbers`, from the well-foundedness of strict inclusion), as the least slot of a
scan in `PairingTableProofs` does (`FirstInSet`).

## What is not modelled

- `Ed25519.cpp` and the block functions of SHA-512 and ChaCha20: tables and straight-line arithmetic with test vectors
  in `CryptoTest/`.
- The texts of answers, and conversions of numbers in JSON; colours and the LED and I2C drivers.
- Parsing of HTTP responses and chunked bodies, which the program does not use.
- The last slot of the network task while it is free: what is behind `pollCount` may be over the limit then, and the task
  closes descriptor 0, which a later connection may get (`HapTcp.cpp:185`). Urgent data, which fills exceptfds.
- `Windows/HapTcp.cpp`, the network task over Winsock; its mDNS is that of Linux line by line, and mapped.
- Errors of socket, bind and listen; a full disk is a save that fails at its start.
- Logging, the command line, the test programs.

## What could follow

1. The Windows network task as a variant of `TcpServer`.
2. Composition of `TcpServer`, `HapServer` and `Db` as one specification: sessions already tie the first two
   (`Sessions`), but requests and events are only named in `TcpServer`.
3. `MD` and `Poly1305`'s polynomial for numbers of any length, by induction over digits as in `AlgorithmProofs`.
