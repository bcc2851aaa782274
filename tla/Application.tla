----------------------------- MODULE Application -----------------------------
(***************************************************************************)
(* The program RpiHap around its servers (RpiHap/RpiHap.cpp, hapServer):   *)
(* the main thread and its loop, the network task, seen as the requests it *)
(* receives, the changes they make to the table of controllers and the     *)
(* call of config->Update after each, the mDNS thread (Linux/HapMdns.cpp, as Windows/HapMdns.cpp), and  *)
(* the configuration file (Util/FileConfig.h), saved by two threads        *)
(* without a lock.                                                         *)
(*                                                                         *)
(* A save opens and so empties the file, reads the configuration while it  *)
(* formats it, and hands all of it (less than 4096 bytes) to the file      *)
(* system at fclose.  The process may end between any two steps.           *)
(***************************************************************************)
EXTENDS Naturals, FiniteSets

CONSTANTS Controller, MaxBoots   \* MaxBoots bounds the starts of the process

ASSUME ControllerAssumption == IsFiniteSet(Controller)
ASSUME BootsAssumption == MaxBoots \in Nat \ {0}

VARIABLES
  main,        \* where the main thread is
  net,         \* where the network task is
  mdns,        \* where the mDNS thread is
  cfg,         \* the configuration in memory: pairings and status flag
  file,        \* what the file holds
  save,        \* the save each thread is in
  news,        \* mdnsUpdate, of the network task
  Restart, reset,
  handlers,    \* the signals that have a handler
  running, client, txt, advertised,  \* of the mDNS thread
  boots,
  spoilt,      \* history: the last save failed or met another one
  overlapped,  \* history: main has saved while the network task was at work,
               \* and the program has not read a good file since
  raced        \* history: mdns->Update has met DNSServiceRegister

config == <<cfg, file, save, spoilt, overlapped>>
announce == <<mdns, running, client, txt, advertised, raced>>
control == <<Restart, reset, handlers, boots>>
vars == <<main, net, news, config, announce, control>>

Thread == {"main", "net"}
Signals == {"SIGINT", "SIGTERM"}
Text == [table : SUBSET Controller, notPaired : BOOLEAN]
Default == [table |-> {}, notPaired |-> TRUE]

(* The text is as long as it has controllers.  A text written over a       *)
(* longer one leaves the end of that behind it, and is not read then.      *)
Size(text) == 1 + Cardinality(text.table)
Whole(f) == f.size = Size(f.text)
(* The network task when no change of the table is under way.              *)
Resting == {"off", "idle", "recv"}
Empty == [text |-> Default, size |-> 0]
NotSaving == [pc |-> "no", text |-> Default, alone |-> TRUE]

AppTypeOK ==
  /\ main \in {"init", "save", "start", "onInt", "onTerm", "toPause", "pause", "final",
               "stopTcp", "stopMdns", "notify", "join", "ended"}
  /\ net \in {"off", "idle", "recv", "changed", "save", "text", "publish"}
  /\ mdns \in {"off", "register", "registering", "test", "tested",
               "wait", "leave"}
  /\ cfg \in Text
  /\ file \in [text : Text, size : 0 .. 1 + Cardinality(Controller)]
  /\ save \in [Thread -> [pc : {"no", "open", "flags", "all"}, text : Text, alone : BOOLEAN]]
  /\ handlers \subseteq Signals
  /\ \A b \in {news, Restart, reset, running, client, txt, advertised,
               spoilt, overlapped, raced} : b \in BOOLEAN
  /\ boots \in 1 .. MaxBoots

(* There is no file yet, and so nothing the option --reset could change.   *)
Init ==
  /\ main = "init" /\ net = "off" /\ mdns = "off"
  /\ cfg = Default
  /\ file = Empty
  /\ save = [t \in Thread |-> NotSaving]
  /\ reset = FALSE
  /\ Restart = FALSE /\ handlers = {} /\ running = FALSE /\ client = FALSE
  /\ txt = TRUE /\ advertised = TRUE /\ news = FALSE
  /\ boots = 1
  /\ spoilt = FALSE /\ overlapped = FALSE /\ raced = FALSE
-----------------------------------------------------------------------------
(* Config::Init: the file, or else the defaults; reset on top of either.   *)
Restored(f) == IF Whole(f) THEN f.text ELSE Default

Torn(f) == Whole(f) /\ f.text.notPaired # (f.text.table = {})

InitConfig ==
  /\ main = "init"
  /\ cfg' = IF reset THEN Default ELSE Restored(file)
  /\ main' = "save"
  /\ overlapped' = (overlapped /\ Torn(file))
  /\ UNCHANGED <<net, news, file, save, spoilt, announce, control>>
-----------------------------------------------------------------------------
(* FileConfig::_save, by the thread t.                                     *)
Saves(t) == IF t = "main" THEN main \in {"save", "final"} ELSE net = "save"
Other(t) == CHOOSE o \in Thread : o # t

(* Save returns nothing and Init ignores what _save returns.               *)
Go_KeepsFlag(t) ==
  IF t = "main" THEN /\ main' = IF main = "save" THEN "start" ELSE "stopTcp"
                     /\ UNCHANGED <<net, news>>
                ELSE /\ net' = "idle"
                     /\ news' = FALSE
                     /\ UNCHANGED main
Go(t) ==
  IF t = "main" THEN /\ main' = IF main = "save" THEN "start" ELSE "stopTcp"
                     /\ UNCHANGED <<net, news>>
                ELSE /\ net' = IF news THEN "text" ELSE "idle"
                     /\ news' = FALSE
                     /\ UNCHANGED main

CannotOpen(t) ==
  /\ Saves(t) /\ save[t].pc = "no"
  /\ spoilt' = TRUE
  /\ save' = [save EXCEPT ![Other(t)].alone = FALSE]
  /\ Go(t)
  /\ UNCHANGED <<cfg, file, overlapped, announce, control>>

(* fopen with "w+b".                                                       *)
OpenFile_Appends(t) ==
  /\ Saves(t) /\ save[t].pc = "no"
  /\ LET alone == save[Other(t)].pc = "no"
     IN save' = [save EXCEPT ![t] = [NotSaving EXCEPT !.pc = "open", !.alone = alone],
                            ![Other(t)].alone = FALSE]
  /\ overlapped' = (overlapped \/ (t = "main" /\ net \notin Resting))
  /\ UNCHANGED <<main, net, news, cfg, file, spoilt, announce, control>>
OpenFile(t) ==
  /\ Saves(t) /\ save[t].pc = "no"
  /\ file' = Empty
  /\ LET alone == save[Other(t)].pc = "no"
     IN save' = [save EXCEPT ![t] = [NotSaving EXCEPT !.pc = "open", !.alone = alone],
                            ![Other(t)].alone = FALSE]
  /\ overlapped' = (overlapped \/ (t = "main" /\ net \notin Resting))
  /\ UNCHANGED <<main, net, news, cfg, spoilt, announce, control>>

FormatFlags(t) ==
  /\ save[t].pc = "open"
  /\ save' = [save EXCEPT ![t].pc = "flags", ![t].text.notPaired = cfg.notPaired]
  /\ UNCHANGED <<main, net, news, cfg, file, spoilt, overlapped, announce, control>>

(* Pairings::Save; the keys and the values of the lamp go with it.         *)
FormatTable(t) ==
  /\ save[t].pc = "flags"
  /\ save' = [save EXCEPT ![t].pc = "all", ![t].text.table = cfg.table]
  /\ UNCHANGED <<main, net, news, cfg, file, spoilt, overlapped, announce, control>>

Longest(a, b) == IF a < b THEN b ELSE a
CloseFile(t) ==
  /\ save[t].pc = "all"
  /\ file' = [text |-> save[t].text, size |-> Longest(file.size, Size(save[t].text))]
  /\ save' = [save EXCEPT ![t] = NotSaving]
  /\ spoilt' = ~save[t].alone
  /\ Go(t)
  /\ UNCHANGED <<cfg, overlapped, announce, control>>
-----------------------------------------------------------------------------
(* The network task between two rounds of select, and in Process, where    *)
(* recv waits for the client without a limit.  It can also wait for one    *)
(* that sends nothing: when tcp->Stop closes the listening socket between  *)
(* the head of the loop and select, select fails, and every client is      *)
(* taken to have sent.                                                     *)
NetGoes(from, to) ==
  /\ net = from
  /\ net' = to
  /\ UNCHANGED <<main, news, config, announce, control>>

Receive == NetGoes("idle", "recv")

(* The request changes no pairing, or the client has closed.               *)
Served == NetGoes("recv", "idle")

(* The request changes the table and calls config->Update, the lambda of   *)
(* hapServer: the flag, then a save, then mDNS if the flag has changed.    *)
ChangeTable ==
  /\ net = "recv"
  /\ \E c \in Controller :
       cfg' = [cfg EXCEPT !.table = IF c \in @ THEN @ \ {c} ELSE @ \cup {c}]
  /\ net' = "changed"
  /\ overlapped' = (overlapped \/ (main = "final" /\ save["main"].pc # "no"))
  /\ UNCHANGED <<main, news, file, save, spoilt, announce, control>>

Update_OnlyPaired ==
  /\ net = "changed"
  /\ news' = (cfg.table # {} /\ cfg.notPaired)
  /\ cfg' = [cfg EXCEPT !.notPaired = @ /\ cfg.table = {}]
  /\ net' = "save"
  /\ UNCHANGED <<main, file, save, spoilt, overlapped, announce, control>>
Update ==
  /\ net = "changed"
  /\ news' = (cfg.notPaired # (cfg.table = {}))
  /\ cfg' = [cfg EXCEPT !.notPaired = (cfg.table = {})]
  /\ net' = "save"
  /\ UNCHANGED <<main, file, save, spoilt, overlapped, announce, control>>

(* Mdns::Update: without a client the text is only kept.                   *)
NewText ==
  /\ net = "text"
  /\ txt' = cfg.notPaired
  /\ net' = "publish"
  /\ UNCHANGED <<main, news, config, mdns, running, client, advertised, raced, control>>

Publish ==
  /\ net = "publish"
  /\ advertised' = IF client THEN txt ELSE advertised
  /\ raced' = (raced \/ (~client /\ mdns = "registering"))
  /\ net' = "idle"
  /\ UNCHANGED <<main, news, config, mdns, running, client, txt, control>>
-----------------------------------------------------------------------------
(* Mdns::run.                                                              *)
MdnsGoes(from, to) ==
  /\ mdns = from
  /\ mdns' = to
  /\ UNCHANGED <<main, net, news, config, running, control>>

(* update() makes the text, the service takes it, and the client is there  *)
(* when the call returns.                                                  *)
Register ==
  /\ MdnsGoes("register", "registering")
  /\ txt' = cfg.notPaired
  /\ advertised' = cfg.notPaired
  /\ UNCHANGED <<client, raced>>

Registered ==
  /\ MdnsGoes("registering", "test")
  /\ client' = TRUE
  /\ UNCHANGED <<txt, advertised, raced>>

RegisterFails ==
  /\ MdnsGoes("registering", "off")
  /\ UNCHANGED <<client, txt, advertised, raced>>

(* cv.wait: the test of running, then the wait.  Both hold the mutex, but  *)
(* Stop does not take it.                                                  *)
TestRunning ==
  /\ IF running THEN MdnsGoes("test", "tested") ELSE MdnsGoes("test", "leave")
  /\ UNCHANGED <<client, txt, advertised, raced>>

Wait ==
  /\ MdnsGoes("tested", "wait")
  /\ UNCHANGED <<client, txt, advertised, raced>>

Leave ==
  /\ MdnsGoes("leave", "off")
  /\ client' = FALSE
  /\ UNCHANGED <<txt, advertised, raced>>

MdnsStep == Register \/ Registered \/ RegisterFails \/ TestRunning \/ Wait \/ Leave
-----------------------------------------------------------------------------
(* The loop of hapServer.                                                  *)
MainGoes(from, to) ==
  /\ main = from
  /\ main' = to
  /\ UNCHANGED <<news, config, txt, client, advertised, boots>>

(* The lamp, the database, mDNS and the network task.                      *)
Start ==
  /\ MainGoes("start", "onInt")
  /\ running' = TRUE
  /\ mdns' = "register"
  /\ net' = "idle"
  /\ raced' = FALSE
  /\ UNCHANGED <<Restart, reset, handlers>>

(* The two calls of signal(), and then pause().                            *)
Handle(sig, from, to) ==
  /\ MainGoes(from, to)
  /\ handlers' = handlers \cup {sig}
  /\ UNCHANGED <<net, mdns, running, raced, Restart, reset>>
Handlers == Handle("SIGINT", "onInt", "onTerm") \/ Handle("SIGTERM", "onTerm", "toPause")

Pause ==
  /\ MainGoes("toPause", "pause")
  /\ UNCHANGED <<net, mdns, running, raced, Restart, reset, handlers>>

(* tcp->Stop joins the network task, which leaves its loop at the head of  *)
(* it only: not while it is in a request.                                  *)
StopTcp_NoJoin ==
  /\ MainGoes("stopTcp", "stopMdns")
  /\ net' = "off"
  /\ UNCHANGED <<mdns, running, raced, Restart, reset, handlers>>
StopTcp ==
  /\ net = "idle"
  /\ MainGoes("stopTcp", "stopMdns")
  /\ net' = "off"
  /\ UNCHANGED <<mdns, running, raced, Restart, reset, handlers>>

(* mdns->Stop: the notification wakes the thread only if it waits.         *)
StopMdns ==
  /\ MainGoes("stopMdns", "notify")
  /\ running' = FALSE
  /\ UNCHANGED <<net, mdns, raced, Restart, reset, handlers>>

Notify_Never ==
  /\ MainGoes("notify", "join")
  /\ UNCHANGED <<net, mdns, running, raced, Restart, reset, handlers>>
Notify ==
  /\ MainGoes("notify", "join")
  /\ mdns' = IF mdns = "wait" THEN "leave" ELSE mdns
  /\ UNCHANGED <<net, running, raced, Restart, reset, handlers>>

(* The end of the loop, once the thread has been joined.                   *)
EndLoop ==
  /\ main = "join" /\ mdns = "off"
  /\ main' = IF Restart THEN "init" ELSE "ended"
  /\ reset' = (reset \/ Restart)
  /\ Restart' = FALSE
  /\ UNCHANGED <<net, news, config, announce, handlers, boots>>

MainStep ==
  \/ InitConfig \/ Start \/ Handlers \/ Pause
  \/ StopTcp \/ StopMdns \/ Notify \/ EndLoop
-----------------------------------------------------------------------------
(* SIGINT and SIGTERM end the process as long as they have no handler (see *)
(* PowerCycle).  The handlers do nothing, so that a signal ends pause(),   *)
(* and is lost when main is anywhere else, be it just before pause().      *)
Signal(sig, restart) ==
  /\ sig \in handlers /\ main # "ended"
  /\ restart \/ main = "pause"
  /\ Restart' = (Restart \/ restart)
  /\ main' = IF main = "pause" THEN "final" ELSE main
  /\ UNCHANGED <<net, news, config, announce, reset, handlers, boots>>

Terminate == \E sig \in Signals : Signal(sig, FALSE)

(* do_restart, by the thread of the lamp.                                  *)
LampRuns == main \notin {"init", "save", "start", "ended"}
RestartButton == LampRuns /\ ~Restart /\ Signal("SIGINT", TRUE)

(* The process ends, at any moment, or has ended, and is started again.    *)
PowerCycle ==
  /\ boots < MaxBoots
  /\ boots' = boots + 1
  /\ main' = "init" /\ net' = "off" /\ mdns' = "off"
  /\ cfg' = Default
  /\ save' = [t \in Thread |-> NotSaving]
  /\ reset' \in BOOLEAN
  /\ Restart' = FALSE /\ handlers' = {} /\ running' = FALSE /\ client' = FALSE
  /\ txt' = TRUE /\ advertised' = TRUE /\ news' = FALSE /\ raced' = FALSE
  /\ UNCHANGED <<file, spoilt, overlapped>>

SaveStep(t) ==
  OpenFile(t) \/ CannotOpen(t) \/ FormatFlags(t) \/ FormatTable(t) \/ CloseFile(t)
NetStep == Update \/ NewText \/ Publish

Next ==
  \/ MainStep \/ NetStep \/ MdnsStep
  \/ \E t \in Thread : SaveStep(t)
  \/ Receive \/ Served \/ ChangeTable \/ Terminate \/ RestartButton \/ PowerCycle

Spec == Init /\ [][Next]_vars

(* Threads run on; nobody has to send a request, press the button or send  *)
(* a signal, and a client that the task receives from has to do nothing.   *)
(* Once running is cleared, the round of select under way is the last: a   *)
(* task that comes back to idle again and again is found by tcp->Stop.     *)
FairSpec ==
  /\ Spec
  /\ WF_vars(MainStep) /\ WF_vars(NetStep) /\ WF_vars(MdnsStep)
  /\ \A t \in Thread : WF_vars(SaveStep(t))
  /\ SF_vars(StopTcp)
-----------------------------------------------------------------------------
Quiet == net \in Resting /\ main \notin {"init", "save"}
         /\ \A t \in Thread : save[t].pc = "no"

(* Once no thread saves and no request is under way, the file holds the    *)
(* pairings and the flag in memory, whole, whatever saves were cut short   *)
(* or overwritten before; except after a save that failed or met another   *)
(* one, until the next.                                                    *)
FileIsCurrent == Quiet /\ ~spoilt => Whole(file) /\ file.text = cfg

(* The flag agrees with the table between requests, and after a restart    *)
(* from the file, unless main saved during a change and so wrote the flag  *)
(* and the table of different moments.                                     *)
FlagMatches ==
  net \in Resting /\ ~overlapped => cfg.notPaired = (cfg.table = {})

(* The flag that is advertised is the one in memory, but for a change that *)
(* met the registration of the service.                                    *)
AdvertisedIsCurrent ==
  client /\ net \in {"idle", "recv"} /\ ~raced => advertised = cfg.notPaired

(* No client keeps the network task in recv for ever.                      *)
ClientsFinish == []<>(net # "recv")

(* RpiHap/RpiHap.cpp:756 "gracefully handle SIGINT and SIGTERM": a signal  *)
(* that ends pause() has the configuration saved and the servers stopped,  *)
(* whatever they are doing, and the program ends or starts anew.  Three    *)
(* ways in which the code handles no signal are not in it:                 *)
(*   - one that comes before pause() ends nothing (Signal);                *)
(*   - tcp->Stop waits for a network task that waits in recv for a client  *)
(*     that neither sends nor closes (ClientsFinish);                      *)
(*   - mdns->Stop waits for a thread that missed its notification, between *)
(*     the test of running and the wait; so the thread has to have come to *)
(*     its wait, or to have failed to register, when the signal comes.     *)
SignalIsHandled ==
  ClientsFinish =>
    ((main = "final" /\ mdns \in {"wait", "off"}) ~> main \in {"ended", "init"})
=============================================================================
