-------------------------- MODULE ApplicationProofs --------------------------
(***************************************************************************)
(* Proofs about Application, for every finite set of controllers and every *)
(* number of starts of the process.                                        *)
(*                                                                         *)
(* What a thread has formatted goes stale when the configuration changes,  *)
(* so the invariant says of each save whether the text it has is still the *)
(* one in memory: always for the network task, which makes the changes;    *)
(* for main unless the two have overlapped; and for main, overlapped or    *)
(* not, if it saves alone and no change waits for its own save.            *)
(***************************************************************************)
EXTENDS Application, FiniteSetTheorems, TLAPS

USE DEF Resting

Phases ==
  /\ save["main"].pc # "no" => main \in {"save", "final"}
  /\ save["net"].pc # "no" => net = "save"
  /\ main \notin {"onInt", "onTerm", "toPause", "pause", "final", "stopTcp"} => net = "off"
  /\ main \in {"init", "save", "start", "ended"} => mdns = "off"
  /\ client <=> mdns \in {"test", "tested", "wait", "leave"}

Alone(t) == save[t].pc # "no" /\ save[t].alone => file = Empty /\ save[Other(t)].pc = "no"
SavesAlone == Alone("main") /\ Alone("net")

(* Once the service has the text, what it has not is on its way.           *)
Announced ==
  (client \/ mdns = "registering") /\ ~raced =>
    /\ net \in Resting \cup {"changed"} => advertised = cfg.notPaired
    /\ net = "save" /\ ~news => advertised = cfg.notPaired
    /\ net = "publish" => txt = cfg.notPaired

Match == cfg.notPaired = (cfg.table = {})

Flags ==
  /\ net \in {"save", "text", "publish"} => Match
  /\ ~overlapped =>
       /\ net \in Resting => Match
       /\ ~Torn(file)
       /\ save["main"].pc # "no" => net \in Resting

Formatted(t) ==
  /\ save[t].pc \in {"flags", "all"} => save[t].text.notPaired = cfg.notPaired
  /\ save[t].pc = "all" => save[t].text.table = cfg.table

Texts ==
  /\ Formatted("net")
  /\ ~overlapped => Formatted("main")
  /\ save["main"].alone /\ net \notin {"changed", "save"} => Formatted("main")

Current ==
  /\ ~spoilt
  /\ save["main"].pc = "no" /\ save["net"].pc = "no"
  /\ net \notin {"changed", "save"} /\ main \notin {"init", "save"}
  => Whole(file) /\ file.text = cfg

AppInv ==
  AppTypeOK /\ Phases /\ SavesAlone /\ Announced /\ Flags /\ Texts /\ Current
-----------------------------------------------------------------------------
LEMMA TwoThreads ==
  /\ Thread = {"main", "net"}
  /\ Other("main") = "net" /\ Other("net") = "main"
BY DEF Thread, Other

Writing == [pc : {"no", "open", "flags", "all"}, text : Text, alone : BOOLEAN]

(* The type invariant, part by part.                                       *)
LEMMA Types ==
  ASSUME AppTypeOK
  PROVE  /\ cfg \in Text /\ cfg.table \in SUBSET Controller /\ cfg.notPaired \in BOOLEAN
         /\ file.text \in Text /\ file.size \in 0 .. 1 + Cardinality(Controller)
         /\ file = [text |-> file.text, size |-> file.size]
         /\ save \in [Thread -> Writing]
         /\ save["main"] \in Writing /\ save["net"] \in Writing
         /\ news \in BOOLEAN /\ client \in BOOLEAN /\ raced \in BOOLEAN
         /\ spoilt \in BOOLEAN /\ overlapped \in BOOLEAN
         /\ txt \in BOOLEAN /\ advertised \in BOOLEAN
BY TwoThreads DEF AppTypeOK, Text, Writing

(* A text is at least as long as the empty one and at most as long as that *)
(* of all controllers.                                                     *)
LEMMA Sizes ==
  /\ Cardinality(Controller) \in Nat
  /\ \A x \in Text : Size(x) \in 1 .. 1 + Cardinality(Controller)
  /\ Default \in Text /\ Size(Default) = 1
  /\ ~Whole(Empty)
<1>1. Cardinality(Controller) \in Nat
  BY ControllerAssumption, FS_CardinalityType
<1>2. ASSUME NEW x \in Text PROVE Size(x) \in 1 .. 1 + Cardinality(Controller)
  <2>1. x.table \subseteq Controller
    BY DEF Text
  <2>2. IsFiniteSet(x.table) /\ Cardinality(x.table) <= Cardinality(Controller)
    BY <2>1, ControllerAssumption, FS_Subset
  <2>3. Cardinality(x.table) \in Nat
    BY <2>2, FS_CardinalityType
  <2> QED
    BY <1>1, <2>2, <2>3 DEF Size
<1>3. Default \in Text
  BY DEF Default, Text
<1>4. Size(Default) = 1
  BY FS_EmptySet DEF Default, Size
<1> QED
  BY <1>1, <1>2, <1>3, <1>4 DEF Whole, Empty

(* The save of t moves and the other's does not.                           *)
LEMMA OneMoves ==
  ASSUME AppTypeOK, NEW t \in Thread, NEW w,
         save' = [save EXCEPT ![t] = w]
  PROVE  save'[t] = w /\ save'[Other(t)] = save[Other(t)]
BY TwoThreads, Types

LEMMA InitApp == Init => AppInv
<1> SUFFICES ASSUME Init PROVE AppInv
  OBVIOUS
<1>1. save["main"] = NotSaving /\ save["net"] = NotSaving
  BY TwoThreads DEF Init
<1>2. NotSaving.pc = "no" /\ NotSaving \in Writing
  BY Sizes DEF NotSaving, Writing
<1>3. AppTypeOK
  <2>1. file \in [text : Text, size : 0 .. 1 + Cardinality(Controller)]
    BY Sizes DEF Init, Empty
  <2>2. save \in [Thread -> [pc : {"no", "open", "flags", "all"}, text : Text, alone : BOOLEAN]]
    BY <1>2 DEF Init, Writing
  <2>3. boots \in 1 .. MaxBoots
    BY BootsAssumption DEF Init
  <2> QED
    BY <2>1, <2>2, <2>3, Sizes DEF Init, AppTypeOK
<1>4. Match
  BY DEF Init, Match, Default
<1>5. ~Torn(file)
  BY Sizes DEF Init, Torn
<1> QED
  BY <1>1, <1>2, <1>3, <1>4, <1>5
     DEF Init, AppInv, Phases, SavesAlone, Alone, Announced, Flags, Texts, Formatted, Current
-----------------------------------------------------------------------------
LEMMA TypesKept == AppTypeOK /\ [Next]_vars => AppTypeOK'
<1> SUFFICES ASSUME AppTypeOK, [Next]_vars PROVE AppTypeOK'
  OBVIOUS
<1> USE DEF AppTypeOK
<1>0. Default \in Text
  BY Sizes
<1>1. CASE MainStep
  <2>1. CASE InitConfig
    <3>1. cfg' \in Text
      BY <1>0, <2>1, Types DEF InitConfig, Restored
    <3>2. overlapped' \in BOOLEAN
      BY <2>1 DEF InitConfig, Torn
    <3> QED
      BY <2>1, <3>1, <3>2 DEF InitConfig, announce, control
  <2>2. CASE Start
    BY <2>2 DEF Start, MainGoes, config
  <2>3. CASE Handlers
    BY <2>3 DEF Handlers, Handle, Signals, MainGoes, config
  <2>4. CASE StopTcp
    BY <2>4 DEF StopTcp, MainGoes, config
  <2>5. CASE StopMdns
    BY <2>5 DEF StopMdns, MainGoes, config
  <2>6. CASE Notify
    BY <2>6 DEF Notify, MainGoes, config
  <2>7. CASE EndLoop
    BY <2>7 DEF EndLoop, config, announce
  <2>8. CASE Pause
    BY <2>8 DEF Pause, MainGoes, config
  <2> QED
    BY <1>1, <2>1, <2>2, <2>3, <2>4, <2>5, <2>6, <2>7, <2>8 DEF MainStep
<1>2. CASE NetStep
  <2>1. CASE Update
    <3>1. cfg' \in Text
      BY <2>1, Types DEF Update, Text
    <3>2. news' \in BOOLEAN
      BY <2>1 DEF Update
    <3> QED
      BY <2>1, <3>1, <3>2 DEF Update, announce, control
  <2>2. CASE NewText
    BY <2>2, Types DEF NewText, config, control
  <2>3. CASE Publish
    BY <2>3, Types DEF Publish, config, control
  <2> QED
    BY <1>2, <2>1, <2>2, <2>3 DEF NetStep
<1>3. CASE MdnsStep
  <2>1. CASE Register
    BY <2>1, Types DEF Register, MdnsGoes, config, control
  <2>2. CASE Registered \/ RegisterFails \/ TestRunning \/ Wait \/ Leave
    BY <2>2 DEF Registered, RegisterFails, TestRunning, Wait, Leave, MdnsGoes, config, control
  <2> QED
    BY <1>3, <2>1, <2>2 DEF MdnsStep
<1>4. ASSUME NEW t \in Thread, SaveStep(t) PROVE AppTypeOK'
  <2>0. Other(t) \in Thread /\ Other(t) # t /\ save \in [Thread -> Writing]
    BY TwoThreads, Types
  <2>1. CASE OpenFile(t)
    <3>1. save' \in [Thread -> Writing]
      <4> DEFINE w == [NotSaving EXCEPT !.pc = "open", !.alone = save[Other(t)].pc = "no"]
      <4>1. w \in Writing
        BY <1>0 DEF Writing, NotSaving
      <4>2. [save[Other(t)] EXCEPT !.alone = FALSE] \in Writing
        BY <2>0 DEF Writing
      <4>3. save' = [save EXCEPT ![t] = w, ![Other(t)].alone = FALSE]
        BY <2>1 DEF OpenFile
      <4> HIDE DEF w
      <4> QED
        BY <2>0, <4>1, <4>2, <4>3
    <3>2. file' \in [text : Text, size : 0 .. 1 + Cardinality(Controller)]
      BY <1>0, <2>1, Sizes DEF OpenFile, Empty
    <3> QED
      BY <2>1, <3>1, <3>2 DEF OpenFile, Writing, announce, control
  <2>2. CASE CannotOpen(t)
    <3>1. save' \in [Thread -> Writing]
      BY <2>0, <2>2 DEF CannotOpen, Writing
    <3> QED
      BY <2>2, <3>1 DEF CannotOpen, Go, Writing, announce, control
  <2>3. CASE FormatFlags(t)
    <3>1. save' \in [Thread -> Writing]
      BY <2>0, <2>3, Types DEF FormatFlags, Writing, Text
    <3> QED
      BY <2>3, <3>1 DEF FormatFlags, Writing, announce, control
  <2>4. CASE FormatTable(t)
    <3>1. save' \in [Thread -> Writing]
      BY <2>0, <2>4, Types DEF FormatTable, Writing, Text
    <3> QED
      BY <2>4, <3>1 DEF FormatTable, Writing, announce, control
  <2>5. CASE CloseFile(t)
    <3>1. save' \in [Thread -> Writing]
      BY <1>0, <2>0, <2>5 DEF CloseFile, Writing, NotSaving
    <3>2. save[t].text \in Text /\ save[t].alone \in BOOLEAN
      BY <2>0 DEF Writing
    <3>3. file' \in [text : Text, size : 0 .. 1 + Cardinality(Controller)]
      BY <2>5, <3>2, Sizes, Types DEF CloseFile, Longest
    <3> QED
      BY <2>5, <3>1, <3>2, <3>3 DEF CloseFile, Go, Writing, announce, control
  <2> QED
    BY <1>4, <2>1, <2>2, <2>3, <2>4, <2>5 DEF SaveStep
<1>5. CASE ChangeTable
  <2>1. cfg' \in Text
    BY <1>5, Types DEF ChangeTable, Text
  <2>2. overlapped' \in BOOLEAN
    BY <1>5 DEF ChangeTable
  <2> QED
    BY <1>5, <2>1, <2>2 DEF ChangeTable, announce, control
<1>6. CASE Terminate \/ RestartButton \/ Receive \/ Served
  BY <1>6 DEF Terminate, RestartButton, Signal, Receive, Served, NetGoes, config, announce, control
<1>7. CASE PowerCycle
  <2>1. save' \in [Thread -> Writing]
    BY <1>0, <1>7 DEF PowerCycle, Writing, NotSaving
  <2>2. boots' \in 1 .. MaxBoots
    BY <1>7, BootsAssumption DEF PowerCycle
  <2> QED
    BY <1>0, <1>7, <2>1, <2>2 DEF PowerCycle, Writing
<1>8. CASE UNCHANGED vars
  BY <1>8 DEF vars, config, announce, control
<1> QED
  BY <1>1, <1>2, <1>3, <1>4, <1>5, <1>6, <1>7, <1>8 DEF Next
-----------------------------------------------------------------------------
(* What is not about types, with what a step may leave alone expanded.     *)
Rest == Phases /\ SavesAlone /\ Announced /\ Flags /\ Texts /\ Current

(* Both files an InitConfig can start from give flags that match.          *)
LEMMA InitConfigKeeps == AppInv /\ InitConfig => Rest'
<1> SUFFICES ASSUME AppInv, InitConfig PROVE Rest'
  OBVIOUS
<1>1. save["main"].pc = "no" /\ save["net"].pc = "no" /\ net = "off" /\ mdns = "off" /\ ~client
  BY DEF AppInv, Phases, InitConfig
<1>2. ~overlapped' => Match' /\ ~Torn(file)'
  <2>1. Match' \/ Torn(file)
    BY DEF InitConfig, Restored, Match, Torn, Default
  <2>2. Torn(file)' = Torn(file)
    BY DEF InitConfig, Torn, Whole, Size
  <2>3. ~overlapped' => ~Torn(file)
    BY DEF AppInv, Flags, InitConfig
  <2> QED
    BY <2>1, <2>2, <2>3
<1> QED
  BY <1>1, <1>2
     DEF InitConfig, announce, Rest, Phases, SavesAlone, Alone, Announced, Flags, Texts, Formatted, Current

(* The other steps of main's loop, and those of the network task around a  *)
(* request, write neither the configuration nor the file.                  *)
Loop ==
  \/ Start \/ Handlers \/ Pause \/ StopTcp \/ StopMdns \/ Notify \/ EndLoop
  \/ Terminate \/ RestartButton \/ Receive \/ Served

LEMMA LoopKeeps ==
  ASSUME AppInv, Loop
  PROVE  Rest'
<1>0. UNCHANGED <<cfg, file, save, spoilt, overlapped, news, txt, client, advertised>>
  BY DEF Loop, Start, Handlers, Handle, Pause, StopTcp, StopMdns, Notify, EndLoop, Terminate,
         RestartButton, Signal, Receive, Served, NetGoes, MainGoes, config, announce
<1>1. Phases'
  BY <1>0 DEF AppInv, Phases, Loop, Start, Handlers, Handle, Pause, StopTcp, StopMdns, Notify,
     EndLoop, Terminate, RestartButton, Signal, Receive, Served, NetGoes, MainGoes, announce
<1>2. SavesAlone'
  BY <1>0 DEF AppInv, SavesAlone, Alone
<1>3. Announced'
  BY <1>0 DEF AppInv, Phases, Announced, Loop, Start, Handlers, Handle, Pause, StopTcp, StopMdns,
     Notify, EndLoop, Terminate, RestartButton, Signal, Receive, Served, NetGoes, MainGoes, announce
<1>4. net' = net \/ (net \in Resting /\ net' \in Resting)
  <2>1. CASE Start
    BY <2>1 DEF AppInv, Phases, Start, MainGoes
  <2>2. CASE StopTcp
    BY <2>2 DEF StopTcp, MainGoes
  <2>3. CASE Handlers \/ Pause \/ StopMdns \/ Notify \/ EndLoop
    <3>1. UNCHANGED net
      BY <2>3 DEF Handlers, Handle, Pause, StopMdns, Notify, EndLoop
    <3> QED
      BY <3>1
  <2>4. CASE Terminate \/ RestartButton
    <3>1. UNCHANGED net
      BY <2>4 DEF Terminate, RestartButton, Signal
    <3> QED
      BY <3>1
  <2>5. CASE Receive \/ Served
    BY <2>5 DEF Receive, Served, NetGoes
  <2> QED
    BY <2>1, <2>2, <2>3, <2>4, <2>5 DEF Loop
<1>5. Flags'
  <2>1. (Match' <=> Match) /\ (Torn(file)' <=> Torn(file))
    BY <1>0 DEF Match, Torn, Whole, Size
  <2> QED
    BY <1>0, <1>4, <2>1 DEF AppInv, Flags
<1>6. Texts'
  BY <1>0, <1>4 DEF AppInv, Texts, Formatted
<1>7. Current'
  <2>1. main \in {"init", "save"} => main' \in {"init", "save"}
    BY DEF Loop, Start, Handlers, Handle, Pause, StopTcp, StopMdns, Notify, EndLoop, Terminate,
       RestartButton, Signal, Receive, Served, NetGoes, MainGoes, LampRuns
  <2>2. Whole(file)' <=> Whole(file)
    BY <1>0 DEF Whole, Size
  <2> QED
    BY <1>0, <1>4, <2>1, <2>2 DEF AppInv, Current
<1> QED
  BY <1>1, <1>2, <1>3, <1>5, <1>6, <1>7 DEF Rest

LEMMA MdnsKeeps == AppInv /\ MdnsStep => Rest'
<1> SUFFICES ASSUME AppInv, MdnsStep PROVE Rest'
  OBVIOUS
<1>0. UNCHANGED <<main, net, news, cfg, file, save, spoilt, overlapped, raced>>
  BY DEF MdnsStep, Register, Registered, RegisterFails, TestRunning, Wait, Leave, MdnsGoes, config
<1>1. Phases'
  BY <1>0 DEF AppInv, Phases, MdnsStep, Register, Registered, RegisterFails, TestRunning, Wait,
     Leave, MdnsGoes
<1>2. Announced'
  BY <1>0 DEF AppInv, Phases, Announced, MdnsStep, Register, Registered, RegisterFails, TestRunning,
     Wait, Leave, MdnsGoes
<1>3. SavesAlone' /\ Texts'
  BY <1>0 DEF AppInv, SavesAlone, Alone, Texts, Formatted
<1>4. Flags' /\ Current'
  BY <1>0 DEF AppInv, Flags, Current, Match, Torn, Whole, Size
<1> QED
  BY <1>1, <1>2, <1>3, <1>4 DEF Rest

(* A change needs that the task is in recv, and so has nothing formatted.  *)
LEMMA ChangeKeeps == AppInv /\ ChangeTable => Rest'
<1> SUFFICES ASSUME AppInv, ChangeTable PROVE Rest'
  OBVIOUS
<1>0. /\ net = "recv" /\ net' = "changed" /\ save["net"].pc = "no"
      /\ UNCHANGED <<main, mdns, file, save, spoilt, client, txt, advertised, raced>>
      /\ ~overlapped' => ~overlapped /\ ~(main = "final" /\ save["main"].pc # "no")
  BY DEF AppInv, Phases, ChangeTable, announce
<1>1. cfg'.notPaired = cfg.notPaired
  BY Types DEF AppInv, ChangeTable, Text
<1>2. save["main"].pc # "no" => main = "final" \/ overlapped'
  BY <1>0 DEF AppInv, Phases
<1>3. Phases' /\ SavesAlone'
  BY <1>0 DEF AppInv, Phases, SavesAlone, Alone
<1>4. Announced'
  BY <1>0, <1>1 DEF AppInv, Announced
<1>5. Flags'
  <2>1. Torn(file)' <=> Torn(file)
    BY <1>0 DEF Torn, Whole, Size
  <2> QED
    BY <1>0, <1>2, <2>1 DEF AppInv, Flags
<1>6. Texts'
  BY <1>0, <1>2 DEF Texts, Formatted
<1>7. Current'
  BY <1>0 DEF Current
<1> QED
  BY <1>3, <1>4, <1>5, <1>6, <1>7 DEF Rest

LEMMA UpdateKeeps == AppInv /\ Update => Rest'
<1> SUFFICES ASSUME AppInv, Update PROVE Rest'
  OBVIOUS
<1>0. /\ net = "changed" /\ net' = "save" /\ save["net"].pc = "no"
      /\ UNCHANGED <<main, mdns, file, save, spoilt, overlapped, client, txt, advertised, raced>>
  BY DEF AppInv, Phases, Update, announce
<1>1. Match'
  BY Types DEF AppInv, Update, Match, Text
<1>2. ~news' => cfg'.notPaired = cfg.notPaired
  BY Types DEF AppInv, Update, Text
<1>3. Phases' /\ SavesAlone'
  BY <1>0 DEF AppInv, Phases, SavesAlone, Alone
<1>4. Announced'
  BY <1>0, <1>2 DEF AppInv, Announced
<1>5. ~overlapped => save["main"].pc = "no"
  BY <1>0 DEF AppInv, Flags
<1>6. Flags'
  <2>1. Torn(file)' <=> Torn(file)
    BY <1>0 DEF Torn, Whole, Size
  <2> QED
    BY <1>0, <1>1, <1>5, <2>1 DEF AppInv, Flags
<1>7. Texts' /\ Current'
  BY <1>0, <1>5 DEF Texts, Formatted, Current
<1> QED
  BY <1>3, <1>4, <1>6, <1>7 DEF Rest

LEMMA AnnouncingKeeps == AppInv /\ (NewText \/ Publish) => Rest'
<1> SUFFICES ASSUME AppInv, NewText \/ Publish PROVE Rest'
  OBVIOUS
<1>0. /\ net \in {"text", "publish"} /\ net' \in {"publish", "idle"}
      /\ UNCHANGED <<main, mdns, cfg, file, save, spoilt, overlapped, news, client>>
  BY DEF NewText, Publish, config
<1>1. Match /\ save["net"].pc = "no"
  BY <1>0 DEF AppInv, Flags, Phases
<1>2. Phases' /\ SavesAlone'
  BY <1>0, <1>1 DEF AppInv, Phases, SavesAlone, Alone, NewText, Publish
<1>3. Announced'
  <2>1. CASE NewText
    BY <1>0, <2>1 DEF Announced, NewText
  <2>2. CASE Publish
    <3>1. raced' = (raced \/ (~client /\ mdns = "registering"))
      BY <2>2 DEF Publish
    <3>2. ASSUME client \/ mdns = "registering", ~raced' PROVE advertised' = cfg.notPaired
      <4>1. client /\ ~raced
        BY <3>1, <3>2
      <4> QED
        BY <2>2, <4>1 DEF AppInv, Announced, Publish
    <3> QED
      BY <1>0, <2>2, <3>2 DEF Announced, Publish
  <2> QED
    BY <2>1, <2>2
<1>4. Flags'
  <2>1. (Match' <=> Match) /\ (Torn(file)' <=> Torn(file))
    BY <1>0 DEF Match, Torn, Whole, Size
  <2> QED
    BY <1>0, <1>1, <2>1 DEF AppInv, Flags
<1>5. Texts'
  BY <1>0 DEF AppInv, Texts, Formatted
<1>6. Current'
  <2>1. Whole(file)' <=> Whole(file)
    BY <1>0 DEF Whole, Size
  <2> QED
    BY <1>0, <2>1 DEF AppInv, Current
<1> QED
  BY <1>2, <1>3, <1>4, <1>5, <1>6 DEF Rest

LEMMA PowerCycleKeeps == AppInv /\ PowerCycle => Rest'
<1> SUFFICES ASSUME AppInv, PowerCycle PROVE Rest'
  OBVIOUS
<1>1. save'["main"].pc = "no" /\ save'["net"].pc = "no"
  BY TwoThreads DEF PowerCycle, NotSaving
<1>2. Match' /\ (Torn(file)' <=> Torn(file))
  BY DEF PowerCycle, Match, Default, Torn, Whole, Size
<1> QED
  BY <1>1, <1>2 DEF PowerCycle, AppInv, Rest, Phases, SavesAlone, Alone, Announced, Flags, Texts, Formatted,
     Current
-----------------------------------------------------------------------------
(* Opening the file empties it: the other thread no longer saves alone.    *)
LEMMA OpenKeeps == ASSUME AppInv, NEW t \in Thread, OpenFile(t) PROVE Rest'
<1>0. /\ save[t].pc = "no" /\ save'[t].pc = "open" /\ save'[t].alone = (save[Other(t)].pc = "no")
      /\ save'[Other(t)].pc = save[Other(t)].pc /\ save'[Other(t)].text = save[Other(t)].text
      /\ ~save'[Other(t)].alone
  <2> DEFINE w == [NotSaving EXCEPT !.pc = "open", !.alone = save[Other(t)].pc = "no"]
  <2>1. /\ save \in [Thread -> Writing] /\ t \in Thread /\ Other(t) \in Thread /\ t # Other(t)
        /\ save[Other(t)] \in Writing
    BY TwoThreads, Types DEF AppInv
  <2>2. save' = [save EXCEPT ![t] = w, ![Other(t)].alone = FALSE] /\ save[t].pc = "no"
    BY DEF OpenFile
  <2>3. w.pc = "open" /\ w.alone = (save[Other(t)].pc = "no")
    BY DEF NotSaving
  <2> HIDE DEF w
  <2>4. save'[t] = w /\ save'[Other(t)] = [save[Other(t)] EXCEPT !.alone = FALSE]
    BY <2>1, <2>2
  <2> QED
    BY <2>1, <2>2, <2>3, <2>4 DEF Writing
<1>1. /\ Saves(t) /\ file' = Empty
      /\ overlapped' = (overlapped \/ (t = "main" /\ net \notin Resting))
      /\ UNCHANGED <<main, net, news, cfg, spoilt, mdns, running, client, txt, advertised, raced>>
  BY DEF OpenFile, announce
<1>2. t = "main" \/ t = "net"
  BY TwoThreads
<1>3. Phases'
  BY <1>0, <1>1, <1>2, TwoThreads DEF AppInv, Phases, Saves
<1>4. SavesAlone'
  BY <1>0, <1>1, <1>2, TwoThreads DEF SavesAlone, Alone
<1>5. Announced'
  BY <1>1 DEF AppInv, Announced
<1>6. Flags'
  <2>1. ~Torn(file)'
    BY <1>1, Sizes DEF Torn, Whole, Empty
  <2>2. Match' <=> Match
    BY <1>1 DEF Match
  <2> QED
    BY <1>0, <1>1, <1>2, <2>1, <2>2, TwoThreads DEF AppInv, Flags
<1>7. Texts'
  BY <1>0, <1>1, <1>2, TwoThreads DEF AppInv, Texts, Formatted
<1>8. Current'
  BY <1>0, <1>2, TwoThreads DEF Current
<1> QED
  BY <1>3, <1>4, <1>5, <1>6, <1>7, <1>8 DEF Rest

(* What a thread does once its save has returned.                          *)
LEMMA Goes ==
  ASSUME AppInv, NEW t \in Thread, Saves(t), Go(t)
  PROVE  /\ t = "main" => /\ UNCHANGED <<net, news>>
                          /\ (main = "save" /\ main' = "start") \/ (main = "final" /\ main' = "stopTcp")
         /\ t = "net" => /\ UNCHANGED main
                         /\ net = "save" /\ net' \in {"idle", "text"}
                         /\ news => net' = "text"
<1>1. ASSUME t = "main"
      PROVE  /\ UNCHANGED <<net, news>>
             /\ (main = "save" /\ main' = "start") \/ (main = "final" /\ main' = "stopTcp")
  BY <1>1 DEF Saves, Go
<1>2. ASSUME t = "net"
      PROVE  UNCHANGED main /\ net = "save" /\ net' = IF news THEN "text" ELSE "idle"
  BY <1>2 DEF Saves, Go
<1>3. news \in BOOLEAN
  BY Types DEF AppInv
<1> QED
  BY <1>1, <1>2, <1>3

(* The end of a save, or of an attempt: nothing is formatted any more by t *)
(* and the configuration in memory is as before.                           *)
LEMMA EndOfSave ==
  ASSUME AppInv, NEW t \in Thread, Saves(t), Go(t), save'[t].pc = "no",
         save'[Other(t)].pc = save[Other(t)].pc, save'[Other(t)].text = save[Other(t)].text,
         save'[Other(t)].alone => save[Other(t)].alone, save'[Other(t)].alone => t = "main" \/ save[t].pc = "all",
         UNCHANGED <<cfg, overlapped, announce>>
  PROVE  /\ Phases' /\ Announced' /\ Texts'
         /\ Match => Match'
         /\ net' \in {"save", "text", "publish"} => Match'
         /\ ~overlapped' => /\ net' \in Resting => Match'
                            /\ save'["main"].pc # "no" => net' \in Resting
<1>0. UNCHANGED <<mdns, client, txt, advertised, raced>>
  BY DEF announce
<1>1. CASE t = "main"
  <2>1. /\ UNCHANGED <<net, news>>
        /\ (main = "save" /\ main' = "start") \/ (main = "final" /\ main' = "stopTcp")
    BY <1>1, Goes
  <2>2. /\ save'["main"].pc = "no" /\ save'["net"].pc = save["net"].pc
        /\ save'["net"].text = save["net"].text
    BY <1>1, TwoThreads
  <2>3. Phases'
    BY <1>0, <2>1, <2>2 DEF AppInv, Phases
  <2>4. Announced' /\ Texts'
    BY <1>0, <2>1, <2>2 DEF AppInv, Announced, Texts, Formatted
  <2> QED
    BY <2>1, <2>2, <2>3, <2>4 DEF AppInv, Flags, Match
<1>2. CASE t = "net"
  <2>1. /\ UNCHANGED main
        /\ net = "save" /\ net' \in {"idle", "text"}
        /\ news => net' = "text"
    BY <1>2, Goes
  <2>2. /\ save'["net"].pc = "no" /\ save'["main"].pc = save["main"].pc
        /\ save'["main"].text = save["main"].text
        /\ save'["main"].alone => save["main"].alone /\ save["net"].pc = "all"
    BY <1>2, TwoThreads
  <2>3. Phases'
    BY <1>0, <2>1, <2>2 DEF AppInv, Phases
  <2>4. Announced'
    BY <1>0, <2>1 DEF AppInv, Announced
  <2>5. save["main"].pc # "no" => overlapped /\ ~save'["main"].alone
    BY <2>1, <2>2, TwoThreads DEF AppInv, Flags, SavesAlone, Alone
  <2>6. Texts'
    BY <2>2, <2>5 DEF Texts, Formatted
  <2> QED
    BY <2>1, <2>2, <2>3, <2>4, <2>5, <2>6 DEF AppInv, Flags, Match
<1> QED
  BY <1>1, <1>2, TwoThreads

LEMMA CannotOpenKeeps == ASSUME AppInv, NEW t \in Thread, CannotOpen(t) PROVE Rest'
<1>0. /\ save'[t].pc = "no" /\ save'[Other(t)].pc = save[Other(t)].pc
      /\ save'[Other(t)].text = save[Other(t)].text /\ ~save'[Other(t)].alone
  BY TwoThreads, Types DEF AppInv, CannotOpen, Writing
<1>1. Saves(t) /\ Go(t) /\ spoilt' /\ UNCHANGED <<cfg, file, overlapped, announce>>
  BY DEF CannotOpen
<1>2. /\ Phases' /\ Announced' /\ Texts'
      /\ net' \in {"save", "text", "publish"} => Match'
      /\ ~overlapped' => /\ net' \in Resting => Match'
                         /\ save'["main"].pc # "no" => net' \in Resting
  BY <1>0, <1>1, EndOfSave
<1>3. SavesAlone'
  BY <1>0, <1>1, TwoThreads DEF SavesAlone, Alone
<1>4. Flags'
  <2>1. Torn(file)' <=> Torn(file)
    BY <1>1 DEF Torn, Whole, Size
  <2> QED
    BY <1>1, <1>2, <2>1 DEF AppInv, Flags
<1>5. Current'
  BY <1>1 DEF Current
<1> QED
  BY <1>2, <1>3, <1>4, <1>5 DEF Rest

LEMMA FormatKeeps ==
  ASSUME AppInv, NEW t \in Thread, FormatFlags(t) \/ FormatTable(t) PROVE Rest'
<1>0. /\ UNCHANGED <<main, net, news, cfg, file, spoilt, overlapped, mdns, client, txt, advertised, raced>>
      /\ save[t].pc # "no" /\ save'[t].pc # "no" /\ save'[t].alone = save[t].alone
      /\ save'[t].pc \in {"flags", "all"} /\ save'[t].text.notPaired = 
           IF FormatFlags(t) THEN cfg.notPaired ELSE save[t].text.notPaired
      /\ save'[t].pc = "all" => save[t].pc = "flags" /\ save'[t].text.table = cfg.table
      /\ FormatFlags(t) => save[t].pc = "open" /\ save'[t].pc = "flags"
      /\ ~FormatFlags(t) => save[t].pc = "flags"
      /\ save'[Other(t)] = save[Other(t)]
  BY TwoThreads, Types DEF AppInv, FormatFlags, FormatTable, Writing, Text, announce
<1>1. t = "main" \/ t = "net"
  BY TwoThreads
<1>2. Formatted(t) => Formatted(t)'
  BY <1>0 DEF Formatted
<1>3. Formatted(Other(t))' <=> Formatted(Other(t))
  BY <1>0 DEF Formatted
<1>4. Phases' /\ SavesAlone' /\ Announced'
  BY <1>0, <1>1, TwoThreads DEF AppInv, Phases, SavesAlone, Alone, Announced
<1>5. Flags'
  BY <1>0, <1>1, TwoThreads DEF AppInv, Flags, Match, Torn, Whole, Size
<1>6. Texts'
  BY <1>0, <1>1, <1>2, <1>3, TwoThreads DEF AppInv, Texts
<1>7. Current'
  BY <1>0, <1>1 DEF Current
<1> QED
  BY <1>4, <1>5, <1>6, <1>7 DEF Rest

(* A save that ran alone wrote over the empty file; so what is in it now   *)
(* is whole.  One that did not may have left the end of another text.      *)
LEMMA CloseKeeps == ASSUME AppInv, NEW t \in Thread, CloseFile(t) PROVE Rest'
<1>0. /\ save[t].pc = "all" /\ save'[t].pc = "no" /\ save'[Other(t)] = save[Other(t)]
      /\ save[t].text \in Text /\ save[t].alone \in BOOLEAN
  BY TwoThreads, Types DEF AppInv, CloseFile, Writing, NotSaving
<1>1. /\ file' = [text |-> save[t].text, size |-> Longest(file.size, Size(save[t].text))]
      /\ spoilt' = ~save[t].alone /\ Go(t) /\ UNCHANGED <<cfg, overlapped, announce>>
  BY DEF CloseFile
<1>2. t = "main" \/ t = "net"
  BY TwoThreads
<1>3. Saves(t)
  <2>1. t = "net" => net = "save"
    BY <1>0 DEF AppInv, Phases
  <2>2. t = "main" => main \in {"save", "final"}
    BY <1>0 DEF AppInv, Phases
  <2> QED
    BY <1>2, <2>1, <2>2 DEF Saves
<1>4. /\ Phases' /\ Announced' /\ Texts'
      /\ net' \in {"save", "text", "publish"} => Match'
      /\ ~overlapped' => /\ net' \in Resting => Match'
                         /\ save'["main"].pc # "no" => net' \in Resting
  <2>1. save'[Other(t)].alone => t = "main" \/ save[t].pc = "all"
    BY <1>0
  <2> QED
    BY <1>0, <1>1, <1>3, <2>1, EndOfSave
<1>5. SavesAlone'
  <2>1. save[Other(t)].pc # "no" => ~save[Other(t)].alone
    BY <1>0, <1>2, TwoThreads DEF AppInv, SavesAlone, Alone
  <2> QED
    BY <1>0, <1>2, <2>1, TwoThreads DEF SavesAlone, Alone
<1>6. Formatted(t) => save[t].text = cfg
  BY <1>0, Types DEF AppInv, Formatted, Text
<1>7. ~overlapped => Formatted(t) /\ Match
  <2>1. t = "net" => net = "save"
    BY <1>0 DEF AppInv, Phases
  <2> QED
    BY <1>0, <1>2, <2>1 DEF AppInv, Flags, Texts
<1>8. Flags'
  <2>1. ~overlapped' => ~Torn(file)'
    BY <1>1, <1>6, <1>7 DEF Torn, Match, Whole
  <2> QED
    BY <1>4, <2>1 DEF Flags
<1>9. Current'
  <2> SUFFICES ASSUME ~spoilt', net' \notin {"changed", "save"}
               PROVE  Whole(file)' /\ file'.text = cfg'
    BY DEF Current
  <2>1. save[t].alone
    BY <1>0, <1>1
  <2>2. file = Empty
    BY <1>0, <1>2, <2>1 DEF AppInv, SavesAlone, Alone
  <2>3. Formatted(t)
    BY <1>2, <1>3, <2>1, Goes, <1>1 DEF AppInv, Texts
  <2>4. Size(save[t].text) \in Nat /\ Longest(0, Size(save[t].text)) = Size(save[t].text)
    BY <1>0, Sizes DEF Longest
  <2>5. file' = [text |-> save[t].text, size |-> Size(save[t].text)]
    BY <1>1, <2>2, <2>4 DEF Empty
  <2> QED
    BY <1>1, <1>6, <2>3, <2>5 DEF Whole
<1> QED
  BY <1>4, <1>5, <1>8, <1>9 DEF Rest

LEMMA AppInductive == AppInv /\ [Next]_vars => AppInv'
<1> SUFFICES ASSUME AppInv, [Next]_vars PROVE AppInv'
  OBVIOUS
<1>1. AppTypeOK'
  BY TypesKept DEF AppInv
<1>2. Rest'
  <2>1. ASSUME NEW t \in Thread, SaveStep(t) PROVE Rest'
    BY <2>1, OpenKeeps, CannotOpenKeeps, FormatKeeps, CloseKeeps DEF SaveStep
  <2>2. CASE MainStep
    BY <2>2, InitConfigKeeps, LoopKeeps DEF MainStep, Loop
  <2>3. CASE NetStep \/ ChangeTable
    BY <2>3, UpdateKeeps, AnnouncingKeeps, ChangeKeeps DEF NetStep
  <2>4. CASE MdnsStep \/ PowerCycle \/ Terminate \/ RestartButton \/ Receive \/ Served
    BY <2>4, MdnsKeeps, PowerCycleKeeps, LoopKeeps DEF Loop
  <2>5. CASE UNCHANGED vars
    <3>1. UNCHANGED <<main, net, news, mdns, cfg, file, save, spoilt, overlapped, client, txt, advertised, raced>>
      BY <2>5 DEF vars, config, announce
    <3> QED
      BY <3>1 DEF AppInv, Rest, Phases, SavesAlone, Alone, Announced, Flags, Match, Torn, Whole, Size,
         Texts, Formatted, Current
  <2> QED
    BY <2>1, <2>2, <2>3, <2>4, <2>5 DEF Next
<1> QED
  BY <1>1, <1>2 DEF AppInv, Rest

LEMMA AppIsInvariant == Spec => []AppInv
BY InitApp, AppInductive, PTL DEF Spec
-----------------------------------------------------------------------------
(* The variables of the program around its servers keep their types; the   *)
(* file never holds more than the text of all controllers.                 *)
THEOREM TypesHold == Spec => []AppTypeOK
<1>1. AppInv => AppTypeOK
  BY DEF AppInv
<1> QED
  BY <1>1, AppIsInvariant, PTL

(* After the saves of FileConfig::_save, however they were cut short, met  *)
(* or failed before, the file holds what is in memory once all is quiet    *)
(* and the last save succeeded alone.                                      *)
THEOREM FileHoldsConfiguration == Spec => []FileIsCurrent
<1>1. AppInv => FileIsCurrent
  BY TwoThreads DEF AppInv, Current, FileIsCurrent, Quiet
<1> QED
  BY <1>1, AppIsInvariant, PTL

(* The lambda that hapServer passes to the database keeps the status flag  *)
(* in step with the table of pairings, through restarts of the process.    *)
THEOREM FlagFollowsTable == Spec => []FlagMatches
<1>1. AppInv => FlagMatches
  BY DEF AppInv, Flags, Match, FlagMatches
<1> QED
  BY <1>1, AppIsInvariant, PTL

(* Mdns::Update and the registration of Mdns::run leave the service with   *)
(* the flag in memory, unless they met.                                    *)
THEOREM ServiceIsCurrent == Spec => []AdvertisedIsCurrent
<1>1. AppInv => AdvertisedIsCurrent
  BY DEF AppInv, Announced, AdvertisedIsCurrent
<1> QED
  BY <1>1, AppIsInvariant, PTL
=============================================================================
