--------------------------- MODULE HouseholdProofs ---------------------------
(***************************************************************************)
(* Proofs about the main loop and the text turn, for any number of threads *)
(* and any bounds, and the composition: what is proved of a component      *)
(* holds of the whole, because a step of the whole is a step of one        *)
(* component that leaves the others alone.                                 *)
(***************************************************************************)
EXTENDS Household, DeviceProofs, StoresProofs

USE MainAssumption, TurnAssumption DEF MainAssumption, TurnAssumption

(* While the volume handler runs, the codec has the state of the task it   *)
(* runs, and the settings follow field by field; otherwise they agree.     *)
SettingsFollow ==
  /\ loopAt \notin {"saveVolume", "saveMuted"} => display = output
  /\ loopAt \in {"saveVolume", "saveMuted"} => batch # <<>> /\ output = Head(batch).state
  /\ loopAt = "saveMuted" => display.volume = output.volume

MainIndInv == MainTypeOK /\ NoTaskStranded /\ NewestIsKept /\ SettingsFollow

(* A sound is its volume and its mute.                                     *)
LEMMA SameSound ==
  ASSUME NEW s \in Sound, NEW t \in Sound, s.volume = t.volume, s.muted = t.muted PROVE s = t
BY DEF Sound

(* Whatever is asked for, the volume is one the sound card has.            *)
LEMMA ClampType == ASSUME NEW v \in Int PROVE Clamp(v) \in 0..100
BY DEF Clamp

(* The request a caller makes is a task.                                   *)
LEMMA RequestType ==
  ASSUME MainTypeOK, NEW c \in Callers, VolumeCall(c) \/ NoticeCall(c)
  PROVE  request' \in [Callers -> Task]
<1>1. \A t \in Task : [request EXCEPT ![c] = t] \in [Callers -> Task] BY DEF MainTypeOK
<1>2. CASE VolumeCall(c)
  <2>1. PICK args \in VolumeArgs :
          /\ request' = [request EXCEPT ![c] =
               [kind |-> "volume",
                state |-> [volume |-> IF args.level = NoArg THEN display.volume ELSE Clamp(args.level),
                           muted |-> IF args.mute = NoArg THEN FALSE ELSE args.mute]]]
    BY <1>2 DEF VolumeCall
  <2>2. display.volume \in 0..100 BY DEF MainTypeOK, Sound
  <2> DEFINE volume == IF args.level = NoArg THEN display.volume ELSE Clamp(args.level)
             muted == IF args.mute = NoArg THEN FALSE ELSE args.mute
  <2>3. volume \in 0..100 BY <2>2, ClampType
  <2>4. muted \in BOOLEAN BY Zenon
  <2> HIDE DEF volume, muted
  <2>5. [volume |-> volume, muted |-> muted] \in Sound BY <2>3, <2>4 DEF Sound
  <2>6. [kind |-> "volume", state |-> [volume |-> volume, muted |-> muted]] \in Task
    BY <2>5, Zenon DEF Task
  <2> QED BY <1>1, <2>1, <2>6, Zenon DEF volume, muted
<1>3. CASE NoticeCall(c)
  <2>1. [volume |-> 0, muted |-> FALSE] \in Sound BY DEF Sound
  <2>2. Notice \in Task BY <2>1, Zenon DEF Notice, Task
  <2> QED BY <1>1, <1>3, <2>2 DEF NoticeCall
<1> QED BY <1>2, <1>3

(* Calls, their push and their signal: a task in the queue is announced.   *)
LEMMA CallerInv ==
  ASSUME MainIndInv, NEW c \in Callers,
         VolumeCall(c) \/ NoticeCall(c) \/ PushTask(c) \/ SignalTask(c)
  PROVE  MainIndInv'
<1>0. MainTypeOK /\ NoTaskStranded /\ NewestIsKept /\ SettingsFollow BY DEF MainIndInv
<1>1. UNCHANGED <<loopRunning, stopAt, loopAt, taken, batch>> /\ UNCHANGED soundVars
  BY DEF VolumeCall, NoticeCall, PushTask, SignalTask, loopVars
<1>2. NewestIsKept' /\ SettingsFollow'
  BY <1>0, <1>1 DEF soundVars, NewestIsKept, SettingsFollow
<1>3. /\ callAt' \in [Callers -> {"idle", "push", "signal"}]
      /\ \A d \in Callers : d # c => callAt'[d] = callAt[d]
  BY <1>0 DEF VolumeCall, NoticeCall, PushTask, SignalTask, MainTypeOK
<1>4. CASE VolumeCall(c) \/ NoticeCall(c)
  <2>1. UNCHANGED <<bits, mainTasks>> /\ callAt[c] # "signal"
    BY <1>4 DEF VolumeCall, NoticeCall, loopVars
  <2>2. NoTaskStranded' BY <1>0, <1>1, <1>3, <2>1 DEF NoTaskStranded
  <2>3. calls' \in Nat
    <3>1. calls' = calls + 1 BY <1>4, Zenon DEF VolumeCall, NoticeCall
    <3> QED BY <1>0, <3>1 DEF MainTypeOK
  <2>4. request' \in [Callers -> Task] BY <1>0, <1>4, RequestType
  <2>5. MainTypeOK' BY <1>0, <1>1, <1>3, <2>1, <2>3, <2>4, Zenon DEF MainTypeOK, soundVars
  <2> QED BY <1>2, <2>2, <2>5 DEF MainIndInv
<1>5. CASE PushTask(c)
  <2>1. callAt'[c] = "signal" BY <1>0, <1>5 DEF PushTask, MainTypeOK
  <2>2. NoTaskStranded' BY <2>1 DEF NoTaskStranded
  <2>3. mainTasks' \in Seq(Task) BY <1>0, <1>5, AppendProperties DEF PushTask, MainTypeOK
  <2>4. request' \in [Callers -> Task]
    <3>1. [volume |-> 0, muted |-> FALSE] \in Sound BY DEF Sound
    <3>2. Notice \in Task BY <3>1, Zenon DEF Notice, Task
    <3> QED BY <1>0, <1>5, <3>2 DEF PushTask, MainTypeOK
  <2>5. UNCHANGED <<bits, calls>> BY <1>5 DEF PushTask
  <2>6. MainTypeOK' BY <1>0, <1>1, <1>3, <2>3, <2>4, <2>5, Zenon DEF MainTypeOK, soundVars
  <2> QED BY <1>2, <2>2, <2>6 DEF MainIndInv
<1>6. CASE SignalTask(c)
  <2>1. NoTaskStranded' BY <1>6 DEF SignalTask, NoTaskStranded
  <2>2. bits' \subseteq MainEvents BY <1>0, <1>6 DEF SignalTask, MainTypeOK, MainEvents
  <2>3. UNCHANGED <<mainTasks, request, calls>> BY <1>6 DEF SignalTask
  <2>4. MainTypeOK' BY <1>0, <1>1, <1>3, <2>2, <2>3, Zenon DEF MainTypeOK, soundVars
  <2> QED BY <1>2, <2>1, <2>4 DEF MainIndInv
<1> QED BY <1>4, <1>5, <1>6

(* The timer and the stop only set bits and the flag.                      *)
LEMMA OutsideInv ==
  ASSUME MainIndInv, ClockTimer \/ RequestStop \/ SignalStop PROVE MainIndInv'
<1>0. MainTypeOK /\ NoTaskStranded /\ NewestIsKept /\ SettingsFollow BY DEF MainIndInv
<1>1. UNCHANGED <<mainTasks, loopAt, taken, batch>> /\ UNCHANGED soundVars /\ UNCHANGED callVars
  BY DEF ClockTimer, RequestStop, SignalStop
<1>2. NewestIsKept' /\ SettingsFollow'
  BY <1>0, <1>1 DEF soundVars, NewestIsKept, SettingsFollow
<1>3. bits \subseteq bits' /\ bits' \subseteq MainEvents
  BY <1>0 DEF ClockTimer, RequestStop, SignalStop, MainTypeOK, MainEvents
<1>4. NoTaskStranded' BY <1>0, <1>1, <1>3 DEF NoTaskStranded, callVars
<1>5. loopRunning' \in BOOLEAN /\ stopAt' \in {"idle", "signal", "done"}
  BY <1>0, Zenon DEF ClockTimer, RequestStop, SignalStop, MainTypeOK
<1>6. MainTypeOK' BY <1>0, <1>1, <1>3, <1>5, Zenon DEF MainTypeOK, soundVars, callVars
<1> QED BY <1>2, <1>4, <1>6 DEF MainIndInv

(* The loop takes all bits, and the whole queue with the right one.        *)
LEMMA LoopInv ==
  ASSUME MainIndInv, LoopCheck \/ LoopWake \/ LoopTake \/ RunNotice \/ BatchDone \/ LoopOut
  PROVE  MainIndInv'
<1>0. MainTypeOK /\ NoTaskStranded /\ NewestIsKept /\ SettingsFollow BY DEF MainIndInv
<1>1. UNCHANGED <<loopRunning, stopAt>> /\ UNCHANGED soundVars /\ UNCHANGED callVars
  BY DEF LoopCheck, LoopWake, LoopTake, RunNotice, BatchDone, LoopOut
<1>2. /\ loopAt \notin {"saveVolume", "saveMuted"}
      /\ loopAt' \in {"check", "wait", "woken", "run", "out", "stopped"}
  BY DEF LoopCheck, LoopWake, LoopTake, RunNotice, BatchDone, LoopOut
<1>3. NewestIsKept' /\ SettingsFollow'
  BY <1>0, <1>1, <1>2 DEF soundVars, NewestIsKept, SettingsFollow
<1>4. bits' \subseteq MainEvents /\ taken' \subseteq MainEvents
  BY <1>0 DEF LoopCheck, LoopWake, LoopTake, RunNotice, BatchDone, LoopOut, MainTypeOK
<1>5. mainTasks' \in Seq(Task) /\ batch' \in Seq(Task)
  <2>1. mainTasks \in Seq(Task) /\ batch \in Seq(Task) BY <1>0 DEF MainTypeOK
  <2>2. CASE RunNotice
    <3>1. batch # <<>> /\ batch' = Tail(batch) /\ UNCHANGED mainTasks BY <2>2 DEF RunNotice
    <3> QED BY <2>1, <3>1, HeadTailProperties
  <2>3. CASE UNCHANGED <<mainTasks, batch>> BY <2>1, <2>3
  <2>4. CASE LoopTake /\ batch' = mainTasks /\ mainTasks' = <<>> BY <2>1, <2>4, EmptySeq
  <2> QED BY <2>2, <2>3, <2>4 DEF LoopCheck, LoopWake, LoopTake, BatchDone, LoopOut
<1>6. MainTypeOK' BY <1>0, <1>1, <1>2, <1>4, <1>5, Zenon DEF MainTypeOK, soundVars, callVars
<1>7. NoTaskStranded'
  <2>1. CASE LoopCheck BY <1>0, <2>1 DEF LoopCheck, NoTaskStranded, callVars
  <2>2. CASE LoopWake BY <1>0, <2>2 DEF LoopWake, NoTaskStranded, callVars
  <2>3. CASE LoopTake BY <1>0, <2>3 DEF LoopTake, NoTaskStranded, callVars
  <2>4. CASE RunNotice BY <1>0, <2>4 DEF RunNotice, NoTaskStranded, callVars
  <2>5. CASE BatchDone BY <1>0, <2>5 DEF BatchDone, NoTaskStranded, callVars
  <2>6. CASE LoopOut BY <1>0, <2>6 DEF LoopOut, NoTaskStranded, callVars
  <2> QED BY <2>1, <2>2, <2>3, <2>4, <2>5, <2>6
<1> QED BY <1>3, <1>6, <1>7 DEF MainIndInv

(* The volume handler: the new state is the newest, ...                    *)
LEMMA RunVolumeInv == ASSUME MainIndInv, RunVolume PROVE MainIndInv'
<1> USE DEF RunVolume
<1>0. MainTypeOK /\ NoTaskStranded /\ NewestIsKept /\ SettingsFollow BY DEF MainIndInv
<1>1. Head(batch) \in Task /\ Head(batch).state \in Sound
  <2>1. batch \in Seq(Task) /\ batch # <<>> BY <1>0 DEF MainTypeOK
  <2>2. Head(batch) \in Task BY <2>1, HeadTailProperties
  <2> QED BY <2>2 DEF Task
<1> DEFINE new == [revision |-> revision + 1, state |-> Head(batch).state, at |-> "sleep"]
<1>2. new \in Applier /\ new.revision = revision + 1 /\ new.state = Head(batch).state
  BY <1>0, <1>1 DEF Applier, MainTypeOK
<1>3. appliers' = appliers \cup {new} /\ revision' = revision + 1 /\ output' = Head(batch).state
      /\ UNCHANGED <<bits, mainTasks, loopRunning, stopAt, taken, batch, display, mixer,
                     lastApplied, callAt, request, calls>>
  BY DEF callVars
<1> HIDE DEF new
<1>4. revision' \in Nat /\ appliers' \subseteq Applier /\ output' \in Sound
  BY <1>0, <1>1, <1>2, <1>3 DEF MainTypeOK
<1>5. loopAt' = "saveVolume" /\ loopAt = "run" /\ batch # <<>> OBVIOUS
<1>6. MainTypeOK' BY <1>0, <1>3, <1>4, <1>5, Zenon DEF MainTypeOK
<1>7. NoTaskStranded' BY <1>0, <1>3, <1>5 DEF NoTaskStranded
<1>8. \A a \in appliers : a.revision \in Nat BY <1>0 DEF MainTypeOK, Applier
<1>9. NewestIsKept'
  BY <1>0, <1>2, <1>3, <1>8 DEF MainTypeOK, NewestIsKept
<1>10. SettingsFollow' BY <1>3, <1>5 DEF SettingsFollow
<1> QED BY <1>6, <1>7, <1>9, <1>10 DEF MainIndInv

(* ... and the settings are made to hold it.                               *)
LEMMA SaveInv == ASSUME MainIndInv, SaveVolume \/ SaveMuted PROVE MainIndInv'
<1>0. MainTypeOK /\ NoTaskStranded /\ NewestIsKept /\ SettingsFollow BY DEF MainIndInv
<1>1. UNCHANGED <<bits, mainTasks, loopRunning, stopAt, taken, output, revision, appliers, mixer,
                  lastApplied, callAt, request, calls>>
  BY DEF SaveVolume, SaveMuted, callVars
<1>2. loopAt \in {"saveVolume", "saveMuted"} BY DEF SaveVolume, SaveMuted
<1>3. batch # <<>> /\ output = Head(batch).state BY <1>0, <1>2 DEF SettingsFollow
<1>4. NoTaskStranded'
  <2>1. loopAt \notin {"woken", "out", "stopped"} BY <1>2
  <2> QED BY <1>0, <1>1, <2>1 DEF NoTaskStranded
<1>5. NewestIsKept' BY <1>0, <1>1 DEF NewestIsKept
<1>6. display \in Sound /\ output \in Sound BY <1>0 DEF MainTypeOK
<1>7. CASE SaveVolume
  <2>1. display' = [display EXCEPT !.volume = output.volume] /\ loopAt' = "saveMuted"
        /\ UNCHANGED batch
    BY <1>3, <1>7 DEF SaveVolume
  <2>2. display' \in Sound /\ display'.volume = output.volume BY <1>6, <2>1 DEF Sound
  <2>3. MainTypeOK' BY <1>0, <1>1, <2>1, <2>2, Zenon DEF MainTypeOK
  <2>4. SettingsFollow' BY <1>1, <1>3, <2>1, <2>2 DEF SettingsFollow
  <2> QED BY <1>4, <1>5, <2>3, <2>4 DEF MainIndInv
<1>8. CASE SaveMuted
  <2>1. display' = [display EXCEPT !.muted = output.muted] /\ loopAt' = "run"
        /\ batch' = Tail(batch) /\ display.volume = output.volume
    BY <1>0, <1>3, <1>8 DEF SaveMuted, SettingsFollow
  <2>2. display' \in Sound /\ display'.volume = output.volume /\ display'.muted = output.muted
    BY <1>6, <2>1 DEF Sound
  <2>3. display' = output' BY <1>1, <1>6, <2>2, SameSound
  <2>4. batch' \in Seq(Task) BY <1>0, <1>3, <2>1, HeadTailProperties DEF MainTypeOK
  <2>5. MainTypeOK' BY <1>0, <1>1, <2>1, <2>2, <2>4, Zenon DEF MainTypeOK
  <2>6. SettingsFollow' BY <2>1, <2>3 DEF SettingsFollow
  <2> QED BY <1>4, <1>5, <2>5, <2>6 DEF MainIndInv
<1> QED BY <1>7, <1>8

(* A thread that is not the newest may go, the newest leaves its mark.     *)
LEMMA ApplierInv ==
  ASSUME MainIndInv, NEW a \in appliers, ApplierWake(a) \/ ApplierDone(a) PROVE MainIndInv'
<1>0. MainTypeOK /\ NoTaskStranded /\ NewestIsKept /\ SettingsFollow BY DEF MainIndInv
<1>1. UNCHANGED <<loopVars, callVars, display, output, revision>>
  BY DEF ApplierWake, ApplierDone
<1>2. NoTaskStranded' /\ SettingsFollow'
  BY <1>0, <1>1 DEF loopVars, callVars, NoTaskStranded, SettingsFollow
<1>3. a \in Applier /\ a.revision \in Nat /\ a.state \in Sound /\ a.revision <= revision
      /\ \A b \in appliers : b.revision \in Nat
  BY <1>0 DEF MainTypeOK, Applier, NewestIsKept
<1>4. CASE ApplierWake(a)
  <2> DEFINE woken == [a EXCEPT !.at = "shell"]
  <2>1. woken \in Applier /\ woken.revision = a.revision /\ woken.state = a.state
    BY <1>3 DEF Applier
  <2>2. /\ appliers' = (appliers \ {a}) \cup (IF revision = a.revision THEN {woken} ELSE {})
        /\ UNCHANGED <<mixer, lastApplied>>
    BY <1>4 DEF ApplierWake
  <2> HIDE DEF woken
  <2>3. appliers' \subseteq Applier BY <1>0, <2>1, <2>2 DEF MainTypeOK
  <2>4. MainTypeOK' BY <1>0, <1>1, <2>2, <2>3, Zenon DEF MainTypeOK, loopVars, callVars
  <2>5. NewestIsKept' BY <1>0, <1>1, <2>1, <2>2 DEF NewestIsKept
  <2> QED BY <1>2, <2>4, <2>5 DEF MainIndInv
<1>5. CASE ApplierDone(a)
  <2>1. /\ mixer' = a.state /\ appliers' = appliers \ {a}
        /\ lastApplied' = IF a.revision > lastApplied THEN a.revision ELSE lastApplied
    BY <1>5 DEF ApplierDone
  <2>2. lastApplied \in Nat /\ lastApplied' \in Nat /\ revision \in Nat
    BY <1>0, <1>3, <2>1 DEF MainTypeOK
  <2>3. mixer' \in Sound /\ appliers' \subseteq Applier BY <1>0, <1>3, <2>1 DEF MainTypeOK
  <2>4. MainTypeOK' BY <1>0, <1>1, <2>2, <2>3, Zenon DEF MainTypeOK, loopVars, callVars
  <2>5. NewestIsKept' BY <1>0, <1>1, <1>3, <2>1, <2>2 DEF NewestIsKept
  <2> QED BY <1>2, <2>4, <2>5 DEF MainIndInv
<1> QED BY <1>4, <1>5

(* The loop and the mixer in every reachable state.                        *)
THEOREM MainInvariant == MainSpec => [](MainIndInv /\ MainInv)
<1>1. MainInit => MainIndInv
  <2> SUFFICES ASSUME MainInit PROVE MainIndInv
    OBVIOUS
  <2>1. [volume |-> 50, muted |-> FALSE] \in Sound /\ [volume |-> 0, muted |-> TRUE] \in Sound
        /\ [volume |-> 0, muted |-> FALSE] \in Sound
    BY DEF Sound
  <2>2. Notice \in Task BY <2>1, Zenon DEF Notice, Task
  <2>3. [revision |-> 1, state |-> display, at |-> "sleep"] \in Applier
    BY <2>1 DEF MainInit, Applier
  <2>4. callAt \in [Callers -> {"idle", "push", "signal"}] /\ request \in [Callers -> Task]
    BY <2>2 DEF MainInit
  <2>5. bits \subseteq MainEvents /\ taken \subseteq MainEvents BY DEF MainInit, MainEvents
  <2>6. mainTasks \in Seq(Task) /\ batch \in Seq(Task) BY EmptySeq DEF MainInit
  <2>7. revision \in Nat /\ lastApplied \in Nat /\ calls \in Nat BY DEF MainInit
  <2>8. appliers \subseteq Applier BY <2>3 DEF MainInit
  <2>9. MainTypeOK BY <2>1, <2>4, <2>5, <2>6, <2>7, <2>8, Zenon DEF MainInit, MainTypeOK
  <2>10. NoTaskStranded /\ SettingsFollow BY DEF MainInit, NoTaskStranded, SettingsFollow
  <2>11. NewestIsKept BY DEF MainInit, NewestIsKept
  <2> QED BY <2>9, <2>10, <2>11 DEF MainIndInv
<1>2. MainIndInv /\ [MainNext]_mainVars => MainIndInv'
  <2> SUFFICES ASSUME MainIndInv, [MainNext]_mainVars PROVE MainIndInv'
    OBVIOUS
  <2>1. CASE UNCHANGED mainVars
    BY <2>1 DEF mainVars, MainIndInv, MainTypeOK, NoTaskStranded, NewestIsKept, SettingsFollow
  <2>2. CASE MainNext
    BY <2>2, CallerInv, OutsideInv, LoopInv, RunVolumeInv, SaveInv, ApplierInv
    DEF MainNext, LoopStep, ApplierStep
  <2> QED BY <2>1, <2>2
<1>3. MainIndInv => MainInv BY DEF MainIndInv, MainInv
<1> QED BY <1>1, <1>2, <1>3, PTL DEF MainSpec

(* With nothing under way the settings hold what the codec was told last,  *)
(* and the sound card was told that.                                       *)
THEOREM VolumeSettlesHolds == MainSpec => []VolumeSettles
<1>1. MainIndInv => VolumeSettles
  BY DEF MainIndInv, SettingsFollow, NewestIsKept, VolumeSettles, Quiet
<1> QED BY <1>1, MainInvariant, PTL

-----------------------------------------------------------------------------
(* A conversation whose last message but r asks for n tools and is         *)
(* followed by the first r results: what the worker has while it runs them.*)
Answering(h, r, n) ==
  /\ r \in 0 .. n /\ r < Len(h)
  /\ h[Len(h) - r] = ToolCalls(n)
  /\ \A k \in 1 .. r : h[Len(h) - r + k] = ToolResult(k)
  /\ \A i \in 1 .. Len(h) - r - 1 : h[i].role = "ask" =>
       \A k \in 1 .. h[i].n : i + k <= Len(h) /\ h[i + k] = ToolResult(k)
  /\ Backed(h)

(* Messages are what their names say.                                      *)
LEMMA Messages ==
  /\ User \in Message /\ Assistant \in Message
  /\ \A n \in 0 .. MaxAsked : ToolCalls(n) \in Message /\ ToolResult(n) \in Message
BY DEF User, Assistant, ToolCalls, ToolResult, Message

(* What a message appended at the end changes.                             *)
LEMMA Appended ==
  ASSUME NEW h \in Seq(Message), NEW m \in Message
  PROVE  /\ Append(h, m) \in Seq(Message) /\ Append(h, m) # <<>>
         /\ Len(Append(h, m)) = Len(h) + 1 /\ Len(h) \in Nat
         /\ \A i \in 1 .. Len(h) : Append(h, m)[i] = h[i]
         /\ Append(h, m)[Len(h) + 1] = m
         /\ \A i \in 1 .. Len(h) : h[i] \in Message
BY AppendProperties, LenProperties, ElementOfSeq

(* A message that asks for nothing and answers nothing.                    *)
LEMMA PlainMessage ==
  ASSUME NEW h \in Seq(Message), NEW m \in {User, Assistant}, WellFormed(h)
  PROVE  WellFormed(Append(h, m))
<1> DEFINE g == Append(h, m)
<1>1. /\ Len(g) = Len(h) + 1 /\ Len(h) \in Nat
      /\ \A i \in 1 .. Len(h) : g[i] = h[i] /\ h[i] \in Message
      /\ g[Len(h) + 1].role \notin {"ask", "tool"}
  BY Messages, Appended DEF User, Assistant
<1> HIDE DEF g
<1>2. Answered(g)
  <2> SUFFICES ASSUME NEW i \in 1 .. Len(g), g[i].role = "ask", NEW k \in 1 .. g[i].n
               PROVE  i + k <= Len(g) /\ g[i + k] = ToolResult(k)
    BY DEF Answered
  <2>1. i \in 1 .. Len(h) /\ g[i] = h[i] BY <1>1
  <2>2. h[i].n \in Nat BY <1>1, <2>1 DEF Message
  <2>3. i + k <= Len(h) /\ h[i + k] = ToolResult(k) BY <2>1 DEF WellFormed, Answered
  <2> QED BY <1>1, <2>1, <2>2, <2>3
<1>3. Backed(g)
  <2> SUFFICES ASSUME NEW i \in 1 .. Len(g), g[i].role = "tool"
               PROVE  \E j \in 1 .. i - 1 : /\ g[j].role = "ask"
                                            /\ g[i] = ToolResult(i - j) /\ i - j <= g[j].n
    BY DEF Backed
  <2>1. i \in 1 .. Len(h) /\ g[i] = h[i] BY <1>1
  <2>2. PICK j \in 1 .. i - 1 : /\ h[j].role = "ask"
                                /\ h[i] = ToolResult(i - j) /\ i - j <= h[j].n
    BY <2>1 DEF WellFormed, Backed
  <2>3. g[j] = h[j] BY <1>1, <2>1
  <2> QED BY <2>1, <2>2, <2>3
<1> QED BY <1>2, <1>3 DEF WellFormed, g

(* An ask is replayed with all its results still to come.                  *)
LEMMA AskMessage ==
  ASSUME NEW h \in Seq(Message), NEW n \in 1 .. MaxAsked, WellFormed(h)
  PROVE  Answering(Append(h, ToolCalls(n)), 0, n)
<1> DEFINE g == Append(h, ToolCalls(n))
<1>1. /\ Len(g) = Len(h) + 1 /\ Len(h) \in Nat
      /\ \A i \in 1 .. Len(h) : g[i] = h[i] /\ h[i] \in Message
      /\ g[Len(h) + 1] = ToolCalls(n)
  BY Messages, Appended
<1> HIDE DEF g
<1>2. ToolCalls(n).role = "ask" BY DEF ToolCalls
<1>3. \A i \in 1 .. Len(h) : g[i].role = "ask" =>
        \A k \in 1 .. g[i].n : i + k <= Len(g) /\ g[i + k] = ToolResult(k)
  <2> SUFFICES ASSUME NEW i \in 1 .. Len(h), g[i].role = "ask", NEW k \in 1 .. g[i].n
               PROVE  i + k <= Len(g) /\ g[i + k] = ToolResult(k)
    OBVIOUS
  <2>1. g[i] = h[i] /\ h[i].n \in Nat BY <1>1 DEF Message
  <2>2. i + k <= Len(h) /\ h[i + k] = ToolResult(k) BY <2>1 DEF WellFormed, Answered
  <2> QED BY <1>1, <2>1, <2>2
<1>4. Backed(g)
  <2> SUFFICES ASSUME NEW i \in 1 .. Len(g), g[i].role = "tool"
               PROVE  \E j \in 1 .. i - 1 : /\ g[j].role = "ask"
                                            /\ g[i] = ToolResult(i - j) /\ i - j <= g[j].n
    BY DEF Backed
  <2>1. i \in 1 .. Len(h) /\ g[i] = h[i] BY <1>1, <1>2
  <2>2. PICK j \in 1 .. i - 1 : /\ h[j].role = "ask"
                                /\ h[i] = ToolResult(i - j) /\ i - j <= h[j].n
    BY <2>1 DEF WellFormed, Backed
  <2>3. g[j] = h[j] BY <1>1, <2>1
  <2> QED BY <2>1, <2>2, <2>3
<1>5. 0 \in 0 .. n /\ 0 < Len(g) /\ Len(g) - 0 = Len(h) + 1 /\ Len(g) - 0 - 1 = Len(h) BY <1>1
<1> QED BY <1>1, <1>3, <1>4, <1>5 DEF Answering, g

(* One more result is the next one of the last ask.                        *)
LEMMA ResultMessage ==
  ASSUME NEW h \in Seq(Message), NEW n \in 0 .. MaxAsked, NEW r \in Nat, r < n,
         Answering(h, r, n)
  PROVE  Answering(Append(h, ToolResult(r + 1)), r + 1, n)
<1> DEFINE g == Append(h, ToolResult(r + 1))
<1>0. r + 1 \in 0 .. MaxAsked OBVIOUS
<1>1. /\ Len(g) = Len(h) + 1 /\ Len(h) \in Nat
      /\ \A i \in 1 .. Len(h) : g[i] = h[i] /\ h[i] \in Message
      /\ g[Len(h) + 1] = ToolResult(r + 1)
  BY <1>0, Messages, Appended
<1> HIDE DEF g
<1>2. /\ r < Len(h) /\ Len(g) - (r + 1) = Len(h) - r /\ Len(h) - r \in 1 .. Len(h)
      /\ r + 1 \in 0 .. n /\ r + 1 < Len(g)
  BY <1>1 DEF Answering
<1>3. h[Len(h) - r] = ToolCalls(n) BY DEF Answering
<1>4. g[Len(g) - (r + 1)] = ToolCalls(n) BY <1>1, <1>2, <1>3
<1>5. \A k \in 1 .. r + 1 : g[Len(g) - (r + 1) + k] = ToolResult(k)
  <2> SUFFICES ASSUME NEW k \in 1 .. r + 1 PROVE g[Len(h) - r + k] = ToolResult(k)
    BY <1>2
  <2>1. CASE k = r + 1
    <3>1. Len(h) - r + k = Len(h) + 1 BY <1>1, <2>1
    <3> QED BY <1>1, <2>1, <3>1
  <2>2. CASE k # r + 1
    <3>1. k \in 1 .. r /\ Len(h) - r + k \in 1 .. Len(h) BY <1>1, <1>2, <2>2
    <3> QED BY <1>1, <3>1 DEF Answering
  <2> QED BY <2>1, <2>2
<1>6. \A i \in 1 .. Len(g) - (r + 1) - 1 : g[i].role = "ask" =>
        \A k \in 1 .. g[i].n : i + k <= Len(g) /\ g[i + k] = ToolResult(k)
  <2> SUFFICES ASSUME NEW i \in 1 .. Len(h) - r - 1, g[i].role = "ask", NEW k \in 1 .. g[i].n
               PROVE  i + k <= Len(g) /\ g[i + k] = ToolResult(k)
    BY <1>2
  <2>1. i \in 1 .. Len(h) BY <1>1
  <2>2. g[i] = h[i] /\ h[i].n \in Nat BY <1>1, <2>1 DEF Message
  <2>3. i + k <= Len(h) /\ h[i + k] = ToolResult(k) BY <2>2 DEF Answering
  <2> QED BY <1>1, <2>1, <2>2, <2>3
<1>7. Backed(g)
  <2> SUFFICES ASSUME NEW i \in 1 .. Len(g), g[i].role = "tool"
               PROVE  \E j \in 1 .. i - 1 : /\ g[j].role = "ask"
                                            /\ g[i] = ToolResult(i - j) /\ i - j <= g[j].n
    BY DEF Backed
  <2>1. CASE i = Len(h) + 1
    <3>1. Len(h) - r \in 1 .. i - 1 /\ i - (Len(h) - r) = r + 1 BY <1>1, <1>2, <2>1
    <3>2. g[Len(h) - r] = ToolCalls(n) BY <1>1, <1>2, <1>3
    <3>3. ToolCalls(n).role = "ask" /\ ToolCalls(n).n = n BY DEF ToolCalls
    <3>4. r + 1 <= n OBVIOUS
    <3> QED BY <1>1, <2>1, <3>1, <3>2, <3>3, <3>4
  <2>2. CASE i # Len(h) + 1
    <3>1. i \in 1 .. Len(h) BY <1>1, <2>2
    <3>2. g[i] = h[i] BY <1>1, <3>1
    <3>3. PICK j \in 1 .. i - 1 : /\ h[j].role = "ask"
                                  /\ h[i] = ToolResult(i - j) /\ i - j <= h[j].n
      BY <3>1, <3>2 DEF Answering, Backed
    <3>4. g[j] = h[j] BY <1>1, <3>1
    <3> QED BY <3>2, <3>3, <3>4
  <2> QED BY <2>1, <2>2
<1> QED BY <1>2, <1>4, <1>5, <1>6, <1>7 DEF Answering, g

(* With the last result the conversation is complete.                      *)
LEMMA AllResults ==
  ASSUME NEW h \in Seq(Message), NEW n \in 0 .. MaxAsked, Answering(h, n, n)
  PROVE  WellFormed(h)
<1>1. Len(h) \in Nat /\ n < Len(h) BY LenProperties DEF Answering
<1>2. ToolCalls(n).n = n BY DEF ToolCalls
<1>3. \A k \in 1 .. n : ToolResult(k).role # "ask" BY DEF ToolResult
<1>4. Answered(h)
  <2> SUFFICES ASSUME NEW i \in 1 .. Len(h), h[i].role = "ask", NEW k \in 1 .. h[i].n
               PROVE  i + k <= Len(h) /\ h[i + k] = ToolResult(k)
    BY DEF Answered
  <2>1. CASE i <= Len(h) - n - 1
    <3>1. i \in 1 .. Len(h) - n - 1 BY <1>1, <2>1
    <3> QED BY <3>1 DEF Answering
  <2>2. CASE i = Len(h) - n
    <3>1. h[i] = ToolCalls(n) BY <2>2 DEF Answering
    <3>2. k \in 1 .. n BY <1>2, <3>1
    <3>3. i + k <= Len(h) /\ i + k = Len(h) - n + k BY <1>1, <2>2, <3>2
    <3> QED BY <3>2, <3>3 DEF Answering
  <2>3. CASE i > Len(h) - n
    <3>1. i - (Len(h) - n) \in 1 .. n /\ i = Len(h) - n + (i - (Len(h) - n)) BY <1>1, <2>3
    <3>2. h[i] = ToolResult(i - (Len(h) - n)) BY <3>1 DEF Answering
    <3> QED BY <1>3, <3>1, <3>2
  <2> QED BY <1>1, <2>1, <2>2, <2>3
<1> QED BY <1>4 DEF WellFormed, Answering

(* The copy is well-formed whenever it is sent or may be merged, and until *)
(* then the history ends with what the user said.                          *)
EndsWithUser == history # <<>> /\ history[Len(history)] = User

TurnIndInv ==
  /\ history \in Seq(Message) /\ hist \in Seq(Message)
  /\ turnAt \in {"none", "round", "tools", "merge", "release"}
  /\ callsAsked \in 0 .. MaxAsked /\ ran \in Nat
  /\ WellFormed(history)
  /\ turnAt = "round" \/ (turnAt = "merge" /\ ~failed) => WellFormed(hist)
  /\ turnAt = "tools" => Answering(hist, ran, callsAsked)
  /\ turnAt \in {"round", "tools", "merge"} \/ failed => EndsWithUser

(* The worker's steps and the callback keep that.                          *)
LEMMA TurnInductive == ASSUME TurnIndInv, [TurnNext]_turnVars PROVE TurnIndInv'
<1>1. CASE Send
  <2>1. /\ history' = Append(history, User) /\ hist' = Append(history, User)
        /\ turnAt' = "round" /\ callsAsked' = 0 /\ ran' = 0
    BY <1>1 DEF Send
  <2>2. history \in Seq(Message) /\ WellFormed(history) BY DEF TurnIndInv
  <2>3. history' \in Seq(Message) /\ hist' \in Seq(Message) BY <2>1, <2>2, Messages, Appended
  <2>4. WellFormed(history') /\ WellFormed(hist') BY <2>1, <2>2, PlainMessage
  <2>5. EndsWithUser'
    <3>1. Append(history, User) # <<>> /\ Append(history, User)[Len(history) + 1] = User
          /\ Len(Append(history, User)) = Len(history) + 1
      BY <2>2, Messages, Appended
    <3> QED BY <2>1, <3>1 DEF EndsWithUser
  <2>6. callsAsked' \in 0 .. MaxAsked /\ ran' \in Nat BY <2>1
  <2> QED BY <2>1, <2>3, <2>4, <2>5, <2>6, Zenon DEF TurnIndInv
<1>2. CASE RoundsOver \/ RequestFails
  <2>1. /\ UNCHANGED <<history, hist, callsAsked, ran>> /\ turnAt = "round"
        /\ turnAt' = "merge" /\ failed'
    BY <1>2 DEF RoundsOver, RequestFails
  <2> QED BY <2>1 DEF TurnIndInv, EndsWithUser
<1>3. CASE RequestAnswers
  <2>1. /\ UNCHANGED <<history, callsAsked, ran, failed>> /\ turnAt = "round"
        /\ turnAt' = "merge" /\ hist' = Append(hist, Assistant)
    BY <1>3 DEF RequestAnswers
  <2>2. hist \in Seq(Message) /\ WellFormed(hist) /\ EndsWithUser BY <2>1 DEF TurnIndInv
  <2>3. hist' \in Seq(Message) /\ WellFormed(hist')
    BY <2>1, <2>2, Messages, Appended, PlainMessage
  <2> QED BY <2>1, <2>2, <2>3 DEF TurnIndInv, EndsWithUser
<1>4. CASE RequestAsks
  <2>1. PICK n \in 1 .. MaxAsked :
          hist' = Append(hist, ToolCalls(n)) /\ callsAsked' = n /\ ran' = 0
    BY <1>4 DEF RequestAsks
  <2>2. UNCHANGED <<history, failed>> /\ turnAt = "round" /\ turnAt' = "tools"
    BY <1>4 DEF RequestAsks
  <2>3. hist \in Seq(Message) /\ WellFormed(hist) /\ EndsWithUser BY <2>2 DEF TurnIndInv
  <2>4. n \in 0 .. MaxAsked OBVIOUS
  <2>5. hist' \in Seq(Message) BY <2>1, <2>3, <2>4, Messages, Appended
  <2>6. Answering(hist', 0, n) BY <2>1, <2>3, AskMessage
  <2> QED BY <2>1, <2>2, <2>3, <2>4, <2>5, <2>6 DEF TurnIndInv, EndsWithUser
<1>5. CASE RunTool
  <2>1. /\ UNCHANGED <<history, callsAsked, failed, turnAt>> /\ turnAt = "tools"
        /\ ran < callsAsked /\ hist' = Append(hist, ToolResult(ran + 1)) /\ ran' = ran + 1
    BY <1>5 DEF RunTool
  <2>2. hist \in Seq(Message) /\ Answering(hist, ran, callsAsked) /\ EndsWithUser
        /\ callsAsked \in 0 .. MaxAsked /\ ran \in Nat
    BY <2>1 DEF TurnIndInv
  <2>3. ran + 1 \in 0 .. MaxAsked /\ ran' \in Nat BY <2>1, <2>2
  <2>4. hist' \in Seq(Message) BY <2>1, <2>2, <2>3, Messages, Appended
  <2>5. Answering(hist', ran', callsAsked) BY <2>1, <2>2, ResultMessage
  <2> QED BY <2>1, <2>2, <2>3, <2>4, <2>5 DEF TurnIndInv, EndsWithUser
<1>6. CASE ToolThrows
  <2>1. UNCHANGED <<history, hist, callsAsked, ran, failed>> /\ turnAt' = "none"
    BY <1>6 DEF ToolThrows
  <2> QED BY <2>1 DEF TurnIndInv, EndsWithUser
<1>7. CASE ToolsDone
  <2>1. UNCHANGED <<history, hist, callsAsked, ran, failed>> /\ turnAt = "tools"
        /\ turnAt' = "round" /\ ran = callsAsked
    BY <1>7 DEF ToolsDone
  <2>2. WellFormed(hist) BY <2>1, AllResults DEF TurnIndInv
  <2> QED BY <2>1, <2>2 DEF TurnIndInv, EndsWithUser
<1>8. CASE Merge
  <2>1. UNCHANGED <<hist, callsAsked, ran, failed>> /\ turnAt = "merge" /\ turnAt' = "release"
        /\ history' = IF failed THEN history ELSE hist
    BY <1>8 DEF Merge
  <2> QED BY <2>1 DEF TurnIndInv, EndsWithUser
<1>9. CASE ReleaseBusy
  <2>1. UNCHANGED <<history, hist, callsAsked, ran, failed>> /\ turnAt' = "none"
    BY <1>9 DEF ReleaseBusy
  <2> QED BY <2>1 DEF TurnIndInv, EndsWithUser
<1>10. CASE Callback \/ UNCHANGED turnVars
  <2>1. UNCHANGED <<history, hist, callsAsked, ran, failed, turnAt>>
    BY <1>10 DEF Callback, turnVars
  <2> QED BY <2>1 DEF TurnIndInv, EndsWithUser
<1> QED BY <1>1, <1>2, <1>3, <1>4, <1>5, <1>6, <1>7, <1>8, <1>9, <1>10 DEF TurnNext, WorkerTurn

(* The conversation in every reachable state.                              *)
THEOREM TurnInvariant == TurnSpec => []TurnIndInv
<1>1. TurnInit => TurnIndInv
  <2> SUFFICES ASSUME TurnInit PROVE TurnIndInv
    OBVIOUS
  <2>1. history = <<>> /\ hist = <<>> /\ turnAt = "none" /\ callsAsked = 0 /\ ran = 0 /\ ~failed
    BY DEF TurnInit
  <2>2. <<>> \in Seq(Message) /\ Len(<<>>) = 0 BY EmptySeq
  <2>3. WellFormed(<<>>) BY <2>2 DEF WellFormed, Answered, Backed
  <2>4. 0 \in 0 .. MaxAsked /\ 0 \in Nat OBVIOUS
  <2> QED BY <2>1, <2>2, <2>3, <2>4, Zenon DEF TurnIndInv
<1>2. TurnIndInv /\ [TurnNext]_turnVars => TurnIndInv' BY TurnInductive
<1> QED BY <1>1, <1>2, PTL DEF TurnSpec

(* A turn that was accepted is under way, about to call back, answered or  *)
(* lost with the process, one at a time, so the counts stay below the      *)
(* turns.                                                                  *)
TurnCounts ==
  /\ turnAt \in {"none", "round", "tools", "merge", "release"}
  /\ turnAt # "none" => busy
  /\ rounds \in 0 .. kMaxToolRounds /\ callsAsked \in 0 .. MaxAsked /\ ran \in 0 .. callsAsked
  /\ sends \in 0 .. MaxSends /\ calling \in Nat /\ answered \in Nat
  /\ answered + calling + (IF turnAt = "none" THEN 0 ELSE 1) <= sends

TurnFlags == busy \in BOOLEAN /\ failed \in BOOLEAN /\ alive \in BOOLEAN

LEMMA TurnCountsStay == ASSUME TurnCounts, [TurnNext]_turnVars PROVE TurnCounts'
<1>0. kMaxToolRounds \in Nat /\ MaxAsked \in Nat /\ MaxSends \in Nat OBVIOUS
<1>1. CASE Send BY <1>0, <1>1 DEF Send, TurnCounts
<1>2. CASE RoundsOver \/ RequestFails \/ RequestAnswers
  BY <1>0, <1>2 DEF RoundsOver, RequestFails, RequestAnswers, TurnCounts
<1>3. CASE RequestAsks
  <2>1. PICK n \in 1 .. MaxAsked : callsAsked' = n /\ ran' = 0 BY <1>3 DEF RequestAsks
  <2>2. /\ turnAt = "round" /\ turnAt' = "tools" /\ rounds < kMaxToolRounds /\ rounds' = rounds + 1
        /\ UNCHANGED <<busy, sends, calling, answered>>
    BY <1>3 DEF RequestAsks
  <2> QED BY <1>0, <2>1, <2>2 DEF TurnCounts
<1>4. CASE RunTool BY <1>0, <1>4 DEF RunTool, TurnCounts
<1>5. CASE ToolThrows \/ ToolsDone \/ Merge
  BY <1>0, <1>5 DEF ToolThrows, ToolsDone, Merge, TurnCounts
<1>6. CASE ReleaseBusy \/ Callback BY <1>0, <1>6 DEF ReleaseBusy, Callback, TurnCounts
<1>7. CASE UNCHANGED turnVars BY <1>7 DEF turnVars, TurnCounts
<1> QED BY <1>1, <1>2, <1>3, <1>4, <1>5, <1>6, <1>7 DEF TurnNext, WorkerTurn

LEMMA TurnFlagsStay == ASSUME TurnFlags, [TurnNext]_turnVars PROVE TurnFlags'
BY Zenon DEF TurnFlags, TurnNext, WorkerTurn, turnVars, Send, RoundsOver, RequestFails,
             RequestAnswers, RequestAsks, RunTool, ToolThrows, ToolsDone, Merge, ReleaseBusy, Callback

(* The types of the turn: no count runs away.                              *)
THEOREM TurnTypes == TurnSpec => []TurnTypeOK
<1>1. TurnInit => TurnCounts /\ TurnFlags
  <2>1. TurnInit => TurnCounts BY DEF TurnInit, TurnCounts
  <2>2. TurnInit => TurnFlags BY DEF TurnInit, TurnFlags
  <2> QED BY <2>1, <2>2
<1>2. TurnIndInv /\ TurnCounts /\ TurnFlags => TurnTypeOK
  <2>1. TurnCounts => /\ rounds \in 0 .. kMaxToolRounds /\ callsAsked \in 0 .. MaxAsked
                      /\ ran \in 0 .. MaxAsked /\ sends \in 0 .. MaxSends
                      /\ calling \in 0 .. MaxSends /\ answered \in 0 .. MaxSends
    BY DEF TurnCounts
  <2> QED BY <2>1 DEF TurnIndInv, TurnFlags, TurnTypeOK
<1> QED BY <1>1, <1>2, TurnCountsStay, TurnFlagsStay, TurnInvariant, PTL DEF TurnSpec

(* Every request carries a conversation in which each ask has exactly its  *)
(* results, for any number of turns, rounds and tools asked for.           *)
THEOREM RequestsWellFormedHolds == TurnSpec => []RequestsWellFormed
<1>1. TurnIndInv => RequestsWellFormed BY DEF TurnIndInv, RequestsWellFormed
<1> QED BY <1>1, TurnInvariant, PTL

(* A turn that failed leaves nothing but what the user said.               *)
THEOREM FailureLeavesNoTraceHolds == TurnSpec => []FailureLeavesNoTrace
<1>1. TurnIndInv => FailureLeavesNoTrace BY DEF TurnIndInv, EndsWithUser, FailureLeavesNoTrace
<1> QED BY <1>1, TurnInvariant, PTL

-----------------------------------------------------------------------------
(* A step of the whole is, for every component, a step of that component   *)
(* or none.                                                                *)
LEMMA StepsOfComponents ==
  [Next]_vars =>
    /\ [MainNext]_mainVars /\ [TimerNext]_timerVars /\ [TurnNext]_turnVars
    /\ [LibraryNext]_libraryVars /\ [StoresNext]_storesVars /\ [AlarmNext]_alarmVars
    /\ [BatteryNext]_batteryVars /\ [DevicesNext]_deviceVars
    /\ [SpeechNext]_speechVars /\ [CatalogNext]_catalogVars /\ [ArtNext]_artVars
<1> SUFFICES ASSUME [Next]_vars
             PROVE  /\ [MainNext]_mainVars /\ [TimerNext]_timerVars /\ [TurnNext]_turnVars
                    /\ [LibraryNext]_libraryVars /\ [StoresNext]_storesVars
                    /\ [AlarmNext]_alarmVars /\ [BatteryNext]_batteryVars
                    /\ [DevicesNext]_deviceVars /\ [SpeechNext]_speechVars
                    /\ [CatalogNext]_catalogVars /\ [ArtNext]_artVars
  OBVIOUS
<1>1. CASE Main(MainNext) BY <1>1, Zenon DEF Main
<1>2. CASE Timer(TimerNext) BY <1>2, Zenon DEF Timer
<1>3. CASE Turn(TurnNext) BY <1>3, Zenon DEF Turn
<1>4. CASE Library(LibraryNext) BY <1>4, Zenon DEF Library
<1>5. CASE Stores(StoresNext) BY <1>5, Zenon DEF Stores
<1>6. CASE Alarm(AlarmNext) BY <1>6, Zenon DEF Alarm
<1>7. CASE Battery(BatteryNext) BY <1>7, Zenon DEF Battery
<1>8. CASE Devices(DevicesNext) BY <1>8, Zenon DEF Devices
<1>9. CASE Wake(WakeNext) BY <1>9, Zenon DEF Wake, SpeechNext
<1>10. CASE Synth(SynthNext \/ Recognize) BY <1>10, Zenon DEF Synth, SpeechNext
<1>11. CASE Catalog(CatalogNext) BY <1>11, Zenon DEF Catalog
<1>12. CASE Art(ArtNext) BY <1>12, Zenon DEF Art
<1>13. CASE UNCHANGED vars BY <1>13, Zenon DEF vars
<1> QED
  BY <1>1, <1>2, <1>3, <1>4, <1>5, <1>6, <1>7, <1>8, <1>9, <1>10, <1>11, <1>12, <1>13, Zenon
  DEF Next

(* So a behaviour of the whole is one of each component.                   *)
THEOREM ComponentsOfHousehold ==
  Spec => /\ MainSpec /\ TimerSpec /\ TurnSpec /\ LibrarySpec /\ StoresSpec /\ AlarmSpec
          /\ BatterySpec /\ DevicesSpec /\ SpeechSpec /\ CatalogSpec /\ ArtSpec
<1>1. Init => /\ MainInit /\ TimerInit /\ TurnInit /\ LibraryInit /\ StoresInit /\ AlarmInit
              /\ BatteryInit /\ DevicesInit /\ SpeechInit /\ CatalogInit /\ ArtInit
  BY Zenon DEF Init
<1> QED BY <1>1, StepsOfComponents, PTL
  DEF Spec, MainSpec, TimerSpec, TurnSpec, LibrarySpec, StoresSpec, AlarmSpec, BatterySpec,
      DevicesSpec, SpeechSpec, CatalogSpec, ArtSpec

(* The types and the invariants of all components hold in every reachable  *)
(* state of the whole, for any number of threads, entries, crashes ...     *)
THEOREM HouseholdInvariant == Spec => []HouseholdInv
<1>1. MainIndInv /\ MainInv => MainTypeOK /\ MainInv BY DEF MainIndInv
<1>2. AlarmIndInv => AlarmTypeOK /\ AlarmInv BY DEF AlarmIndInv
<1>3. BatteryIndInv => BatteryTypeOK /\ BatteryInv BY DEF BatteryIndInv
<1>4. CatalogIndInv => CatalogTypeOK /\ CatalogInv BY DEF CatalogIndInv
<1>5. ArtIndInv => ArtTypeOK /\ ArtInv BY DEF ArtIndInv
<1> QED
  BY <1>1, <1>2, <1>3, <1>4, <1>5, ComponentsOfHousehold, MainInvariant, TimerInvariant,
     TurnTypes, FailureLeavesNoTraceHolds, LibraryInvariant, StoresInvariant, AlarmInvariant,
     SpokenOnceHolds, BatteryInvariant, DevicesInvariant, SpeechInvariant, CatalogInvariant,
     ArtInvariant, PTL
  DEF HouseholdInv

(* ... and so does what else is proved of the components.                  *)
THEOREM HouseholdIsSafe ==
  Spec => /\ [](VolumeSettles /\ SilencedIsSilent /\ RequestsWellFormed /\ FactsAreKept)
          /\ [](RingsOncePerDay /\ CoversAreWhole /\ QueueIsPlayable)
          /\ AlarmIsNotMissed /\ ScoresArePaired /\ AlbumsAreDurable
<1> QED BY ComponentsOfHousehold, VolumeSettlesHolds, SilencedIsSilentHolds,
           RequestsWellFormedHolds, FactsAreKeptHolds, RingsOncePerDayHolds, CoversAreWholeHolds,
           QueueIsPlayableHolds, AlarmIsNotMissedHolds, ScoresArePairedHolds,
           AlbumsAreDurableHolds, PTL
=============================================================================
