------------------------------ MODULE MainLoop ------------------------------
(***************************************************************************)
(* The main loop of the firmware (app/application.cc) and the path that    *)
(* drives it from other threads: the set_volume tool reads the display     *)
(* settings, DeviceBridge schedules its handler on the loop, the handler   *)
(* tells the codec and writes the settings, and the codec hands every new  *)
(* state to a detached thread that runs the mixer command.  The loop       *)
(* sleeps on an event group whose bits are taken all at once.              *)
(***************************************************************************)
EXTENDS Integers, Sequences, FiniteSets

CONSTANTS
  Callers,     (* threads that run tools                                    *)
  VolumeArgs,  (* arguments of set_volume, NoArg for one that is left out   *)
  NoArg,
  MaxCalls     (* bound: calls that are made in a behaviour                 *)

ASSUME MainAssumption ==
  /\ MaxCalls \in Nat
  /\ \A args \in VolumeArgs : /\ args.level = NoArg \/ args.level \in Int
                              /\ args.mute = NoArg \/ args.mute \in BOOLEAN

VARIABLES
  bits,        (* event group: what the loop has to look at                 *)
  mainTasks,   (* main_tasks_                                               *)
  loopRunning, (* running_                                                  *)
  stopAt,      (* where the thread that requests the stop is                *)
  loopAt,      (* where the main thread is                                  *)
  taken,       (* the bits its last wait returned                           *)
  batch,       (* the tasks it swapped out                                  *)
  callAt,      (* where each caller is in its call                          *)
  request,     (* the task each caller is about to push                     *)
  calls,       (* calls made so far                                         *)
  display,     (* the settings display.volume and display.muted             *)
  output,      (* output_volume_ and output_muted_ of the codec             *)
  revision,    (* output_revision_                                          *)
  appliers,    (* the detached threads of QueueOutputState                  *)
  mixer,       (* what the sound card does                                  *)
  lastApplied  (* history: the newest revision whose command has ended      *)

loopVars == <<bits, mainTasks, loopRunning, stopAt, loopAt, taken, batch>>
callVars == <<callAt, request, calls>>
soundVars == <<display, output, revision, appliers, mixer, lastApplied>>
mainVars == <<bits, mainTasks, loopRunning, stopAt, loopAt, taken, batch, callAt, request, calls,
              display, output, revision, appliers, mixer, lastApplied>>

MainEvents == {"SCHEDULE", "CLOCK_TICK", "STATE_CHANGED"}

Sound == [volume : 0..100, muted : BOOLEAN]
Task == [kind : {"notice", "volume"}, state : Sound]
Notice == [kind |-> "notice", state |-> [volume |-> 0, muted |-> FALSE]]
Applier == [revision : Nat, state : Sound, at : {"sleep", "shell"}]

MainTypeOK ==
  /\ bits \subseteq MainEvents /\ taken \subseteq MainEvents
  /\ mainTasks \in Seq(Task) /\ batch \in Seq(Task)
  /\ loopRunning \in BOOLEAN
  /\ stopAt \in {"idle", "signal", "done"}
  /\ loopAt \in {"check", "wait", "woken", "run", "saveVolume", "saveMuted", "out", "stopped"}
  /\ callAt \in [Callers -> {"idle", "push", "signal"}]
  /\ request \in [Callers -> Task]
  /\ calls \in Nat
  /\ display \in Sound /\ output \in Sound /\ mixer \in Sound
  /\ revision \in Nat /\ lastApplied \in Nat
  /\ appliers \subseteq Applier

(* std::max(0, std::min(100, level)): VolumeTool, DeviceBridge and the     *)
(* codec each write it.                                                    *)
Clamp(v) == IF v < 0 THEN 0 ELSE IF v > 100 THEN 100 ELSE v

(* Board's constructor has put the persisted state to the codec, and       *)
(* Initialize has set the device state.                                    *)
MainInit ==
  /\ bits = {"STATE_CHANGED"} /\ taken = {}
  /\ mainTasks = <<>> /\ batch = <<>>
  /\ loopRunning = TRUE /\ stopAt = "idle" /\ loopAt = "check"
  /\ callAt = [c \in Callers |-> "idle"]
  /\ request = [c \in Callers |-> Notice]
  /\ calls = 0
  /\ display = [volume |-> 50, muted |-> FALSE]
  /\ output = display
  /\ revision = 1
  /\ appliers = {[revision |-> 1, state |-> display, at |-> "sleep"]}
  /\ mixer = [volume |-> 0, muted |-> TRUE]
  /\ lastApplied = 0

-----------------------------------------------------------------------------
(* VolumeTool::Execute: a missing level is read from the settings, a level *)
(* alone unmutes, and DeviceBridge::SetVolume copies its handler.          *)
VolumeCall(c) ==
  \E args \in VolumeArgs :
    /\ callAt[c] = "idle" /\ calls < MaxCalls
    /\ ~(args.level = NoArg /\ args.mute = NoArg)
    /\ calls' = calls + 1
    /\ callAt' = [callAt EXCEPT ![c] = "push"]
    /\ request' = [request EXCEPT ![c] =
         [kind |-> "volume",
          state |-> [volume |-> IF args.level = NoArg THEN display.volume ELSE Clamp(args.level),
                     muted |-> IF args.mute = NoArg THEN FALSE ELSE args.mute]]]
    /\ UNCHANGED <<loopVars, soundVars>>

(* The other requests of DeviceBridge: their handlers only log or speak.   *)
NoticeCall(c) ==
  /\ callAt[c] = "idle" /\ calls < MaxCalls
  /\ calls' = calls + 1
  /\ callAt' = [callAt EXCEPT ![c] = "push"]
  /\ request' = [request EXCEPT ![c] = Notice]
  /\ UNCHANGED <<loopVars, soundVars>>

(* Schedule: the task is moved into the queue under tasks_mtx_ ...         *)
PushTask(c) ==
  /\ callAt[c] = "push"
  /\ mainTasks' = Append(mainTasks, request[c])
  /\ request' = [request EXCEPT ![c] = Notice]
  /\ callAt' = [callAt EXCEPT ![c] = "signal"]
  /\ UNCHANGED <<bits, loopRunning, stopAt, loopAt, taken, batch, calls, soundVars>>

(* ... then set the bit.                                                   *)
SignalTask(c) ==
  /\ callAt[c] = "signal"
  /\ bits' = bits \cup {"SCHEDULE"}
  /\ callAt' = [callAt EXCEPT ![c] = "idle"]
  /\ UNCHANGED <<mainTasks, loopRunning, stopAt, loopAt, taken, batch, request, calls, soundVars>>

(* OnClockTimer, every second on the thread of esp_timer.                  *)
ClockTimer ==
  /\ bits' = bits \cup {"CLOCK_TICK"}
  /\ UNCHANGED <<mainTasks, loopRunning, stopAt, loopAt, taken, batch, callVars, soundVars>>

(* RequestStop, on the thread that waits for SIGTERM: the flag, ...        *)
RequestStop ==
  /\ stopAt = "idle"
  /\ loopRunning' = FALSE /\ stopAt' = "signal"
  /\ UNCHANGED <<bits, mainTasks, loopAt, taken, batch, callVars, soundVars>>

(* ... then the bit that wakes the loop.                                   *)
SignalStop ==
  /\ stopAt = "signal"
  /\ stopAt' = "done"
  /\ bits' = bits \cup {"SCHEDULE"}
  /\ UNCHANGED <<mainTasks, loopRunning, loopAt, taken, batch, callVars, soundVars>>

-----------------------------------------------------------------------------
(* Run: while (running_).                                                  *)
LoopCheck ==
  /\ loopAt = "check"
  /\ loopAt' = IF loopRunning THEN "wait" ELSE "out"
  /\ UNCHANGED <<bits, mainTasks, loopRunning, stopAt, taken, batch, callVars, soundVars>>

(* xEventGroupWaitBits: any bit ends the wait, every bit is cleared.       *)
LoopWake ==
  /\ loopAt = "wait" /\ bits # {}
  /\ taken' = bits /\ bits' = {}
  /\ loopAt' = "woken"
  /\ UNCHANGED <<mainTasks, loopRunning, stopAt, batch, callVars, soundVars>>

(* Mutant: the queue is emptied only when no other bit came with it.       *)
LoopTakeLone ==
  /\ loopAt = "woken"
  /\ taken' = {}
  /\ \/ /\ loopRunning /\ taken = {"SCHEDULE"}
        /\ batch' = mainTasks /\ mainTasks' = <<>>
        /\ loopAt' = "run"
     \/ /\ loopRunning /\ taken # {"SCHEDULE"}
        /\ loopAt' = "check"
        /\ UNCHANGED <<mainTasks, batch>>
     \/ /\ ~loopRunning
        /\ loopAt' = "out"
        /\ UNCHANGED <<mainTasks, batch>>
  /\ UNCHANGED <<bits, loopRunning, stopAt, callVars, soundVars>>

(* The flag is looked at again, and the whole queue is swapped out.  The   *)
(* clock tick of the same iteration is modelled in AlarmClock.             *)
LoopTake ==
  /\ loopAt = "woken"
  /\ taken' = {}
  /\ \/ /\ loopRunning /\ "SCHEDULE" \in taken
        /\ batch' = mainTasks /\ mainTasks' = <<>>
        /\ loopAt' = "run"
     \/ /\ loopRunning /\ "SCHEDULE" \notin taken
        /\ loopAt' = "check"
        /\ UNCHANGED <<mainTasks, batch>>
     \/ /\ ~loopRunning
        /\ loopAt' = "out"
        /\ UNCHANGED <<mainTasks, batch>>
  /\ UNCHANGED <<bits, loopRunning, stopAt, callVars, soundVars>>

RunNotice ==
  /\ loopAt = "run" /\ batch # <<>> /\ Head(batch).kind = "notice"
  /\ batch' = Tail(batch)
  /\ UNCHANGED <<bits, mainTasks, loopRunning, stopAt, loopAt, taken, callVars, soundVars>>

(* Mutant: the number is read before the increment.                        *)
RunVolumeOld ==
  /\ loopAt = "run" /\ batch # <<>> /\ Head(batch).kind = "volume"
  /\ LET s == Head(batch).state IN
       /\ output' = s
       /\ revision' = revision + 1
       /\ appliers' = appliers \cup {[revision |-> revision, state |-> s, at |-> "sleep"]}
  /\ loopAt' = "saveVolume"
  /\ UNCHANGED <<bits, mainTasks, loopRunning, stopAt, taken, batch, callVars,
                 display, mixer, lastApplied>>

(* The volume handler: SetOutputState numbers the state and starts a       *)
(* thread for it, ...                                                      *)
RunVolume ==
  /\ loopAt = "run" /\ batch # <<>> /\ Head(batch).kind = "volume"
  /\ LET s == Head(batch).state IN
       /\ output' = s
       /\ revision' = revision + 1
       /\ appliers' = appliers \cup {[revision |-> revision + 1, state |-> s, at |-> "sleep"]}
  /\ loopAt' = "saveVolume"
  /\ UNCHANGED <<bits, mainTasks, loopRunning, stopAt, taken, batch, callVars,
                 display, mixer, lastApplied>>

(* ... then the two settings are written, one after the other.             *)
SaveVolume ==
  /\ loopAt = "saveVolume"
  /\ display' = [display EXCEPT !.volume = Head(batch).state.volume]
  /\ loopAt' = "saveMuted"
  /\ UNCHANGED <<bits, mainTasks, loopRunning, stopAt, taken, batch, callVars,
                 output, revision, appliers, mixer, lastApplied>>

SaveMuted ==
  /\ loopAt = "saveMuted"
  /\ display' = [display EXCEPT !.muted = Head(batch).state.muted]
  /\ batch' = Tail(batch)
  /\ loopAt' = "run"
  /\ UNCHANGED <<bits, mainTasks, loopRunning, stopAt, taken, callVars,
                 output, revision, appliers, mixer, lastApplied>>

BatchDone ==
  /\ loopAt = "run" /\ batch = <<>>
  /\ loopAt' = "check"
  /\ UNCHANGED <<bits, mainTasks, loopRunning, stopAt, taken, batch, callVars, soundVars>>

(* The loop is left and VoiceLoop::Stop is called.                         *)
LoopOut ==
  /\ loopAt = "out"
  /\ loopAt' = "stopped"
  /\ UNCHANGED <<bits, mainTasks, loopRunning, stopAt, taken, batch, callVars, soundVars>>

-----------------------------------------------------------------------------
(* The detached thread wakes after 25 ms; a newer revision ends it.        *)
ApplierWake(a) ==
  /\ a.at = "sleep"
  /\ appliers' = (appliers \ {a}) \cup
                 (IF revision = a.revision THEN {[a EXCEPT !.at = "shell"]} ELSE {})
  /\ UNCHANGED <<loopVars, callVars, display, output, revision, mixer, lastApplied>>

(* ApplyLinuxVolume: the shell command takes effect.                       *)
ApplierDone(a) ==
  /\ a.at = "shell"
  /\ mixer' = a.state
  /\ lastApplied' = IF a.revision > lastApplied THEN a.revision ELSE lastApplied
  /\ appliers' = appliers \ {a}
  /\ UNCHANGED <<loopVars, callVars, display, output, revision>>

ApplierStep == \E a \in appliers : ApplierWake(a) \/ ApplierDone(a)

LoopStep ==
  \/ LoopCheck \/ LoopWake \/ LoopTake \/ RunNotice \/ RunVolume \/ SaveVolume \/ SaveMuted
  \/ BatchDone \/ LoopOut

MainNext ==
  \/ \E c \in Callers : VolumeCall(c) \/ NoticeCall(c) \/ PushTask(c) \/ SignalTask(c)
  \/ ClockTimer \/ RequestStop \/ SignalStop
  \/ LoopStep \/ ApplierStep

MainSpec == MainInit /\ [][MainNext]_mainVars

(* Every thread that is in the middle of something goes on; nobody is      *)
(* obliged to make a call, to stop the firmware or, here, to tick.         *)
FairMainSpec ==
  /\ MainSpec
  /\ WF_mainVars(LoopStep) /\ WF_mainVars(ApplierStep) /\ WF_mainVars(SignalStop)
  /\ \A c \in Callers : WF_mainVars(PushTask(c)) /\ WF_mainVars(SignalTask(c))

-----------------------------------------------------------------------------
(* A task in the queue has a wake-up on its way: the bit is set, or was    *)
(* taken by a loop that has not swapped the queue yet, or its caller is    *)
(* between the push and the bit.                                           *)
NoTaskStranded ==
  mainTasks # <<>> =>
    \/ "SCHEDULE" \in bits
    \/ loopAt = "woken" /\ "SCHEDULE" \in taken
    \/ \E c \in Callers : callAt[c] = "signal"
    \/ loopAt \in {"out", "stopped"}

(* What holds of the revisions: the newest one is the codec's state and is *)
(* still to be applied or has been.                                        *)
NewestIsKept ==
  /\ \A a \in appliers : a.revision <= revision /\ (a.revision = revision => a.state = output)
  /\ lastApplied <= revision
  /\ lastApplied = revision \/ \E a \in appliers : a.revision = revision

MainInv == NoTaskStranded /\ NewestIsKept

Quiet == appliers = {} /\ loopAt = "wait" /\ bits = {} /\ \A c \in Callers : callAt[c] = "idle"

(* With nothing under way, the settings hold what the codec was told last, *)
(* and that state was handed to the sound card: the next boot, which       *)
(* starts from the settings, sounds like this one.                         *)
VolumeSettles == Quiet => display = output /\ lastApplied = revision

(* "Apply only the newest state, avoiding stale mixer commands finishing   *)
(* after the final value" (audio_codec.cc:54-55): with nothing under way   *)
(* the sound card does what the codec was told last.                       *)
NewestWins == Quiet => mixer = output

(* The loop answers whatever is asked of it from other threads: every task *)
(* is taken while it runs, and a requested stop ends it, also if it sleeps.*)
LoopAnswers ==
  mainTasks # <<>> \/ ~loopRunning ~> (mainTasks = <<>> /\ loopRunning) \/ loopAt = "stopped"
=============================================================================
