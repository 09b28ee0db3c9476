-------------------------- MODULE PlayerController --------------------------
(***************************************************************************)
(* The process-backed music player (media/player_controller.cc).           *)
(*                                                                         *)
(* Caller threads (agent worker, realtime tool threads, microphone thread) *)
(* change the shared snapshot under state_mutex_ and, in a second critical *)
(* section, enqueue a command.  One worker thread resolves streams and     *)
(* owns the mpv child process.  A generation counter, bumped whenever the  *)
(* wanted stream changes, tells the worker that what it is doing is stale. *)
(*                                                                         *)
(* The atomic steps are the critical sections and the single reads of the  *)
(* atomics between them.  Positions, titles, error texts and the revision  *)
(* counter are abstracted: where the code branches on a position or on an  *)
(* exit status, the model takes either branch.                             *)
(***************************************************************************)
EXTENDS Integers, Sequences

CONSTANTS
  Callers,      (* threads that call the public methods                     *)
  Tracks,       (* the songs                                                *)
  Playlists,    (* the queues a caller may ask for, sequences of tracks     *)
  Outputs,      (* volume/mute settings                                     *)
  InitOutput,   (* the setting of a fresh PlayerSnapshot                    *)
  Endings,      (* how a stream may end: subset of {"natural", "broken"}    *)
  BootStates,   (* may mpv's IPC socket be up as soon as exec succeeded?    *)
  MaxRequests,  (* bound on public calls                                    *)
  NoTrack       (* the track of an empty snapshot                           *)

ASSUME PlayerAssumption ==
  /\ InitOutput \in Outputs
  /\ Endings \subseteq {"natural", "broken"}
  /\ BootStates \subseteq BOOLEAN
  /\ MaxRequests \in Nat
  /\ Playlists \subseteq Seq(Tracks) \ {<<>>}

VARIABLES
  queue, index,     (* state_.queue; state_.index + 1, 0 when !has_current  *)
  status, output,   (* state_.status; state_.volume with state_.muted       *)
  pauseRequested,   (* pause_requested_                                     *)
  generation,       (* generation_                                          *)
  shutting,         (* shutting_down_                                       *)
  commands,         (* commands_: pending commands with their arrival order *)
  arrivals,         (* tickets given out since commands_ was last empty     *)
  intent,           (* what a Toggle or Previous decided from its snapshot  *)
  hand,             (* command built by a caller and not yet enqueued       *)
  requests,         (* public calls made so far                             *)
  worker,           (* program counter and locals of the worker thread      *)
  active,           (* active_track_, active_generation_, refresh count     *)
  child,            (* the mpv process                                      *)
  signalStopped     (* child_signal_stopped_                                *)

snapshotVars == <<queue, index, status, output>>
callerVars   == <<intent, hand, requests>>
childVars    == <<child, signalStopped>>
queueVars    == <<commands, arrivals>>
vars == <<snapshotVars, pauseRequested, generation, shutting, queueVars,
          callerVars, worker, active, childVars>>

Statuses == {"Idle", "Resolving", "Buffering", "Playing", "Paused", "Ended", "Error"}
CommandTypes == {"Load", "Pause", "Resume", "StopProcess", "ApplyOutput", "Shutdown"}

NoCommand == [type |-> "none", gen |-> 0, track |-> NoTrack]
Plain(type) == [type |-> type, gen |-> 0, track |-> NoTrack]
Load(gen, track) == [type |-> "Load", gen |-> gen, track |-> track]

NoIntent == [kind |-> "none", index |-> 0]
NoChild == [alive |-> FALSE, exited |-> FALSE, gen |-> 0, track |-> NoTrack,
            output |-> InitOutput, paused |-> FALSE, stopped |-> FALSE, ready |-> FALSE]
WorkOn(pc, gen, track) == [pc |-> pc, gen |-> gen, track |-> track, paused |-> FALSE,
                           output |-> InitOutput, relaunch |-> FALSE]
IdleWorker == WorkOn("idle", 0, NoTrack)
FreshActive(gen, track) == [gen |-> gen, track |-> track, url |-> FALSE, refreshes |-> 0]

HasCurrent == index # 0
CurrentTrack == IF HasCurrent THEN queue[index] ELSE NoTrack
GenerationIsCurrent(gen) == ~shutting /\ gen = generation

Init ==
  /\ queue = <<>> /\ index = 0 /\ status = "Idle" /\ output = InitOutput
  /\ pauseRequested = FALSE /\ generation = 0 /\ shutting = FALSE
  /\ commands = {} /\ arrivals = 0
  /\ intent = [t \in Callers |-> NoIntent]
  /\ hand = [t \in Callers |-> NoCommand]
  /\ requests = 0
  /\ worker = IdleWorker
  /\ active = FreshActive(0, NoTrack)
  /\ child = NoChild /\ signalStopped = FALSE

-----------------------------------------------------------------------------
(* The command queue.                                                      *)

(* A new output change, or pause/resume, replaces the pending one.         *)
Replaces(new, old) ==
  \/ new.type = "ApplyOutput" /\ old.type = "ApplyOutput"
  \/ new.type \in {"Pause", "Resume"} /\ old.type \in {"Pause", "Resume"}

Coalesced(cmd) == {p \in commands : ~Replaces(cmd, p.cmd)}

(* The second half of every public call.  A caller that saw the flag down  *)
(* before the destructor raised it still pushes.                           *)
Enqueue(t) ==
  /\ hand[t] # NoCommand
  /\ hand' = [hand EXCEPT ![t] = NoCommand]
  /\ \/ LET kept == Coalesced(hand[t])
        IN  /\ arrivals' = IF kept = {} THEN 1 ELSE arrivals + 1
            /\ commands' = kept \cup {[cmd |-> hand[t], at |-> arrivals']}
     \/ shutting /\ UNCHANGED queueVars
  /\ UNCHANGED <<snapshotVars, pauseRequested, generation, shutting, intent, requests,
                 worker, active, childVars>>

-----------------------------------------------------------------------------
(* Public calls: the critical section under state_mutex_.                  *)

Free(t) == hand[t] = NoCommand /\ intent[t] = NoIntent /\ requests < MaxRequests

Direct(t) == Free(t) /\ requests' = requests + 1 /\ UNCHANGED intent

(* A direct call, or the second step of a Toggle or Previous.              *)
Called(t, kind) ==
  \/ Direct(t)
  \/ /\ hand[t] = NoCommand
     /\ intent[t].kind = kind
     /\ intent' = [intent EXCEPT ![t] = NoIntent]
     /\ UNCHANGED requests

Hand(t, cmd) == hand' = [hand EXCEPT ![t] = cmd]

ResolvingOrPaused == IF pauseRequested THEN "Paused" ELSE "Resolving"

PlayQueue(t, q, start) ==
  /\ Direct(t)
  /\ generation' = generation + 1
  /\ pauseRequested' = FALSE
  /\ queue' = q /\ index' = start /\ status' = "Resolving"
  /\ Hand(t, Load(generation', q[start]))
  /\ UNCHANGED <<output, shutting, queueVars, worker, active, childVars>>

(* Mutant: nobody tells the worker to end the process.                     *)
StopWithoutCommand(t) ==
  /\ Direct(t)
  /\ generation' = generation + 1
  /\ pauseRequested' = FALSE
  /\ queue' = <<>> /\ index' = 0 /\ status' = "Idle"
  /\ UNCHANGED <<hand, output, shutting, queueVars, worker, active, childVars>>

(* Stop, and PlayQueue with an empty queue.                                *)
Stop(t) ==
  /\ Direct(t)
  /\ generation' = generation + 1
  /\ pauseRequested' = FALSE
  /\ queue' = <<>> /\ index' = 0 /\ status' = "Idle"
  /\ Hand(t, Plain("StopProcess"))
  /\ UNCHANGED <<output, shutting, queueVars, worker, active, childVars>>

Pause(t) ==
  /\ Called(t, "pause")
  /\ IF ~HasCurrent \/ status \in {"Idle", "Ended", "Error"}
     THEN UNCHANGED <<pauseRequested, status, hand>>
     ELSE /\ pauseRequested' = TRUE
          /\ status' = "Paused"
          /\ Hand(t, Plain("Pause"))
  /\ UNCHANGED <<queue, index, output, generation, shutting, queueVars, worker, active, childVars>>

Resume(t) ==
  /\ Called(t, "resume")
  /\ \/ ~HasCurrent /\ UNCHANGED <<pauseRequested, status, generation, hand>>
     \/ /\ HasCurrent /\ status \in {"Ended", "Error"}
        /\ pauseRequested' = FALSE
        /\ generation' = generation + 1
        /\ status' = "Resolving"
        /\ Hand(t, Load(generation', CurrentTrack))
     \/ /\ HasCurrent /\ status \notin {"Ended", "Error"}
        /\ pauseRequested' = FALSE
        /\ status' = "Playing"
        /\ Hand(t, Plain("Resume"))
        /\ UNCHANGED generation
  /\ UNCHANGED <<queue, index, output, shutting, queueVars, worker, active, childVars>>

(* SelectIndexLocked: make queue[i] current under a new generation.        *)
SelectIndexLocked(i, wantPause) ==
  /\ generation' = generation + 1
  /\ index' = i
  /\ status' = IF wantPause THEN "Paused" ELSE "Resolving"

NextTrack(t) ==
  /\ Direct(t)
  /\ \/ ~HasCurrent /\ UNCHANGED <<generation, index, status, pauseRequested, hand>>
     \/ /\ HasCurrent /\ index < Len(queue)
        /\ SelectIndexLocked(index + 1, pauseRequested)
        /\ Hand(t, Load(generation', queue[index + 1]))
        /\ UNCHANGED pauseRequested
     \/ /\ HasCurrent /\ index = Len(queue)
        /\ generation' = generation + 1
        /\ status' = "Ended"
        /\ pauseRequested' = FALSE
        /\ Hand(t, Plain("StopProcess"))
        /\ UNCHANGED index
  /\ UNCHANGED <<queue, output, shutting, queueVars, worker, active, childVars>>

SeekTo(t) ==
  /\ Called(t, "seek")
  /\ IF ~HasCurrent
     THEN UNCHANGED <<generation, status, hand>>
     ELSE /\ generation' = generation + 1
          /\ status' = ResolvingOrPaused
          /\ Hand(t, Load(generation', CurrentTrack))
  /\ UNCHANGED <<queue, index, output, pauseRequested, shutting, queueVars, worker, active, childVars>>

(* The second step of Previous: the queue may have changed meanwhile.      *)
SelectIndex(t) ==
  /\ intent[t].kind = "select" /\ hand[t] = NoCommand
  /\ intent' = [intent EXCEPT ![t] = NoIntent]
  /\ LET i == intent[t].index
     IN  IF i > Len(queue)
         THEN UNCHANGED <<generation, index, status, hand>>
         ELSE /\ SelectIndexLocked(i, pauseRequested)
              /\ Hand(t, Load(generation', queue[i]))
  /\ UNCHANGED <<queue, output, pauseRequested, shutting, queueVars, requests, worker, active, childVars>>

SetVolume(t, o) ==
  /\ Free(t) /\ o # output
  /\ requests' = requests + 1
  /\ output' = o
  /\ Hand(t, Plain("ApplyOutput"))
  /\ UNCHANGED <<queue, index, status, pauseRequested, generation, shutting, queueVars,
                 intent, worker, active, childVars>>

(* Toggle and Previous first take a snapshot and act on it afterwards.     *)
Decide(t, kind, i) ==
  /\ Free(t)
  /\ requests' = requests + 1
  /\ intent' = [intent EXCEPT ![t] = [kind |-> kind, index |-> i]]
  /\ UNCHANGED <<snapshotVars, pauseRequested, generation, shutting, queueVars, hand,
                 worker, active, childVars>>

Toggle(t) ==
  /\ HasCurrent
  /\ Decide(t, IF status \in {"Paused", "Ended", "Error"} THEN "resume" ELSE "pause", 0)

Previous(t) ==
  /\ HasCurrent
  /\ \/ Decide(t, "seek", 0)
     \/ index > 1 /\ Decide(t, "select", index - 1)

(* Mutant: pending commands are dropped and nothing wakes the worker.      *)
ShutdownWithoutCommand ==
  /\ ~shutting
  /\ shutting' = TRUE
  /\ generation' = generation + 1
  /\ commands' = {} /\ arrivals' = 0
  /\ UNCHANGED <<snapshotVars, pauseRequested, callerVars, worker, active, childVars>>

(* ~Impl: everything pending is dropped in favour of Shutdown.             *)
Shutdown ==
  /\ ~shutting
  /\ shutting' = TRUE
  /\ generation' = generation + 1
  /\ commands' = {[cmd |-> Plain("Shutdown"), at |-> 1]} /\ arrivals' = 1
  /\ UNCHANGED <<snapshotVars, pauseRequested, callerVars, worker, active, childVars>>

Public(t) ==
  \/ \E q \in Playlists : \E start \in DOMAIN q : PlayQueue(t, q, start)
  \/ Stop(t) \/ Pause(t) \/ Resume(t) \/ NextTrack(t) \/ SeekTo(t)
  \/ Toggle(t) \/ Previous(t)
  \/ \E o \in Outputs : SetVolume(t, o)

-----------------------------------------------------------------------------
(* The worker thread.                                                      *)

At(pc) == worker.pc = pc
Goto(pc) == worker' = [worker EXCEPT !.pc = pc]
Rest == worker' = IdleWorker
StopChild == child' = NoChild /\ signalStopped' = FALSE

(* Mutant: the status is written whatever generation it is about.          *)
PublishStale(st) == status' = st /\ UNCHANGED <<queue, index, output>>

(* SetWorkerStatus and SetError: nothing is published for a stale          *)
(* generation; the check and the write are under state_mutex_.  SetError   *)
(* does not look at has_current: while the worker's generation is current, *)
(* there is a track (NewestIsCurrent).                                     *)
Publish(st) ==
  /\ status' = IF GenerationIsCurrent(worker.gen) /\ HasCurrent THEN st ELSE status
  /\ UNCHANGED <<queue, index, output>>

WorkerFrame == UNCHANGED <<shutting, callerVars>>
CallerStateFrame == UNCHANGED <<snapshotVars, pauseRequested, generation>>

(* PauseChild over IPC; if the socket is not up, a second step signals.    *)
PauseChild ==
  /\ \/ ~child.alive /\ Rest /\ UNCHANGED childVars
     \/ /\ child.alive /\ child.ready
        /\ child' = [child EXCEPT !.paused = TRUE]
        /\ signalStopped' = FALSE
        /\ Rest
     \/ child.alive /\ ~child.ready /\ Goto("sigstop") /\ UNCHANGED childVars
  /\ UNCHANGED active

(* ResumeChild: after a SIGSTOP only SIGCONT is sent; otherwise IPC, and   *)
(* SIGCONT when the socket is not up.                                      *)
ResumeChild ==
  /\ Rest
  /\ IF ~child.alive
     THEN UNCHANGED childVars
     ELSE /\ signalStopped' = FALSE
          /\ child' = IF ~signalStopped /\ child.ready
                      THEN [child EXCEPT !.paused = FALSE]
                      ELSE [child EXCEPT !.stopped = FALSE]
  /\ UNCHANGED active

(* Mutant: the process of the previous track is left running.              *)
HandleLoadKeepsChild(cmd) ==
  /\ worker' = IF GenerationIsCurrent(cmd.gen) THEN WorkOn("adopt", cmd.gen, cmd.track) ELSE IdleWorker
  /\ UNCHANGED <<childVars, active>>

HandleLoad(cmd) ==
  /\ IF GenerationIsCurrent(cmd.gen)
     THEN StopChild /\ worker' = WorkOn("adopt", cmd.gen, cmd.track)
     ELSE Rest /\ UNCHANGED childVars
  /\ UNCHANGED active

HandleCommand(cmd) ==
  \/ cmd.type = "Load" /\ HandleLoad(cmd)
  \/ cmd.type = "Pause" /\ PauseChild
  \/ cmd.type = "Resume" /\ ResumeChild
  \/ cmd.type = "StopProcess" /\ StopChild /\ Rest /\ UNCHANGED active
  \/ cmd.type = "ApplyOutput" /\ Goto(IF child.alive THEN "output" ELSE "idle")
                              /\ UNCHANGED <<active, childVars>>
  \/ cmd.type = "Shutdown" /\ StopChild /\ Goto("exited") /\ UNCHANGED active

WorkerPop ==
  /\ At("idle")
  /\ \E c \in commands :
       /\ \A d \in commands : c.at <= d.at
       /\ commands' = commands \ {c} /\ UNCHANGED arrivals
       /\ HandleCommand(c.cmd)
  /\ CallerStateFrame /\ WorkerFrame

(* Mutant: a Load that became stale while the child was stopped goes on.   *)
AdoptUnchecked ==
  /\ At("adopt")
  /\ active' = FreshActive(worker.gen, worker.track)
  /\ Goto("resolve")
  /\ UNCHANGED <<queueVars, childVars>> /\ CallerStateFrame /\ WorkerFrame

(* The rest of HandleLoad, and the entry of ResolveAndLaunch.              *)
Adopt ==
  /\ At("adopt")
  /\ IF GenerationIsCurrent(worker.gen)
     THEN /\ active' = FreshActive(worker.gen, worker.track)
          /\ Goto("resolve")
     ELSE Rest /\ UNCHANGED active
  /\ UNCHANGED <<queueVars, childVars>> /\ CallerStateFrame /\ WorkerFrame

Resolve ==
  /\ At("resolve")
  /\ \/ ~GenerationIsCurrent(worker.gen) /\ Rest
     \/ GenerationIsCurrent(worker.gen) /\ Goto(IF pauseRequested THEN "fetch" ELSE "resolving")
  /\ UNCHANGED <<queueVars, active, childVars>> /\ CallerStateFrame /\ WorkerFrame

PublishResolving ==
  /\ At("resolving") /\ Publish("Resolving") /\ Goto("fetch")
  /\ UNCHANGED <<pauseRequested, generation, queueVars, active, childVars>> /\ WorkerFrame

(* Mutants: the launch ignores a pause; a resolved stream may be refreshed *)
(* again.                                                                  *)
FetchedAs(record, paused) ==
  /\ At("fetch")
  /\ \/ ~GenerationIsCurrent(worker.gen) /\ Rest /\ UNCHANGED active
     \/ GenerationIsCurrent(worker.gen) /\ Goto("error") /\ UNCHANGED active
     \/ /\ GenerationIsCurrent(worker.gen)
        /\ active' = [record EXCEPT !.gen = worker.gen, !.track = worker.track, !.url = TRUE]
        /\ worker' = [worker EXCEPT !.pc = IF paused THEN "launch" ELSE "buffering", !.paused = paused]
  /\ UNCHANGED <<queueVars, childVars>> /\ CallerStateFrame /\ WorkerFrame
FetchedUnpaused == FetchedAs(active, FALSE)
FetchedForgives == FetchedAs([active EXCEPT !.refreshes = 0], pauseRequested)

(* FetchStreamingUrl returned; the pause flag is read for the launch.      *)
Fetched ==
  /\ At("fetch")
  /\ \/ ~GenerationIsCurrent(worker.gen) /\ Rest /\ UNCHANGED active
     \/ GenerationIsCurrent(worker.gen) /\ Goto("error") /\ UNCHANGED active
     \/ /\ GenerationIsCurrent(worker.gen)
        /\ active' = [active EXCEPT !.gen = worker.gen, !.track = worker.track, !.url = TRUE]
        /\ worker' = [worker EXCEPT !.pc = IF pauseRequested THEN "launch" ELSE "buffering",
                                    !.paused = pauseRequested]
  /\ UNCHANGED <<queueVars, childVars>> /\ CallerStateFrame /\ WorkerFrame

PublishBuffering ==
  /\ At("buffering") /\ Publish("Buffering") /\ Goto("launch")
  /\ UNCHANGED <<pauseRequested, generation, queueVars, active, childVars>> /\ WorkerFrame

(* LaunchChild reads the output setting, then forks and execs.             *)
LaunchReadsOutput ==
  /\ At("launch")
  /\ worker' = [worker EXCEPT !.pc = "fork", !.output = output]
  /\ UNCHANGED <<queueVars, active, childVars>> /\ CallerStateFrame /\ WorkerFrame

LaunchChild ==
  /\ At("fork")
  /\ \/ Goto("error") /\ UNCHANGED childVars
     \/ /\ \E up \in BootStates :
             child' = [alive |-> TRUE, exited |-> FALSE, gen |-> worker.gen, track |-> worker.track,
                       output |-> worker.output, paused |-> worker.paused, stopped |-> FALSE, ready |-> up]
        /\ signalStopped' = FALSE
        /\ Goto(IF worker.relaunch THEN "launched" ELSE "verify")
  /\ UNCHANGED <<queueVars, active>> /\ CallerStateFrame /\ WorkerFrame

VerifyLaunch ==
  /\ At("verify")
  /\ IF GenerationIsCurrent(worker.gen)
     THEN Goto("launched") /\ UNCHANGED childVars
     ELSE Rest /\ StopChild
  /\ UNCHANGED <<queueVars, active>> /\ CallerStateFrame /\ WorkerFrame

PublishLaunched ==
  /\ At("launched") /\ Publish(IF worker.paused THEN "Paused" ELSE "Playing") /\ Rest
  /\ UNCHANGED <<pauseRequested, generation, queueVars, active, childVars>> /\ WorkerFrame

(* Mutant: a failed resolve is not reported.                               *)
SwallowError ==
  /\ At("error") /\ Rest
  /\ UNCHANGED <<queueVars, active, childVars>> /\ CallerStateFrame /\ WorkerFrame

PublishError ==
  /\ At("error") /\ Publish("Error") /\ Rest
  /\ UNCHANGED <<pauseRequested, generation, queueVars, active, childVars>> /\ WorkerFrame

(* The SIGSTOP that replaces a failed IPC pause.                           *)
SignalStop ==
  /\ At("sigstop")
  /\ child' = [child EXCEPT !.stopped = TRUE] /\ signalStopped' = TRUE
  /\ Rest
  /\ UNCHANGED <<queueVars, active>> /\ CallerStateFrame /\ WorkerFrame

(* ApplyOutput: read the setting, send it, or relaunch if IPC fails.       *)
OutputRead ==
  /\ At("output")
  /\ worker' = [worker EXCEPT !.pc = "send", !.output = output]
  /\ UNCHANGED <<queueVars, active, childVars>> /\ CallerStateFrame /\ WorkerFrame

(* Mutant: a failed send is not made up for by a relaunch.                 *)
OutputSendOnce ==
  /\ At("send")
  /\ child' = IF child.ready THEN [child EXCEPT !.output = worker.output] ELSE child
  /\ Rest
  /\ UNCHANGED <<queueVars, active, signalStopped>> /\ CallerStateFrame /\ WorkerFrame

OutputSend ==
  /\ At("send")
  /\ \/ child.ready /\ child' = [child EXCEPT !.output = worker.output] /\ Rest
     \/ /\ ~child.ready /\ UNCHANGED child
        /\ IF active.url /\ GenerationIsCurrent(active.gen)
           THEN worker' = [worker EXCEPT !.pc = "relaunch", !.relaunch = TRUE, !.gen = active.gen,
                                         !.track = active.track, !.paused = pauseRequested]
           ELSE Rest
  /\ UNCHANGED <<queueVars, active, signalStopped>> /\ CallerStateFrame /\ WorkerFrame

Relaunch ==
  /\ At("relaunch")
  /\ Publish(IF worker.paused THEN "Paused" ELSE "Buffering")
  /\ StopChild
  /\ Goto("launch")
  /\ UNCHANGED <<pauseRequested, generation, queueVars, active>> /\ WorkerFrame

(* PollChild reaps an exited child and hands over to HandleChildExit.      *)
PollChild ==
  /\ At("idle") /\ child.alive /\ child.exited
  /\ StopChild
  /\ worker' = WorkOn("exit", active.gen, active.track)
  /\ UNCHANGED <<queueVars, active>> /\ CallerStateFrame /\ WorkerFrame

AdvanceAfterNaturalEnd ==
  /\ IF HasCurrent /\ index < Len(queue)
     THEN /\ pauseRequested' = FALSE
          /\ SelectIndexLocked(index + 1, FALSE)
          /\ active' = FreshActive(generation', queue[index + 1])
          /\ worker' = [worker EXCEPT !.pc = "resolve", !.gen = generation', !.track = queue[index + 1]]
     ELSE /\ status' = IF HasCurrent THEN "Ended" ELSE status
          /\ Rest
          /\ UNCHANGED <<index, pauseRequested, generation, active>>
  /\ UNCHANGED <<queue, output>>

(* HandleChildExit: a stream that broke is refreshed once, then it is an   *)
(* error; one that ended naturally is followed by the next track, not      *)
(* paused, or by Ended.                                                    *)
HandleChildExit ==
  /\ At("exit")
  /\ \/ /\ ~GenerationIsCurrent(worker.gen)
        /\ Rest /\ UNCHANGED active /\ CallerStateFrame
     \/ /\ GenerationIsCurrent(worker.gen) /\ "broken" \in Endings
        /\ IF active.refreshes = 0
           THEN active' = [active EXCEPT !.refreshes = 1] /\ Goto("resolve")
           ELSE UNCHANGED active /\ Goto("error")
        /\ CallerStateFrame
     \/ /\ GenerationIsCurrent(worker.gen) /\ "natural" \in Endings
        /\ AdvanceAfterNaturalEnd
  /\ UNCHANGED <<queueVars, childVars>> /\ WorkerFrame

Worker ==
  \/ WorkerPop \/ Adopt \/ Resolve \/ PublishResolving \/ Fetched \/ PublishBuffering
  \/ LaunchReadsOutput \/ LaunchChild \/ VerifyLaunch \/ PublishLaunched \/ PublishError
  \/ SignalStop \/ OutputRead \/ OutputSend \/ Relaunch \/ PollChild \/ HandleChildExit

-----------------------------------------------------------------------------
(* mpv itself: its IPC socket comes up, and the stream ends.               *)

Audible == child.alive /\ ~child.exited /\ ~child.paused /\ ~child.stopped

Mpv == UNCHANGED <<snapshotVars, pauseRequested, generation, shutting, queueVars, callerVars,
                   worker, active, signalStopped>>

ChildReady ==
  /\ child.alive /\ ~child.exited /\ ~child.stopped /\ ~child.ready
  /\ child' = [child EXCEPT !.ready = TRUE]
  /\ Mpv

ChildExits ==
  /\ Audible /\ Endings # {}
  /\ child' = [child EXCEPT !.exited = TRUE, !.ready = FALSE]
  /\ Mpv

-----------------------------------------------------------------------------
CallerStep(t) == Enqueue(t) \/ Public(t) \/ SelectIndex(t)

Next == (\E t \in Callers : CallerStep(t)) \/ Shutdown \/ Worker \/ ChildReady \/ ChildExits

Spec == Init /\ [][Next]_vars

(* A call that began returns, the worker thread runs, fetches time out and *)
(* streams that are heard come to an end.  Nobody need ever call, and the  *)
(* IPC socket need never come up.                                          *)
CallReturns(t) ==
  \/ Enqueue(t)
  \/ intent[t] # NoIntent /\ (Pause(t) \/ Resume(t) \/ SeekTo(t) \/ SelectIndex(t))

Fairness ==
  /\ WF_vars(Worker)
  /\ WF_vars(ChildExits)
  /\ \A t \in Callers : WF_vars(CallReturns(t))

FairSpec == Spec /\ Fairness

-----------------------------------------------------------------------------
(* Properties.                                                             *)

Intents == [kind : {"none", "pause", "resume", "seek"}, index : {0}]
             \cup [kind : {"select"}, index : Nat \ {0}]
Commands == [type : CommandTypes, gen : Nat, track : Tracks \cup {NoTrack}]
WorkerSteps == {"idle", "exited", "adopt", "resolve", "resolving", "fetch", "buffering", "launch", "fork",
                "verify", "launched", "error", "sigstop", "output", "send", "relaunch", "exit"}
Workers == [pc : WorkerSteps, gen : Nat, track : Tracks \cup {NoTrack}, paused : BOOLEAN,
            output : Outputs, relaunch : BOOLEAN]
Actives == [gen : Nat, track : Tracks \cup {NoTrack}, url : BOOLEAN, refreshes : 0..1]
Children == [alive : BOOLEAN, exited : BOOLEAN, gen : Nat, track : Tracks \cup {NoTrack}, output : Outputs,
             paused : BOOLEAN, stopped : BOOLEAN, ready : BOOLEAN]

SnapshotType ==
  /\ queue \in Seq(Tracks) /\ index \in 0..Len(queue)
  /\ status \in Statuses /\ output \in Outputs
  /\ pauseRequested \in BOOLEAN /\ shutting \in BOOLEAN /\ generation \in Nat
CallerType ==
  /\ commands \subseteq [cmd : Commands, at : Nat] /\ arrivals \in Nat
  /\ hand \in [Callers -> Commands \cup {NoCommand}]
  /\ intent \in [Callers -> Intents] /\ requests \in 0..MaxRequests
WorkerType ==
  /\ worker \in Workers /\ active \in Actives
  /\ child \in Children /\ signalStopped \in BOOLEAN

TypeOK == SnapshotType /\ CallerType /\ WorkerType

(* Nobody is inside a call, nothing is pending and the worker waits.       *)
Quiescent ==
  /\ \A t \in Callers : hand[t] = NoCommand /\ intent[t] = NoIntent
  /\ commands = {} /\ At("idle") /\ ~child.exited /\ ~shutting

(* What is heard is what is shown: once every request has been handled, a  *)
(* player process belongs to the newest request and plays the current      *)
(* track, whatever was superseded while it was resolving or launching.     *)
HeardIsShown == Quiescent /\ child.alive => child.gen = generation /\ child.track = CurrentTrack

(* The last volume asked for is the one the player process has, although   *)
(* the setting is read before fork, IPC may fail and changes are coalesced.*)
OutputSettles == Quiescent /\ child.alive => child.output = output

LeavesIdle == status = "Idle" /\ status' # "Idle"
Loads == \E t \in Callers : hand'[t].type = "Load"

(* Idle is left only by a request to play a queue: a load, an error or a   *)
(* stream end that Stop superseded never resurrects the snapshot.          *)
NoResurrection == [][LeavesIdle => Loads]_vars

(* No player process outlives the controller.                              *)
ShutdownSilences == At("exited") => ~child.alive

(* Once every request has been handled the process is paused exactly when  *)
(* a pause is requested, however pauses and resumes were coalesced with    *)
(* loads (one caller, socket up, no natural end: see the README).          *)
PauseAgrees == Quiescent /\ child.alive => (Audible <=> ~pauseRequested)

(* A track that resolves or buffers ends up in another status: no request  *)
(* is left without an answer, short of the controller's destruction.       *)
Settles == status \in {"Resolving", "Buffering"} ~> status \notin {"Resolving", "Buffering"} \/ shutting

(* Streams run out: broken streams are refreshed a bounded number of times *)
(* and a queue ends, so that without further requests nothing is heard.    *)
StreamsRunOut == <>[]~Audible

(* The destructor's Shutdown command ends the worker.                      *)
ShutdownEnds == shutting ~> At("exited")

(* The player implements the promise of PlaybackFocus: stale work may have *)
(* a process for a while, but sound never goes back to an older request    *)
(* and a process is only started for the request that was last taken up.   *)
Focus == INSTANCE PlaybackFocus WITH
  latest <- generation, owner <- active.gen, sounding <- child.alive

FocusSpec == Focus!Spec

-----------------------------------------------------------------------------
(* The inductive invariant behind HeardIsShown and FocusSpec.              *)

Pending == {c.cmd : c \in commands} \cup {hand[t] : t \in Callers}

Launching == {"adopt", "resolve", "resolving", "fetch", "buffering", "launch", "fork", "relaunch"}
Silent    == (Launching \ {"relaunch"}) \cup {"error", "exit", "exited"}
Sending   == {"output", "send", "relaunch"}
Adopted   == (Launching \ {"adopt"}) \cup {"exit", "verify"}

(* An empty snapshot is an idle one.                                       *)
IdleIsEmpty == status = "Idle" <=> ~HasCurrent

(* No process while the worker prepares the next one, and one that runs    *)
(* while an output change is sent.                                         *)
LaunchesInSilence ==
  /\ worker.pc \in Silent => ~child.alive
  /\ worker.pc \in Sending => child.alive

(* Generations are never from the future, and real ones are positive.      *)
GenerationsPast ==
  /\ worker.gen <= generation /\ active.gen <= generation /\ child.gen <= generation
  /\ \A cmd \in Pending : cmd.type = "Load" => cmd.gen \in 1..generation
  /\ worker.pc = "adopt" => worker.gen > 0

(* From adoption on the worker's locals are those of the active track.     *)
WorksForActive ==
  /\ worker.pc \in Adopted => worker.gen = active.gen /\ worker.track = active.track
  /\ child.alive \/ worker.pc \in Adopted => active.gen > 0

(* Whatever carries the newest generation carries the current track.       *)
NewestIsCurrent ==
  /\ \A cmd \in Pending : cmd.type = "Load" /\ cmd.gen = generation => cmd.track = CurrentTrack
  /\ worker.pc \in Launching /\ worker.gen = generation => worker.track = CurrentTrack
  /\ active.gen = generation => active.track = CurrentTrack
  /\ child.alive /\ child.gen = generation => child.track = CurrentTrack

(* Stale work always has its end already on the way: a StopProcess or a    *)
(* Load of the newest generation.                                          *)
StaleWork ==
  \/ child.alive /\ child.gen # generation
  \/ worker.pc \in Launching /\ worker.gen # generation
EndsStaleWork(cmd) == cmd.type = "StopProcess" \/ (cmd.type = "Load" /\ cmd.gen = generation)
StaleWorkEnds == ~shutting /\ StaleWork => \E cmd \in Pending : EndsStaleWork(cmd)

PlayerInv ==
  /\ IdleIsEmpty /\ LaunchesInSilence /\ GenerationsPast /\ WorksForActive
  /\ NewestIsCurrent /\ StaleWorkEnds

(* A process, and the worker on its way to one, is of the active track,    *)
(* whose stream is then known: ApplyOutput can relaunch what it finds.     *)
StreamIsKnown ==
  /\ child.alive => child.gen = active.gen /\ active.url
  /\ worker.pc \in {"buffering", "launch", "fork", "relaunch"} => active.url

(* A setting that the newest process, or the worker's copy for it, does    *)
(* not have is still on its way.                                           *)
OutputPending == \E cmd \in Pending : cmd.type = "ApplyOutput"
OutputFollows ==
  /\ child.alive /\ ~child.exited /\ child.gen = generation /\ child.output # output =>
       OutputPending \/ worker.pc \in Sending
  /\ worker.pc \in {"fork", "send"} /\ worker.output # output => OutputPending
OutputInv == StreamIsKnown /\ (shutting \/ OutputFollows)

(* Types and invariants together are inductive.                            *)
IndInv == TypeOK /\ PlayerInv /\ OutputInv

-----------------------------------------------------------------------------
(* The inductive invariant behind PauseAgrees.                             *)

(* What PauseAgrees supposes: calls come one after the other, the socket   *)
(* is up as soon as mpv runs and no stream ends by itself.                 *)
Undisturbed ==
  /\ \A t, u \in Callers : t = u
  /\ BootStates \subseteq {TRUE} /\ "natural" \notin Endings

(* Only a process that has exited is signalled instead of asked.           *)
SocketIsUp ==
  /\ child.alive /\ ~child.exited => child.ready /\ ~child.stopped /\ ~signalStopped
  /\ worker.pc = "sigstop" => child.exited

IsPause(cmd) == cmd.type \in {"Pause", "Resume"}
AsksForIt(cmd) == cmd.type = IF pauseRequested THEN "Pause" ELSE "Resume"
PauseIsHanded == \E t \in Callers : IsPause(hand[t])
PauseIsQueued == \E c \in commands : IsPause(c.cmd)

(* A pause that a later Load or stop outruns is harmless; those after it   *)
(* ask for what is requested.                                              *)
EndsAllBut(c) == EndsStaleWork(c.cmd)
                 /\ \A p \in commands : IsPause(p.cmd) /\ p.at >= c.at => AsksForIt(p.cmd)

(* The process, and the worker's copy on the way to one, are as requested. *)
PauseIsApplied ==
  /\ child.alive /\ ~child.exited => child.paused = pauseRequested
  /\ worker.pc \in {"buffering", "launch", "fork", "relaunch"} => worker.paused = pauseRequested

PauseFollows ==
  \/ \E t \in Callers : EndsStaleWork(hand[t])
  \/ PauseIsHanded /\ \A t \in Callers : IsPause(hand[t]) => AsksForIt(hand[t])
  \/ ~PauseIsHanded /\ \E c \in commands : EndsAllBut(c)
  \/ /\ ~PauseIsHanded /\ \A p \in commands : IsPause(p.cmd) => AsksForIt(p.cmd)
     /\ PauseIsQueued \/ PauseIsApplied

PauseInv ==
  /\ SocketIsUp
  /\ \A c \in commands : c.at <= arrivals
  /\ shutting \/ PauseFollows

(* The snapshot reports Playing only of a song that can be heard.          *)
PlayingIsHeard == Quiescent /\ status = "Playing" => Audible
=============================================================================
