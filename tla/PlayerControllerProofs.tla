----------------------- MODULE PlayerControllerProofs -----------------------
(***************************************************************************)
(* Proofs about PlayerController for every value of its constants: the     *)
(* type invariant, the inductive invariant PlayerInv, the safety           *)
(* properties that follow from it, and the refinement of PlaybackFocus.    *)
(***************************************************************************)
EXTENDS PlayerController, TLAPS

(* The empty queue of a fresh or stopped snapshot is a queue.              *)
LEMMA Empty == <<>> \in Seq(Tracks) /\ Len(<<>>) = 0
OBVIOUS

(* A song picked from a queue is a track, and the current track of a well- *)
(* typed snapshot is a track or none.                                      *)
LEMMA Playable ==
  ASSUME TypeOK
  PROVE  /\ HasCurrent => CurrentTrack \in Tracks
         /\ \A i \in 1..Len(queue) : queue[i] \in Tracks
         /\ index \in Nat /\ Len(queue) \in Nat
<1>1. queue \in Seq(Tracks) /\ index \in 0..Len(queue)
  BY DEF TypeOK, SnapshotType
<1>2. Len(queue) \in Nat /\ \A i \in 1..Len(queue) : queue[i] \in Tracks
  BY <1>1
<1> QED
  BY <1>1, <1>2 DEF HasCurrent, CurrentTrack

(* The commands that callers build have the type of commands.              *)
LEMMA CommandValues ==
  /\ \A type \in CommandTypes : Plain(type) \in Commands /\ Plain(type) # NoCommand
  /\ \A gen \in Nat, track \in Tracks : Load(gen, track) \in Commands /\ Load(gen, track) # NoCommand
BY DEF Plain, Load, Commands, CommandTypes, NoCommand

(* The records that the worker assigns have their types.                   *)
LEMMA WorkerValues ==
  /\ \A pc \in WorkerSteps, gen \in Nat, track \in Tracks \cup {NoTrack} : WorkOn(pc, gen, track) \in Workers
  /\ \A gen \in Nat, track \in Tracks \cup {NoTrack} : FreshActive(gen, track) \in Actives
  /\ IdleWorker \in Workers
  /\ NoChild \in Children
  /\ NoIntent \in Intents
<1> USE PlayerAssumption DEF PlayerAssumption
<1>1. \A pc \in WorkerSteps, gen \in Nat, track \in Tracks \cup {NoTrack} : WorkOn(pc, gen, track) \in Workers
  BY DEF WorkOn, Workers
<1>4. \A gen \in Nat, track \in Tracks \cup {NoTrack} : FreshActive(gen, track) \in Actives
  BY DEF FreshActive, Actives
<1>2. NoChild \in Children
  BY DEF NoChild, Children
<1>3. NoIntent \in Intents
  BY DEF NoIntent, Intents
<1> QED
  BY <1>1, <1>2, <1>3, <1>4 DEF IdleWorker, WorkerSteps

(* The state of a new controller is well-typed.                            *)
LEMMA InitType == Init => TypeOK
<1> SUFFICES ASSUME Init PROVE TypeOK
  OBVIOUS
<1> USE DEF Init
<1>1. active \in Actives
  BY WorkerValues
<1>2. queue \in Seq(Tracks) /\ index \in 0..Len(queue) /\ status \in Statuses
  BY Empty DEF Statuses
<1>3. intent \in [Callers -> Intents] /\ hand \in [Callers -> Commands \cup {NoCommand}]
  BY WorkerValues
<1>4. worker \in Workers /\ child \in Children /\ output \in Outputs
  BY WorkerValues, PlayerAssumption DEF PlayerAssumption
<1>5. requests \in 0..MaxRequests /\ generation \in Nat /\ arrivals \in Nat
  BY PlayerAssumption DEF PlayerAssumption
<1> QED
  BY <1>1, <1>2, <1>3, <1>4, <1>5 DEF TypeOK, SnapshotType, CallerType, WorkerType

(* The three parts of a caller's step.                                     *)
LEMMA CallType ==
  ASSUME TypeOK, NEW t \in Callers, NEW kind \in {"pause", "resume", "seek"}, Direct(t) \/ Called(t, kind)
  PROVE  requests' \in 0..MaxRequests /\ intent' \in [Callers -> Intents]
BY WorkerValues, PlayerAssumption
   DEF PlayerAssumption, TypeOK, CallerType, Called, Direct, Free

(* A caller may hold a command or none.                                    *)
LEMMA HandType ==
  ASSUME TypeOK, NEW t \in Callers, NEW cmd \in Commands, Hand(t, cmd)
  PROVE  hand' \in [Callers -> Commands \cup {NoCommand}]
BY DEF Hand, TypeOK, CallerType

(* Moving the worker's program counter keeps the worker well-typed.        *)
LEMMA GotoType ==
  ASSUME worker \in Workers, NEW pc \in WorkerSteps, Goto(pc)
  PROVE  worker' \in Workers
BY DEF Goto, Workers

LEMMA MoveType ==
  ASSUME worker \in Workers, NEW pc \in WorkerSteps, NEW paused \in BOOLEAN
  PROVE  [worker EXCEPT !.pc = pc, !.paused = paused] \in Workers
BY DEF Workers

(* Changing one flag or the volume of the process keeps it well-typed.     *)
LEMMA ChildValues ==
  ASSUME NEW c \in Children
  PROVE  /\ [c EXCEPT !.paused = TRUE] \in Children /\ [c EXCEPT !.paused = FALSE] \in Children
         /\ [c EXCEPT !.stopped = TRUE] \in Children /\ [c EXCEPT !.stopped = FALSE] \in Children
         /\ [c EXCEPT !.ready = TRUE] \in Children
         /\ [c EXCEPT !.exited = TRUE, !.ready = FALSE] \in Children
         /\ \A o \in Outputs : [c EXCEPT !.output = o] \in Children
BY DEF Children

(* Every step of the controller, its callers and mpv keeps the types.      *)
THEOREM TypePreserved == TypeOK /\ [Next]_vars => TypeOK'
<1> SUFFICES ASSUME TypeOK, [Next]_vars PROVE TypeOK'
  OBVIOUS
<1> USE CommandValues, WorkerValues
<1> USE DEF TypeOK
<1>1. ASSUME NEW t \in Callers, Enqueue(t) PROVE TypeOK'
  <2>1. Coalesced(hand[t]) \subseteq commands BY DEF Coalesced
  <2>2. hand[t] \in Commands BY <1>1 DEF Enqueue, CallerType
  <2>3. commands' \subseteq [cmd : Commands, at : Nat] /\ arrivals' \in Nat
    BY <1>1, <2>1, <2>2 DEF Enqueue, CallerType, queueVars
  <2>4. hand' \in [Callers -> Commands \cup {NoCommand}]
    BY <1>1 DEF Enqueue, CallerType
  <2> QED BY <1>1, <2>3, <2>4 DEF Enqueue, CallerType, SnapshotType, WorkerType, snapshotVars, childVars
<1>2. ASSUME NEW t \in Callers, NEW q \in Playlists, NEW start \in DOMAIN q, PlayQueue(t, q, start) PROVE TypeOK'
  <2> USE <1>2 DEF PlayQueue
  <2> q \in Seq(Tracks) /\ start \in 1..Len(q) /\ Len(q) \in Nat /\ q[start] \in Tracks BY PlayerAssumption DEF PlayerAssumption
  <2>0. queue' \in Seq(Tracks) /\ index' \in 0..Len(queue') OBVIOUS
  <2>b. pauseRequested' \in BOOLEAN /\ shutting' \in BOOLEAN BY Zenon DEF SnapshotType
  <2>1. SnapshotType' BY <2>0, <2>b DEF SnapshotType, Statuses
  <2>2. hand' \in [Callers -> Commands \cup {NoCommand}]
    BY <2>1, HandType DEF SnapshotType
  <2>3. CallerType' BY <2>2, CallType DEF CallerType, queueVars
  <2> QED BY <2>1, <2>3 DEF WorkerType, childVars
<1>3. ASSUME NEW t \in Callers, Stop(t) PROVE TypeOK'
  <2> USE <1>3 DEF Stop
  <2>0. queue' \in Seq(Tracks) /\ index' \in 0..Len(queue') BY Empty
  <2>b. pauseRequested' \in BOOLEAN /\ shutting' \in BOOLEAN BY Zenon DEF SnapshotType
  <2>1. SnapshotType' BY <2>0, <2>b DEF SnapshotType, Statuses
  <2>2. CallerType' BY CallType, HandType DEF CallerType, queueVars, CommandTypes
  <2> QED BY <2>1, <2>2 DEF WorkerType, childVars
<1>4. ASSUME NEW t \in Callers, Pause(t) PROVE TypeOK'
  <2> USE <1>4 DEF Pause
  <2>1. SnapshotType' BY DEF SnapshotType, Statuses
  <2>2. hand' \in [Callers -> Commands \cup {NoCommand}] BY HandType DEF CallerType, CommandTypes
  <2>3. CallerType' BY <2>2, CallType DEF CallerType, queueVars
  <2> QED BY <2>1, <2>3 DEF WorkerType, childVars
<1>5. ASSUME NEW t \in Callers, Resume(t) PROVE TypeOK'
  <2> USE <1>5 DEF Resume
  <2>0. queue' \in Seq(Tracks) /\ index' \in 0..Len(queue') BY DEF SnapshotType
  <2>b. pauseRequested' \in BOOLEAN /\ shutting' \in BOOLEAN BY Zenon DEF SnapshotType
  <2>1. SnapshotType' BY <2>0, <2>b DEF SnapshotType, Statuses
  <2>2. hand' \in [Callers -> Commands \cup {NoCommand}] BY <2>1, HandType, Playable DEF CallerType, SnapshotType, CommandTypes
  <2>3. CallerType' BY <2>2, CallType DEF CallerType, queueVars
  <2> QED BY <2>1, <2>3 DEF WorkerType, childVars
<1>6. ASSUME NEW t \in Callers, NextTrack(t) PROVE TypeOK'
  <2> USE <1>6 DEF NextTrack, SelectIndexLocked
  <2>0. queue' \in Seq(Tracks) /\ index' \in 0..Len(queue') BY DEF SnapshotType, HasCurrent
  <2>b. pauseRequested' \in BOOLEAN /\ shutting' \in BOOLEAN BY Zenon DEF SnapshotType
  <2>1. SnapshotType' BY <2>0, <2>b DEF SnapshotType, Statuses
  <2>2. HasCurrent /\ index < Len(queue) => queue[index + 1] \in Tracks BY Playable DEF HasCurrent
  <2>3. hand' \in [Callers -> Commands \cup {NoCommand}] BY <2>1, <2>2, HandType DEF CallerType, SnapshotType, CommandTypes
  <2>4. CallerType' BY <2>3, CallType DEF CallerType, queueVars
  <2> QED BY <2>1, <2>4 DEF WorkerType, childVars
<1>7. ASSUME NEW t \in Callers, SeekTo(t) PROVE TypeOK'
  <2> USE <1>7 DEF SeekTo
  <2>b. pauseRequested' \in BOOLEAN /\ shutting' \in BOOLEAN BY Zenon DEF SnapshotType
  <2>1. SnapshotType' BY <2>b DEF SnapshotType, Statuses, ResolvingOrPaused
  <2>2. hand' \in [Callers -> Commands \cup {NoCommand}] BY <2>1, HandType, Playable DEF CallerType, SnapshotType
  <2>3. CallerType' BY <2>2, CallType DEF CallerType, queueVars
  <2> QED BY <2>1, <2>3 DEF WorkerType, childVars
<1>8. ASSUME NEW t \in Callers, SelectIndex(t) PROVE TypeOK'
  <2> USE <1>8 DEF SelectIndex, SelectIndexLocked
  <2> DEFINE i == intent[t].index
  <2>i. i \in Nat \ {0} BY DEF CallerType, Intents
  <2>0. queue' \in Seq(Tracks) /\ index' \in 0..Len(queue') BY <2>i DEF SnapshotType
  <2>b. pauseRequested' \in BOOLEAN /\ shutting' \in BOOLEAN BY Zenon DEF SnapshotType
  <2>1. SnapshotType' BY <2>0, <2>b DEF SnapshotType, Statuses
  <2>2. i <= Len(queue) => queue[i] \in Tracks BY <2>i, Playable
  <2>3. hand' \in [Callers -> Commands \cup {NoCommand}]
    BY <2>i, <2>1, <2>2, HandType, Playable DEF CallerType, SnapshotType
  <2>4. CallerType' BY <2>3 DEF CallerType, queueVars
  <2> QED BY <2>1, <2>4 DEF WorkerType, childVars
<1>9. ASSUME NEW t \in Callers, NEW o \in Outputs, SetVolume(t, o) PROVE TypeOK'
  <2> USE <1>9 DEF SetVolume
  <2>1. SnapshotType' BY DEF SnapshotType
  <2>2. hand' \in [Callers -> Commands \cup {NoCommand}] BY HandType DEF CommandTypes
  <2>3. CallerType' BY <2>2, PlayerAssumption DEF PlayerAssumption, CallerType, queueVars, Free
  <2> QED BY <2>1, <2>3 DEF WorkerType, childVars
<1>10. ASSUME NEW t \in Callers, Toggle(t) \/ Previous(t) PROVE TypeOK'
  <2>1. ASSUME NEW kind, NEW i, [kind |-> kind, index |-> i] \in Intents, Decide(t, kind, i) PROVE TypeOK'
    <3> USE <2>1 DEF Decide
    <3>1. SnapshotType' BY DEF SnapshotType, snapshotVars
    <3>2. intent' \in [Callers -> Intents] BY DEF CallerType
    <3>3. CallerType' BY <3>2, PlayerAssumption DEF PlayerAssumption, CallerType, Free, queueVars
    <3> QED BY <3>1, <3>3 DEF WorkerType, childVars
  <2>2. Toggle(t) => \E kind \in {"pause", "resume"} : Decide(t, kind, 0)
    BY Zenon DEF Toggle
  <2>3. Previous(t) => Decide(t, "seek", 0) \/ (Decide(t, "select", index - 1) /\ index - 1 \in Nat \ {0})
    BY Playable DEF Previous
  <2>4. [kind |-> "pause", index |-> 0] \in Intents /\ [kind |-> "resume", index |-> 0] \in Intents
        /\ [kind |-> "seek", index |-> 0] \in Intents
    BY DEF Intents
  <2>5. \A i \in Nat \ {0} : [kind |-> "select", index |-> i] \in Intents
    BY DEF Intents
  <2> QED BY <1>10, <2>1, <2>2, <2>3, <2>4, <2>5
<1>11. CASE Shutdown
  <2>1. SnapshotType' BY <1>11 DEF Shutdown, SnapshotType, snapshotVars
  <2>2. CallerType' BY <1>11 DEF Shutdown, CallerType, callerVars, CommandTypes
  <2> QED BY <1>11, <2>1, <2>2 DEF Shutdown, WorkerType, childVars
<1>12. CASE WorkerPop
  <2> USE <1>12 DEF WorkerPop, CallerStateFrame, WorkerFrame
  <2>1. SnapshotType' BY DEF SnapshotType, snapshotVars
  <2>2. CallerType' BY DEF CallerType, callerVars
  <2>3. PICK c \in commands : HandleCommand(c.cmd) OBVIOUS
  <2>4. c.cmd \in Commands BY DEF CallerType
  <2>5. WorkerType'
    <3> USE <2>4 DEF WorkerType
    <3>1. CASE HandleLoad(c.cmd)
      <4>1. c.cmd.gen \in Nat /\ c.cmd.track \in Tracks \cup {NoTrack} BY DEF Commands
      <4>2. WorkOn("adopt", c.cmd.gen, c.cmd.track) \in Workers BY <4>1 DEF WorkerSteps
      <4> QED BY <3>1, <4>2, Zenon DEF HandleLoad, StopChild, Rest, childVars
    <3>2. CASE PauseChild
      <4>1. worker' \in Workers BY <3>2, GotoType DEF PauseChild, Rest, WorkerSteps
      <4>2. child' \in Children BY <3>2, ChildValues DEF PauseChild, childVars
      <4> QED BY <3>2, <4>1, <4>2, Zenon DEF PauseChild, childVars
    <3>3. CASE ResumeChild
      BY <3>3 DEF ResumeChild, Rest, childVars, Children
    <3>4. CASE StopChild /\ Rest /\ UNCHANGED active
      BY <3>4 DEF StopChild, Rest
    <3>5. CASE Goto(IF child.alive THEN "output" ELSE "idle") /\ UNCHANGED <<active, childVars>>
      BY <3>5 DEF Goto, childVars, Workers, WorkerSteps
    <3>6. CASE StopChild /\ Goto("exited") /\ UNCHANGED active
      BY <3>6 DEF StopChild, Goto, Workers, WorkerSteps
    <3> QED BY <2>3, <3>1, <3>2, <3>3, <3>4, <3>5, <3>6 DEF HandleCommand
  <2> QED BY <2>1, <2>2, <2>5
<1>13. CASE Adopt
  <2> USE <1>13 DEF Adopt, CallerStateFrame, WorkerFrame
  <2>1. SnapshotType' BY DEF SnapshotType, snapshotVars
  <2>2. CallerType' BY DEF CallerType, callerVars, queueVars
  <2>a. worker.gen \in Nat /\ worker.track \in Tracks \cup {NoTrack} BY DEF WorkerType, Workers
  <2>3. active' \in Actives BY <2>a DEF WorkerType
  <2>4. worker' \in Workers BY GotoType DEF WorkerType, Rest, WorkerSteps
  <2> QED BY <2>1, <2>2, <2>3, <2>4 DEF WorkerType, childVars
<1>14. CASE Resolve \/ LaunchReadsOutput \/ OutputRead
  <2> USE <1>14 DEF Resolve, LaunchReadsOutput, OutputRead, CallerStateFrame, WorkerFrame
  <2>1. SnapshotType' BY DEF SnapshotType, snapshotVars
  <2>2. CallerType' BY DEF CallerType, callerVars, queueVars
  <2>3. CASE Resolve
    <3>1. worker' \in Workers BY <2>3, GotoType DEF WorkerType, Rest, WorkerSteps
    <3> QED BY <2>1, <2>2, <2>3, <3>1 DEF WorkerType, childVars
  <2>4. CASE LaunchReadsOutput \/ OutputRead
    <3>1. CASE LaunchReadsOutput
      BY <2>1, <2>2, <3>1 DEF WorkerType, Workers, WorkerSteps, SnapshotType, childVars
    <3>2. CASE OutputRead
      BY <2>1, <2>2, <3>2 DEF WorkerType, Workers, WorkerSteps, SnapshotType, childVars
    <3> QED BY <2>4, <3>1, <3>2
  <2> QED BY <2>3, <2>4, <1>14
<1>15. ASSUME NEW st \in Statuses, NEW pc \in WorkerSteps, Publish(st), Goto(pc) \/ Rest,
              UNCHANGED <<pauseRequested, generation, queueVars, active>>, WorkerFrame,
              UNCHANGED childVars \/ StopChild
       PROVE  TypeOK'
  <2>1. SnapshotType' BY <1>15 DEF Publish, SnapshotType, WorkerFrame
  <2>2. CallerType' BY <1>15 DEF CallerType, callerVars, queueVars, WorkerFrame
  <2>3. worker' \in Workers BY <1>15, GotoType DEF WorkerType, Rest
  <2> QED BY <1>15, <2>1, <2>2, <2>3 DEF WorkerType, childVars, StopChild
<1>16. CASE PublishResolving \/ PublishBuffering \/ PublishLaunched \/ PublishError \/ Relaunch
  <2> "fetch" \in WorkerSteps /\ "launch" \in WorkerSteps /\ "Resolving" \in Statuses /\ "Buffering" \in Statuses
      /\ "Playing" \in Statuses /\ "Paused" \in Statuses /\ "Error" \in Statuses
    BY DEF WorkerSteps, Statuses
  <2>1. CASE PublishResolving BY <2>1, <1>15 DEF PublishResolving
  <2>2. CASE PublishBuffering BY <2>2, <1>15 DEF PublishBuffering
  <2>3. CASE PublishLaunched BY <2>3, <1>15 DEF PublishLaunched
  <2>4. CASE PublishError BY <2>4, <1>15 DEF PublishError
  <2>5. CASE Relaunch BY <2>5, <1>15 DEF Relaunch
  <2> QED BY <1>16, <2>1, <2>2, <2>3, <2>4, <2>5
<1>17. CASE Fetched
  <2> USE <1>17 DEF Fetched, CallerStateFrame, WorkerFrame
  <2>1. SnapshotType' BY DEF SnapshotType, snapshotVars
  <2>2. CallerType' BY DEF CallerType, callerVars, queueVars
  <2>3. active' \in Actives BY DEF WorkerType, Actives, Workers
  <2>4. worker' \in Workers
    <3>1. CASE Rest \/ Goto("error") BY <3>1, GotoType DEF Rest, WorkerType, WorkerSteps
    <3>2. CASE worker' = [worker EXCEPT !.pc = IF pauseRequested THEN "launch" ELSE "buffering",
                                        !.paused = pauseRequested]
      <4>1. pauseRequested \in BOOLEAN BY DEF TypeOK, SnapshotType
      <4>2. (IF pauseRequested THEN "launch" ELSE "buffering") \in WorkerSteps BY DEF WorkerSteps
      <4>3. worker \in Workers BY DEF TypeOK, WorkerType
      <4> QED BY <3>2, <4>1, <4>2, <4>3, MoveType, Zenon
    <3> QED BY <3>1, <3>2, Zenon
  <2> QED BY <2>1, <2>2, <2>3, <2>4 DEF WorkerType, childVars
<1>18. CASE LaunchChild
  <2> USE <1>18 DEF LaunchChild, CallerStateFrame, WorkerFrame
  <2>1. SnapshotType' BY DEF SnapshotType, snapshotVars
  <2>2. CallerType' BY DEF CallerType, callerVars, queueVars
  <2>3. worker' \in Workers BY GotoType DEF WorkerType, WorkerSteps
  <2>4. child' \in Children
    <3>1. ASSUME NEW up \in BootStates,
                 child' = [alive |-> TRUE, exited |-> FALSE, gen |-> worker.gen, track |-> worker.track,
                           output |-> worker.output, paused |-> worker.paused, stopped |-> FALSE, ready |-> up]
          PROVE  child' \in Children
      <4>1. up \in BOOLEAN BY PlayerAssumption DEF PlayerAssumption
      <4>2. worker.gen \in Nat /\ worker.track \in Tracks \cup {NoTrack} /\ worker.output \in Outputs
            /\ worker.paused \in BOOLEAN
        BY DEF WorkerType, Workers
      <4> QED BY <3>1, <4>1, <4>2, Zenon DEF Children
    <3> QED BY <3>1, Zenon DEF WorkerType, childVars
  <2>5. signalStopped' \in BOOLEAN BY Zenon DEF WorkerType, childVars
  <2> QED BY <2>1, <2>2, <2>3, <2>4, <2>5 DEF WorkerType
<1>19. CASE VerifyLaunch \/ SignalStop \/ PollChild
  <2> USE <1>19 DEF VerifyLaunch, SignalStop, PollChild, CallerStateFrame, WorkerFrame
  <2>1. SnapshotType' BY DEF SnapshotType, snapshotVars
  <2>2. CallerType' BY DEF CallerType, callerVars, queueVars
  <2>3. worker' \in Workers
    <3>1. active.gen \in Nat /\ active.track \in Tracks \cup {NoTrack} BY DEF WorkerType, Actives
    <3>2. "launched" \in WorkerSteps /\ "exit" \in WorkerSteps BY DEF WorkerSteps
    <3> QED BY <3>1, <3>2, GotoType DEF Rest, WorkerType
  <2>4. child' \in Children /\ signalStopped' \in BOOLEAN
    BY ChildValues, Zenon DEF WorkerType, StopChild, childVars
  <2>5. active' = active BY Zenon
  <2> QED BY <2>1, <2>2, <2>3, <2>4, <2>5 DEF WorkerType
<1>20. CASE OutputSend
  <2> USE <1>20 DEF OutputSend, CallerStateFrame, WorkerFrame
  <2>1. SnapshotType' BY DEF SnapshotType, snapshotVars
  <2>2. CallerType' BY DEF CallerType, callerVars, queueVars
  <2>3. worker' \in Workers
    <3>1. ASSUME worker' = [worker EXCEPT !.pc = "relaunch", !.relaunch = TRUE, !.gen = active.gen,
                                          !.track = active.track, !.paused = pauseRequested]
          PROVE  worker' \in Workers
      <4>1. active.gen \in Nat /\ active.track \in Tracks \cup {NoTrack} BY DEF WorkerType, Actives
      <4>2. pauseRequested \in BOOLEAN BY DEF SnapshotType
      <4>3. worker \in Workers BY DEF WorkerType
      <4> QED BY <3>1, <4>1, <4>2, <4>3 DEF Workers, WorkerSteps
    <3> QED BY <3>1, Zenon DEF Rest, WorkerType
  <2>4. child' \in Children
    <3>1. worker.output \in Outputs BY DEF WorkerType, Workers
    <3> QED BY <3>1, ChildValues, Zenon DEF WorkerType
  <2> QED BY <2>1, <2>2, <2>3, <2>4 DEF WorkerType
<1>21. CASE HandleChildExit
  <2> USE <1>21 DEF HandleChildExit, WorkerFrame
  <2>1. CallerType' BY DEF CallerType, callerVars, queueVars
  <2>2. child' \in Children /\ signalStopped' \in BOOLEAN BY DEF WorkerType, childVars
  <2>3. CASE CallerStateFrame /\ (UNCHANGED active \/ active' = [active EXCEPT !.refreshes = 1])
             /\ (Rest \/ Goto("resolve") \/ Goto("error"))
    <3>1. SnapshotType' BY <2>3 DEF CallerStateFrame, SnapshotType, snapshotVars
    <3>2. active' \in Actives BY <2>3 DEF WorkerType, Actives
    <3>3. worker' \in Workers BY <2>3, GotoType DEF Rest, WorkerType, WorkerSteps
    <3> QED BY <2>1, <2>2, <3>1, <3>2, <3>3 DEF WorkerType
  <2>4. CASE AdvanceAfterNaturalEnd
    <3> USE <2>4 DEF AdvanceAfterNaturalEnd
    <3>1. HasCurrent /\ index < Len(queue) => queue[index + 1] \in Tracks BY Playable DEF HasCurrent
    <3>2. queue' \in Seq(Tracks) /\ index' \in 0..Len(queue') /\ generation' \in Nat
      BY DEF SelectIndexLocked, SnapshotType, HasCurrent
    <3>3. pauseRequested' \in BOOLEAN /\ shutting' \in BOOLEAN BY Zenon DEF SnapshotType
    <3>4. SnapshotType' BY <3>2, <3>3 DEF SnapshotType, SelectIndexLocked, Statuses
    <3>5. active' \in Actives BY <3>1, <3>2 DEF WorkerType
    <3>6. worker' \in Workers
      <4>1. CASE HasCurrent /\ index < Len(queue)
        <5>1. worker' = [worker EXCEPT !.pc = "resolve", !.gen = generation', !.track = queue[index + 1]]
          BY <4>1
        <5> QED BY <3>1, <3>2, <4>1, <5>1 DEF WorkerType, Workers, WorkerSteps
      <4>2. CASE ~(HasCurrent /\ index < Len(queue)) BY <4>2 DEF Rest, WorkerType
      <4> QED BY <4>1, <4>2
    <3> QED BY <2>1, <2>2, <3>4, <3>5, <3>6 DEF WorkerType
  <2> QED BY <2>3, <2>4, Zenon
<1>22. CASE ChildReady \/ ChildExits
  <2> USE <1>22 DEF ChildReady, ChildExits, Mpv
  <2>1. SnapshotType' BY DEF SnapshotType, snapshotVars
  <2>2. CallerType' BY DEF CallerType, callerVars, queueVars
  <2>3. child' \in Children BY ChildValues, Zenon DEF WorkerType
  <2> QED BY <2>1, <2>2, <2>3 DEF WorkerType
<1>23. CASE UNCHANGED vars
  BY <1>23 DEF vars, SnapshotType, CallerType, WorkerType, snapshotVars, callerVars, queueVars, childVars
<1> QED
  BY <1>1, <1>2, <1>3, <1>4, <1>5, <1>6, <1>7, <1>8, <1>9, <1>10, <1>11, <1>12, <1>13, <1>14, <1>16, <1>17,
     <1>18, <1>19, <1>20, <1>21, <1>22, <1>23, Zenon
  DEF Next, CallerStep, Public, Worker

(* The variables keep their types, whatever the constants.                 *)
THEOREM TypeSafety == Spec => []TypeOK
BY InitType, TypePreserved, PTL DEF Spec

-----------------------------------------------------------------------------
(* PlayerInv is inductive.  Every step is of one of five kinds: a caller   *)
(* makes a new request; nothing relevant happens; the controller shuts     *)
(* down; the worker goes on with, or gives up, what it is doing; the       *)
(* worker turns to something else.                                         *)

(* The absence of a command is none of the commands a caller may hold.     *)
LEMMA NoLoad ==
  /\ NoCommand.type # "Load" /\ ~EndsStaleWork(NoCommand)
  /\ \A type \in CommandTypes : Plain(type).type = type
  /\ \A gen, track : /\ Load(gen, track).type = "Load" /\ Load(gen, track).gen = gen
                     /\ Load(gen, track).track = track
BY DEF NoCommand, EndsStaleWork, Plain, Load

(* Every pending command has the type of commands.                         *)
LEMMA PendingFields ==
  ASSUME TypeOK, NEW cmd \in Pending, cmd.type = "Load" PROVE cmd.gen \in Nat
BY NoLoad DEF TypeOK, CallerType, Pending, Commands

(* The fields of the worker, the active track and the process that the     *)
(* invariant compares.                                                     *)
LEMMA Fields ==
  ASSUME WorkerType
  PROVE  /\ worker.gen \in Nat /\ worker.pc \in WorkerSteps
         /\ active.gen \in Nat
         /\ child.gen \in Nat /\ child.alive \in BOOLEAN
BY DEF WorkerType, Workers, Actives, Children

(* A caller makes a new request: the command it holds ends all other work. *)
LEMMA NewRequest ==
  ASSUME TypeOK, PlayerInv, NEW t \in Callers, NEW cmd, Hand(t, cmd),
         generation' = generation + 1, UNCHANGED <<commands, worker, active, child>>,
         cmd.type = "StopProcess" \/ cmd = Load(generation', CurrentTrack'),
         IdleIsEmpty'
  PROVE  PlayerInv'
<1>0. generation \in Nat /\ hand \in [Callers -> Commands \cup {NoCommand}]
  BY DEF TypeOK, SnapshotType, CallerType
<1>1. \A p \in Pending' : p \in Pending \/ p = cmd
  BY <1>0 DEF Pending, Hand
<1>2. cmd \in Pending'
  BY <1>0 DEF Pending, Hand
<1>3. cmd.type = "Load" => cmd.gen = generation' /\ cmd.track = CurrentTrack'
  BY NoLoad
<1>4. GenerationsPast'
  BY <1>0, <1>1, <1>3, Fields DEF PlayerInv, GenerationsPast, TypeOK
<1>5. LaunchesInSilence' /\ WorksForActive'
  BY DEF PlayerInv, LaunchesInSilence, WorksForActive
<1>6. NewestIsCurrent'
  BY <1>0, <1>1, <1>3, Fields DEF PlayerInv, GenerationsPast, NewestIsCurrent, TypeOK
<1>7. EndsStaleWork(cmd)'
  BY NoLoad DEF EndsStaleWork
<1>8. StaleWorkEnds'
  BY <1>2, <1>7 DEF StaleWorkEnds
<1> QED BY <1>4, <1>5, <1>6, <1>8 DEF PlayerInv

(* A step that leaves the player alone and neither adds a Load nor removes *)
(* a command that ends stale work.                                         *)
LEMMA NothingRelevant ==
  ASSUME TypeOK, PlayerInv,
         UNCHANGED <<generation, shutting>>, CurrentTrack' = CurrentTrack, IdleIsEmpty',
         UNCHANGED <<worker, active>>,
         child'.alive = child.alive /\ child'.gen = child.gen /\ child'.track = child.track,
         \A cmd \in Pending' : cmd \in Pending \/ cmd.type # "Load",
         \A cmd \in Pending : EndsStaleWork(cmd) => cmd \in Pending'
  PROVE  PlayerInv'
<1>1. GenerationsPast'
  BY DEF PlayerInv, GenerationsPast
<1>2. LaunchesInSilence' /\ WorksForActive'
  BY DEF PlayerInv, LaunchesInSilence, WorksForActive
<1>3. NewestIsCurrent'
  BY DEF PlayerInv, NewestIsCurrent
<1>4. StaleWork' <=> StaleWork
  BY DEF StaleWork
<1>5. \A cmd : EndsStaleWork(cmd)' <=> EndsStaleWork(cmd)
  BY DEF EndsStaleWork
<1>6. StaleWorkEnds'
  BY <1>4, <1>5 DEF PlayerInv, StaleWorkEnds
<1> QED BY <1>1, <1>2, <1>3, <1>6 DEF PlayerInv

(* Moving a command from a caller's hand to the queue may only drop        *)
(* commands that do not end stale work.                                    *)
LEMMA Enqueued ==
  ASSUME TypeOK, PlayerInv, NEW t \in Callers, Enqueue(t) PROVE PlayerInv'
<1> USE DEF Enqueue
<1>1. CASE shutting /\ UNCHANGED queueVars
  <2>1. \A cmd \in Pending' : cmd \in Pending \/ cmd.type # "Load"
    BY <1>1, NoLoad DEF Pending, queueVars, TypeOK, CallerType
  <2>2. GenerationsPast'
    BY <2>1 DEF PlayerInv, GenerationsPast, childVars
  <2>3. LaunchesInSilence' /\ WorksForActive' /\ IdleIsEmpty'
    BY DEF PlayerInv, LaunchesInSilence, WorksForActive, IdleIsEmpty, HasCurrent, snapshotVars, childVars
  <2>4. NewestIsCurrent'
    BY <2>1 DEF PlayerInv, NewestIsCurrent, CurrentTrack, HasCurrent, snapshotVars, childVars
  <2>5. StaleWorkEnds'
    BY <1>1 DEF StaleWorkEnds
  <2> QED BY <2>2, <2>3, <2>4, <2>5 DEF PlayerInv
<1>2. CASE commands' = Coalesced(hand[t]) \cup {[cmd |-> hand[t], at |-> arrivals']}
  <2>1. hand[t] \in Pending /\ hand' = [hand EXCEPT ![t] = NoCommand] /\ hand \in [Callers -> Commands \cup {NoCommand}]
    BY DEF Pending, TypeOK, CallerType
  <2>2. \A cmd \in Pending' : cmd \in Pending \/ cmd.type # "Load"
    BY <1>2, <2>1, NoLoad DEF Pending, Coalesced
  <2>3. ASSUME NEW cmd \in Pending, EndsStaleWork(cmd) PROVE cmd \in Pending'
    <3>1. cmd.type \notin {"ApplyOutput", "Pause", "Resume"}
      BY <2>3 DEF EndsStaleWork
    <3>2. ASSUME NEW c \in commands, c.cmd = cmd PROVE cmd \in Pending'
      BY <1>2, <3>1, <3>2 DEF Coalesced, Replaces, Pending
    <3>3. CASE cmd = hand[t]
      <4>1. [cmd |-> hand[t], at |-> arrivals'] \in commands' BY <1>2
      <4> QED BY <3>3, <4>1 DEF Pending
    <3>4. ASSUME NEW u \in Callers, u # t, hand[u] = cmd PROVE cmd \in Pending'
      BY <2>1, <3>4 DEF Pending
    <3> QED BY <3>2, <3>3, <3>4 DEF Pending
  <2> QED BY <2>2, <2>3, NothingRelevant
          DEF PlayerInv, IdleIsEmpty, CurrentTrack, HasCurrent, snapshotVars, childVars
<1> QED BY <1>1, <1>2

(* A command that is not a Load is prepared.                               *)
LEMMA OtherRequest ==
  ASSUME TypeOK, PlayerInv, NEW t \in Callers, hand[t] = NoCommand,
         \/ UNCHANGED hand
         \/ \E cmd : cmd.type # "Load" /\ Hand(t, cmd),
         UNCHANGED <<queue, index, generation, shutting, commands, worker, active, child>>, IdleIsEmpty'
  PROVE  PlayerInv'
<1>1. \A p \in Pending' : p \in Pending \/ p.type # "Load"
  BY DEF Pending, Hand, TypeOK, CallerType
<1>2. \A p \in Pending : EndsStaleWork(p) => p \in Pending'
  BY NoLoad DEF Pending, Hand, TypeOK, CallerType
<1> QED BY <1>1, <1>2, NothingRelevant DEF CurrentTrack, HasCurrent

(* The destructor makes all work stale, and nothing is promised about      *)
(* stale work from then on.                                                *)
LEMMA ShutsDown ==
  ASSUME TypeOK, PlayerInv, Shutdown PROVE PlayerInv'
<1> USE DEF Shutdown
<1>0. generation \in Nat
  BY DEF TypeOK, SnapshotType
<1>1. \A cmd \in Pending' : cmd \in Pending \/ cmd.type # "Load"
  BY NoLoad DEF Pending, callerVars, CommandTypes
<1>2. GenerationsPast'
  BY <1>0, <1>1, Fields DEF TypeOK, PlayerInv, GenerationsPast, childVars
<1>3. LaunchesInSilence' /\ WorksForActive' /\ IdleIsEmpty'
  BY DEF PlayerInv, LaunchesInSilence, WorksForActive, IdleIsEmpty, HasCurrent, snapshotVars, childVars
<1>4. NewestIsCurrent'
  BY <1>0, <1>1, Fields DEF TypeOK, PlayerInv, GenerationsPast, NewestIsCurrent, childVars
<1>5. StaleWorkEnds'
  BY DEF StaleWorkEnds
<1> QED BY <1>2, <1>3, <1>4, <1>5 DEF PlayerInv

(* The worker changes what it does without adopting another track.         *)
LEMMA WorkerTurns ==
  ASSUME TypeOK, PlayerInv,
         UNCHANGED <<queue, index, generation, shutting>>, IdleIsEmpty',
         active'.gen = active.gen /\ active'.track = active.track,
         \/ child'.alive = child.alive /\ child'.gen = child.gen /\ child'.track = child.track
         \/ ~child'.alive /\ child'.gen = 0,
         \A cmd \in Pending' : cmd \in Pending,
         ~shutting /\ StaleWork' => /\ StaleWork
                                    /\ \A cmd \in Pending : EndsStaleWork(cmd) => cmd \in Pending',
         worker'.gen <= generation, worker'.pc = "adopt" => worker'.gen > 0,
         worker'.pc \in Silent => ~child'.alive,
         worker'.pc \in Sending => child'.alive,
         worker'.pc \in Adopted => worker'.gen = active.gen /\ worker'.track = active.track /\ active.gen > 0,
         worker'.pc \in Launching /\ worker'.gen = generation => worker'.track = CurrentTrack
  PROVE  PlayerInv'
<1>0. generation \in Nat /\ CurrentTrack' = CurrentTrack
  BY DEF TypeOK, SnapshotType, CurrentTrack, HasCurrent
<1>1. GenerationsPast'
  BY <1>0 DEF PlayerInv, GenerationsPast
<1>2. LaunchesInSilence'
  BY DEF LaunchesInSilence
<1>3. WorksForActive'
  BY DEF PlayerInv, WorksForActive
<1>4. NewestIsCurrent'
  BY <1>0 DEF PlayerInv, NewestIsCurrent
<1>5. \A cmd : EndsStaleWork(cmd)' <=> EndsStaleWork(cmd)
  BY DEF EndsStaleWork
<1>6. StaleWorkEnds'
  BY <1>5 DEF PlayerInv, StaleWorkEnds
<1> QED BY <1>1, <1>2, <1>3, <1>4, <1>6 DEF PlayerInv

(* The worker goes on to its next step for the same generation, or gives   *)
(* up.  A process may have been stopped.                                   *)
LEMMA GoesOn ==
  ASSUME TypeOK, PlayerInv,
         UNCHANGED <<queue, index, generation, shutting, commands, hand>>, IdleIsEmpty',
         active'.gen = active.gen /\ active'.track = active.track,
         \/ child'.alive = child.alive /\ child'.gen = child.gen /\ child'.track = child.track
         \/ ~child'.alive /\ child'.gen = 0,
         \/ worker' = IdleWorker
         \/ /\ worker'.gen = worker.gen /\ worker'.track = worker.track /\ worker'.pc # "adopt"
            /\ worker'.pc \in Launching => \/ worker.pc \in Launching
                                           \/ worker.gen = generation /\ worker.track = CurrentTrack
            /\ worker'.pc \in Silent => worker.pc \in Silent \/ ~child'.alive
            /\ worker'.pc \in Adopted => worker.pc \in Adopted
            /\ worker'.pc \in Sending => worker.pc \in Sending /\ child'.alive = child.alive
  PROVE  PlayerInv'
<1>0. generation \in Nat /\ CurrentTrack' = CurrentTrack
  BY DEF TypeOK, SnapshotType, CurrentTrack, HasCurrent
<1>1. Pending' = Pending
  BY DEF Pending
<1>2. CASE worker' = IdleWorker
  <2>1. worker'.gen = 0 /\ worker'.pc = "idle"
    BY <1>2 DEF IdleWorker, WorkOn
  <2>2. StaleWork' => StaleWork
    BY <2>1 DEF StaleWork, Launching
  <2>3. worker'.pc \notin Silent /\ worker'.pc \notin Adopted /\ worker'.pc \notin Launching /\ worker'.pc # "adopt"
        /\ worker'.pc \notin Sending
    BY <2>1 DEF Silent, Adopted, Launching, Sending
  <2>4. worker'.gen <= generation
    BY <1>0, <2>1
  <2> QED BY <1>1, <2>2, <2>3, <2>4, WorkerTurns
<1>3. CASE worker' # IdleWorker
  <2>1. StaleWork' => StaleWork
    BY <1>3 DEF StaleWork
  <2>2. /\ worker'.pc \in Silent => ~child'.alive
        /\ worker'.pc \in Sending => child'.alive
    BY <1>3 DEF PlayerInv, LaunchesInSilence
  <2>3. worker'.pc \in Adopted => worker'.gen = active.gen /\ worker'.track = active.track /\ active.gen > 0
    BY <1>3 DEF PlayerInv, WorksForActive
  <2>4. worker'.pc \in Launching /\ worker'.gen = generation => worker'.track = CurrentTrack
    BY <1>3 DEF PlayerInv, NewestIsCurrent
  <2>5. worker'.gen <= generation /\ worker'.pc # "adopt"
    BY <1>3 DEF PlayerInv, GenerationsPast
  <2> QED BY <1>1, <2>1, <2>2, <2>3, <2>4, <2>5, WorkerTurns
<1> QED BY <1>2, <1>3

(* Moving the program counter leaves the worker's generation and track.    *)
LEMMA GotoFields ==
  ASSUME WorkerType, NEW pc, Goto(pc)
  PROVE  worker'.pc = pc /\ worker'.gen = worker.gen /\ worker'.track = worker.track
BY DEF Goto, WorkerType, Workers

(* After StopChild there is no process and no generation of one.           *)
LEMMA StoppedChild == StopChild => child'.alive = FALSE /\ ~child'.alive /\ child'.gen = 0
BY DEF StopChild, NoChild

(* What Publish may do to the status.                                      *)
LEMMA Published ==
  ASSUME TypeOK, PlayerInv, NEW st \in Statuses \ {"Idle"}, Publish(st)
  PROVE  IdleIsEmpty' /\ queue' = queue /\ index' = index
BY DEF Publish, PlayerInv, IdleIsEmpty, HasCurrent

(* Every step of a caller thread preserves the invariant.                  *)
LEMMA CallerStepInv ==
  ASSUME TypeOK, PlayerInv, NEW t \in Callers, CallerStep(t) PROVE PlayerInv'
<1> USE DEF PlayerInv, IdleIsEmpty
<1>0. index \in Nat /\ Len(queue) \in Nat /\ queue \in Seq(Tracks) /\ generation \in Nat
  BY Playable DEF TypeOK, SnapshotType
<1>1. ASSUME Enqueue(t) PROVE PlayerInv'
  BY <1>1, Enqueued
<1>2. ASSUME NEW q \in Playlists, NEW start \in DOMAIN q, PlayQueue(t, q, start) PROVE PlayerInv'
  <2>1. start \in Nat \ {0} BY PlayerAssumption DEF PlayerAssumption
  <2>2. IdleIsEmpty' BY <1>2, <2>1 DEF PlayQueue, HasCurrent
  <2>3. q[start] = CurrentTrack' BY <1>2, <2>1 DEF PlayQueue, CurrentTrack, HasCurrent
  <2> QED BY <1>2, <2>2, <2>3, NewRequest DEF PlayQueue, queueVars, childVars
<1>3. CASE Stop(t)
  <2>1. IdleIsEmpty' BY <1>3 DEF Stop, HasCurrent
  <2>2. Plain("StopProcess").type = "StopProcess" BY NoLoad DEF CommandTypes
  <2> QED BY <1>3, <2>1, <2>2, NewRequest DEF Stop, queueVars, childVars
<1>4. CASE Pause(t)
  <2>1. IdleIsEmpty' BY <1>4 DEF Pause, HasCurrent
  <2>2. hand[t] = NoCommand BY <1>4 DEF Pause, Called, Direct, Free
  <2>3. Plain("Pause").type # "Load" BY NoLoad DEF CommandTypes
  <2>4. UNCHANGED hand \/ \E cmd : cmd.type # "Load" /\ Hand(t, cmd) BY <1>4, <2>3, Zenon DEF Pause
  <2> QED BY <1>4, <2>1, <2>2, <2>4, OtherRequest DEF Pause, queueVars, childVars
<1>5. CASE Resume(t)
  <2>1. IdleIsEmpty' BY <1>5 DEF Resume, HasCurrent
  <2>2. CASE generation' = generation + 1 /\ Hand(t, Load(generation', CurrentTrack))
    <3>1. CurrentTrack' = CurrentTrack BY <1>5 DEF Resume, CurrentTrack, HasCurrent
    <3> QED BY <1>5, <2>1, <2>2, <3>1, NewRequest DEF Resume, queueVars, childVars
  <2>3. CASE UNCHANGED generation /\ (UNCHANGED hand \/ Hand(t, Plain("Resume")))
    <3>1. hand[t] = NoCommand BY <1>5 DEF Resume, Called, Direct, Free
    <3>2. Plain("Resume").type # "Load" BY NoLoad DEF CommandTypes
    <3>3. UNCHANGED hand \/ \E cmd : cmd.type # "Load" /\ Hand(t, cmd) BY <2>3, <3>2, Zenon
    <3> QED BY <1>5, <2>1, <2>3, <3>1, <3>3, OtherRequest DEF Resume, queueVars, childVars
  <2> QED BY <1>5, <2>2, <2>3, Zenon DEF Resume
<1>6. CASE NextTrack(t)
  <2> USE <1>6 DEF NextTrack, SelectIndexLocked
  <2>1. IdleIsEmpty' BY <1>0 DEF HasCurrent
  <2>2. CASE ~HasCurrent
    <3>1. hand[t] = NoCommand BY DEF Direct, Free
    <3> QED BY <2>1, <2>2, <3>1, OtherRequest DEF queueVars, childVars
  <2>3. CASE HasCurrent /\ index < Len(queue)
    <3>1. queue[index + 1] = CurrentTrack' BY <1>0, <2>3 DEF CurrentTrack, HasCurrent
    <3> QED BY <2>1, <2>3, <3>1, NewRequest DEF queueVars, childVars
  <2>4. CASE HasCurrent /\ index = Len(queue)
    <3>1. Plain("StopProcess").type = "StopProcess" BY NoLoad DEF CommandTypes
    <3> QED BY <1>0, <2>1, <2>4, <3>1, NewRequest DEF queueVars, childVars
  <2> QED BY <2>2, <2>3, <2>4
<1>7. CASE SeekTo(t)
  <2> USE <1>7 DEF SeekTo
  <2>1. IdleIsEmpty' BY DEF HasCurrent, ResolvingOrPaused
  <2>2. CASE ~HasCurrent
    <3>1. hand[t] = NoCommand BY DEF Called, Direct, Free
    <3> QED BY <2>1, <2>2, <3>1, OtherRequest DEF queueVars, childVars
  <2>3. CASE HasCurrent
    <3>1. CurrentTrack' = CurrentTrack BY DEF CurrentTrack, HasCurrent
    <3> QED BY <2>1, <2>3, <3>1, NewRequest DEF queueVars, childVars
  <2> QED BY <2>2, <2>3
<1>8. CASE SelectIndex(t)
  <2> USE <1>8 DEF SelectIndex, SelectIndexLocked
  <2> DEFINE i == intent[t].index
  <2>1. i \in Nat \ {0} BY DEF TypeOK, CallerType, Intents
  <2>2. IdleIsEmpty' BY <1>0, <2>1 DEF HasCurrent
  <2>3. CASE i > Len(queue)
    BY <2>2, <2>3, OtherRequest DEF queueVars, childVars
  <2>4. CASE ~(i > Len(queue))
    <3>1. queue[i] = CurrentTrack' BY <2>1, <2>4 DEF CurrentTrack, HasCurrent
    <3> QED BY <2>2, <2>4, <3>1, NewRequest DEF queueVars, childVars
  <2> QED BY <2>3, <2>4
<1>9. ASSUME NEW o \in Outputs, SetVolume(t, o) PROVE PlayerInv'
  <2>1. IdleIsEmpty' BY <1>9 DEF SetVolume, HasCurrent
  <2>2. Plain("ApplyOutput").type # "Load" BY NoLoad DEF CommandTypes
  <2> QED BY <1>9, <2>1, <2>2, OtherRequest DEF SetVolume, Free, queueVars, childVars
<1>10. CASE Toggle(t) \/ Previous(t)
  <2>1. \E kind, i : Decide(t, kind, i) BY <1>10, Zenon DEF Toggle, Previous
  <2> QED BY <2>1, OtherRequest DEF Decide, Free, HasCurrent, snapshotVars, queueVars, childVars
<1> QED BY <1>1, <1>2, <1>3, <1>4, <1>5, <1>6, <1>7, <1>8, <1>9, <1>10, Zenon DEF CallerStep, Public

(* A command is popped: the one that ends stale work does end it.          *)
LEMMA WorkerPopInv ==
  ASSUME TypeOK, PlayerInv, WorkerPop PROVE PlayerInv'
<1> USE DEF WorkerPop, CallerStateFrame, WorkerFrame, snapshotVars, callerVars
<1>0. generation \in Nat /\ commands \subseteq [cmd : Commands, at : Nat]
  BY DEF TypeOK, SnapshotType, CallerType
<1>1. IdleIsEmpty'
  BY DEF PlayerInv, IdleIsEmpty, HasCurrent
<1>2. PICK c \in commands : commands' = commands \ {c} /\ HandleCommand(c.cmd)
  OBVIOUS
<1>3. c.cmd \in Commands /\ c.cmd \in Pending
  BY <1>0 DEF Pending
<1>4. \A cmd \in Pending' : cmd \in Pending
  BY <1>2 DEF Pending
<1>5. \A cmd \in Pending : cmd \in Pending' \/ cmd = c.cmd
  BY <1>2 DEF Pending
<1>6. worker.pc = "idle"
  BY DEF At
<1>7. ~(worker.pc \in Launching)
  BY <1>6 DEF Launching
<1>8. CASE c.cmd.type = "Load" /\ HandleLoad(c.cmd)
  <2>1. CASE GenerationIsCurrent(c.cmd.gen)
    <3>1. worker' = WorkOn("adopt", generation, c.cmd.track) /\ StopChild /\ UNCHANGED active
      BY <1>8, <2>1 DEF HandleLoad, GenerationIsCurrent
    <3>2. worker'.pc = "adopt" /\ worker'.gen = generation /\ worker'.track = c.cmd.track
      BY <3>1 DEF WorkOn
    <3>3. ~StaleWork'
      BY <3>1, <3>2, StoppedChild DEF StaleWork
    <3>4. generation > 0 /\ c.cmd.track = CurrentTrack
      BY <1>0, <1>3, <1>8, <2>1 DEF PlayerInv, GenerationsPast, NewestIsCurrent, GenerationIsCurrent
    <3>5. worker'.pc \notin Adopted /\ worker'.pc \notin Sending
      BY <3>2 DEF Adopted, Launching, Sending
    <3> QED BY <1>0, <1>1, <1>4, <3>1, <3>2, <3>3, <3>4, <3>5, StoppedChild, WorkerTurns
  <2>2. CASE ~GenerationIsCurrent(c.cmd.gen)
    <3>1. worker' = IdleWorker /\ UNCHANGED <<child, active>>
      BY <1>8, <2>2 DEF HandleLoad, Rest, childVars
    <3>2. worker'.pc = "idle" /\ worker'.gen = 0
      BY <3>1 DEF IdleWorker, WorkOn
    <3>3. worker'.pc \notin Adopted /\ worker'.pc \notin Launching /\ worker'.pc \notin Silent /\ worker'.pc \notin Sending
      BY <3>2 DEF Adopted, Launching, Silent, Sending
    <3>4. ~shutting => ~EndsStaleWork(c.cmd)
      BY <1>8, <2>2 DEF EndsStaleWork, GenerationIsCurrent
    <3>5. ~shutting /\ StaleWork' => /\ StaleWork
                                     /\ \A cmd \in Pending : EndsStaleWork(cmd) => cmd \in Pending'
      BY <1>5, <3>1, <3>3, <3>4 DEF StaleWork
    <3> QED BY <1>0, <1>1, <1>4, <3>1, <3>2, <3>3, <3>5, WorkerTurns
  <2> QED BY <2>1, <2>2
<1>9. CASE c.cmd.type \in {"StopProcess", "Shutdown"}
  <2>1. StopChild /\ (Rest \/ Goto("exited")) /\ UNCHANGED active
    BY <1>2, <1>9 DEF HandleCommand
  <2>2. worker'.pc \in {"idle", "exited"} /\ worker'.gen <= generation
    BY <1>0, <2>1, GotoFields DEF Rest, IdleWorker, WorkOn, TypeOK, PlayerInv, GenerationsPast
  <2>3. worker'.pc \notin Adopted /\ worker'.pc \notin Launching /\ worker'.pc # "adopt" /\ worker'.pc \notin Sending
    BY <2>2 DEF Adopted, Launching, Sending
  <2>4. ~StaleWork'
    BY <2>1, <2>3, StoppedChild DEF StaleWork
  <2> QED BY <1>1, <1>4, <2>1, <2>2, <2>3, <2>4, StoppedChild, WorkerTurns
<1>10. CASE c.cmd.type \in {"Pause", "Resume", "ApplyOutput"}
  <2>1. PauseChild \/ ResumeChild
        \/ (UNCHANGED <<active, childVars>> /\ Goto(IF child.alive THEN "output" ELSE "idle"))
    BY <1>2, <1>10, Zenon DEF HandleCommand
  <2>2. UNCHANGED active /\ child'.alive = child.alive /\ child'.gen = child.gen /\ child'.track = child.track
    BY <2>1 DEF PauseChild, ResumeChild, childVars, TypeOK, WorkerType, Children
  <2>3. Rest \/ (child.alive /\ Goto("output")) \/ Goto("idle") \/ Goto("sigstop")
    BY <2>1, Zenon DEF PauseChild, ResumeChild
  <2>4. worker'.pc \in {"idle", "output", "sigstop"} /\ worker'.gen <= generation
        /\ (worker'.pc = "output" => child.alive)
    BY <1>0, <2>3, GotoFields DEF Rest, IdleWorker, WorkOn, TypeOK, PlayerInv, GenerationsPast
  <2>5. worker'.pc \notin Adopted /\ worker'.pc \notin Launching /\ worker'.pc \notin Silent /\ worker'.pc # "adopt"
        /\ (worker'.pc \in Sending => child'.alive)
    BY <2>2, <2>4 DEF Adopted, Launching, Silent, Sending
  <2>6. ~EndsStaleWork(c.cmd)
    BY <1>10 DEF EndsStaleWork
  <2>7. ~shutting /\ StaleWork' => /\ StaleWork
                                   /\ \A cmd \in Pending : EndsStaleWork(cmd) => cmd \in Pending'
    BY <1>5, <2>2, <2>5, <2>6 DEF StaleWork
  <2> QED BY <1>1, <1>4, <2>2, <2>4, <2>5, <2>7, WorkerTurns
<1> QED BY <1>2, <1>3, <1>8, <1>9, <1>10 DEF HandleCommand, Commands, CommandTypes

(* Every other step of the worker thread preserves the invariant.          *)
LEMMA WorkerStepInv ==
  ASSUME TypeOK, PlayerInv, Worker PROVE PlayerInv'
<1> USE DEF CallerStateFrame, WorkerFrame, snapshotVars, callerVars, queueVars, childVars, At
<1>0. generation \in Nat /\ WorkerType
  BY DEF TypeOK, SnapshotType
<1>1. IdleIsEmpty
  BY DEF PlayerInv
<1>2. CASE WorkerPop
  BY <1>2, WorkerPopInv
<1>3. CASE Adopt
  <2> USE <1>3 DEF Adopt
  <2>1. IdleIsEmpty' BY <1>1 DEF IdleIsEmpty, HasCurrent
  <2>2. CASE ~GenerationIsCurrent(worker.gen)
    BY <2>1, <2>2, GoesOn DEF Rest
  <2>3. CASE GenerationIsCurrent(worker.gen)
    <3>1. active'.gen = worker.gen /\ active'.track = worker.track
      BY <2>3 DEF FreshActive
    <3>2. worker'.pc = "resolve" /\ worker'.gen = worker.gen /\ worker'.track = worker.track
      BY <1>0, <2>3, GotoFields
    <3>3. worker.gen = generation /\ worker.gen > 0 /\ worker.track = CurrentTrack /\ ~child.alive
      BY <2>3 DEF GenerationIsCurrent, PlayerInv, GenerationsPast, NewestIsCurrent, LaunchesInSilence,
                  Launching, Silent
    <3>4. CurrentTrack' = CurrentTrack BY DEF CurrentTrack, HasCurrent
    <3>5. Pending' = Pending BY DEF Pending
    <3>6. GenerationsPast' BY <1>0, <3>1, <3>2, <3>3, <3>5 DEF PlayerInv, GenerationsPast
    <3>7. LaunchesInSilence' /\ WorksForActive' BY <3>1, <3>2, <3>3 DEF LaunchesInSilence, WorksForActive, Sending
    <3>8. NewestIsCurrent' BY <3>1, <3>2, <3>3, <3>4, <3>5 DEF PlayerInv, NewestIsCurrent
    <3>9. ~StaleWork' BY <3>2, <3>3 DEF StaleWork
    <3> QED BY <2>1, <3>6, <3>7, <3>8, <3>9 DEF PlayerInv, StaleWorkEnds
  <2> QED BY <2>2, <2>3
<1>4. CASE Resolve
  <2>1. IdleIsEmpty' BY <1>1, <1>4 DEF Resolve, IdleIsEmpty, HasCurrent
  <2>2. worker' = IdleWorker \/ Goto("fetch") \/ Goto("resolving")
    BY <1>4, Zenon DEF Resolve, Rest
  <2>3. worker' = IdleWorker \/ (worker'.pc \in {"fetch", "resolving"} /\ worker'.gen = worker.gen
                                 /\ worker'.track = worker.track)
    BY <1>0, <2>2, GotoFields
  <2> QED BY <1>4, <2>1, <2>3, GoesOn DEF Resolve, Launching, Silent, Adopted, Sending
<1>5. CASE PublishResolving
  <2>1. IdleIsEmpty' /\ queue' = queue /\ index' = index
    BY <1>5, Published DEF PublishResolving, Statuses
  <2>2. worker'.pc = "fetch" /\ worker'.gen = worker.gen /\ worker'.track = worker.track
    BY <1>0, <1>5, GotoFields DEF PublishResolving
  <2> QED BY <1>5, <2>1, <2>2, GoesOn DEF PublishResolving, Launching, Silent, Adopted, Sending
<1>6. CASE Fetched
  <2> USE <1>6 DEF Fetched
  <2>1. IdleIsEmpty' BY <1>1 DEF IdleIsEmpty, HasCurrent
  <2>2. worker' = IdleWorker
        \/ (worker'.pc \in {"error", "launch", "buffering"} /\ worker'.gen = worker.gen /\ worker'.track = worker.track)
    <3>1. CASE Rest BY <3>1 DEF Rest
    <3>2. CASE Goto("error") BY <1>0, <3>2, GotoFields
    <3>3. CASE worker' = [worker EXCEPT !.pc = IF pauseRequested THEN "launch" ELSE "buffering",
                                        !.paused = pauseRequested]
      BY <1>0, <3>3 DEF WorkerType, Workers
    <3> QED BY <3>1, <3>2, <3>3, Zenon
  <2>3. worker.gen = active.gen /\ worker.track = active.track
    BY DEF PlayerInv, WorksForActive, Adopted, Launching
  <2>4. active'.gen = active.gen /\ active'.track = active.track
    BY <1>0, <2>3 DEF WorkerType, Actives
  <2> QED BY <2>1, <2>2, <2>4, GoesOn DEF Launching, Silent, Adopted, Sending
<1>7. CASE PublishBuffering
  <2>1. IdleIsEmpty' /\ queue' = queue /\ index' = index
    BY <1>7, Published DEF PublishBuffering, Statuses
  <2>2. worker'.pc = "launch" /\ worker'.gen = worker.gen /\ worker'.track = worker.track
    BY <1>0, <1>7, GotoFields DEF PublishBuffering
  <2> QED BY <1>7, <2>1, <2>2, GoesOn DEF PublishBuffering, Launching, Silent, Adopted, Sending
<1>8. CASE LaunchReadsOutput
  <2>1. IdleIsEmpty' BY <1>1, <1>8 DEF LaunchReadsOutput, IdleIsEmpty, HasCurrent
  <2>2. worker'.pc = "fork" /\ worker'.gen = worker.gen /\ worker'.track = worker.track
    BY <1>0, <1>8 DEF LaunchReadsOutput, WorkerType, Workers
  <2> QED BY <1>8, <2>1, <2>2, GoesOn DEF LaunchReadsOutput, Launching, Silent, Adopted, Sending
<1>9. CASE LaunchChild
  <2> USE <1>9 DEF LaunchChild
  <2>1. IdleIsEmpty' BY <1>1 DEF IdleIsEmpty, HasCurrent
  <2>2. CASE Goto("error") /\ UNCHANGED childVars
    <3>1. worker'.pc = "error" /\ worker'.gen = worker.gen /\ worker'.track = worker.track
      BY <1>0, <2>2, GotoFields
    <3> QED BY <2>1, <2>2, <3>1, GoesOn DEF Launching, Silent, Adopted, Sending
  <2>3. CASE ~(Goto("error") /\ UNCHANGED childVars)
    <3>1. child'.alive /\ child'.gen = worker.gen /\ child'.track = worker.track
      BY <2>3
    <3>2. worker'.pc \in {"launched", "verify"} /\ worker'.gen = worker.gen /\ worker'.track = worker.track
      BY <1>0, <2>3, GotoFields
    <3>3. worker.gen = active.gen /\ worker.track = active.track /\ active.gen > 0
      BY DEF PlayerInv, WorksForActive, Adopted, Launching
    <3>4. CurrentTrack' = CurrentTrack BY DEF CurrentTrack, HasCurrent
    <3>5. Pending' = Pending BY DEF Pending
    <3>6. worker'.pc \notin Launching /\ worker'.pc \notin Silent BY <3>2 DEF Launching, Silent
    <3>7. GenerationsPast' BY <1>0, <3>1, <3>2, <3>5 DEF PlayerInv, GenerationsPast
    <3>8. LaunchesInSilence' BY <3>1, <3>6 DEF LaunchesInSilence
    <3>9. WorksForActive' BY <3>2, <3>3 DEF WorksForActive
    <3>10. NewestIsCurrent' BY <3>1, <3>3, <3>4, <3>5, <3>6 DEF PlayerInv, NewestIsCurrent
    <3>11. StaleWork' => StaleWork BY <3>1, <3>6 DEF StaleWork, Launching
    <3>12. \A cmd : EndsStaleWork(cmd)' <=> EndsStaleWork(cmd) BY DEF EndsStaleWork
    <3>13. StaleWorkEnds' BY <3>5, <3>11, <3>12 DEF PlayerInv, StaleWorkEnds
    <3> QED BY <2>1, <3>7, <3>8, <3>9, <3>10, <3>13 DEF PlayerInv
  <2> QED BY <2>2, <2>3
<1>10. CASE VerifyLaunch
  <2>1. IdleIsEmpty' BY <1>1, <1>10 DEF VerifyLaunch, IdleIsEmpty, HasCurrent
  <2>2. CASE GenerationIsCurrent(worker.gen)
    <3>1. worker'.pc = "launched" /\ worker'.gen = worker.gen /\ worker'.track = worker.track
      BY <1>0, <1>10, <2>2, GotoFields DEF VerifyLaunch
    <3> QED BY <1>10, <2>1, <2>2, <3>1, GoesOn DEF VerifyLaunch, Launching, Silent, Adopted, Sending
  <2>3. CASE ~GenerationIsCurrent(worker.gen)
    BY <1>10, <2>1, <2>3, GoesOn, StoppedChild DEF VerifyLaunch, Rest
  <2> QED BY <2>2, <2>3
<1>11. CASE PublishLaunched \/ PublishError
  <2>1. IdleIsEmpty' /\ queue' = queue /\ index' = index
    BY <1>11, Published DEF PublishLaunched, PublishError, Statuses
  <2> QED BY <1>11, <2>1, GoesOn DEF PublishLaunched, PublishError, Rest
<1>12. CASE SignalStop
  <2>1. IdleIsEmpty' BY <1>1, <1>12 DEF SignalStop, IdleIsEmpty, HasCurrent
  <2>2. child'.alive = child.alive /\ child'.gen = child.gen /\ child'.track = child.track
    BY <1>0, <1>12 DEF SignalStop, WorkerType, Children
  <2> QED BY <1>12, <2>1, <2>2, GoesOn DEF SignalStop, Rest
<1>13. CASE OutputRead
  <2>1. IdleIsEmpty' BY <1>1, <1>13 DEF OutputRead, IdleIsEmpty, HasCurrent
  <2>2. worker'.pc = "send" /\ worker'.gen = worker.gen /\ worker'.track = worker.track
    BY <1>0, <1>13 DEF OutputRead, WorkerType, Workers
  <2> QED BY <1>13, <2>1, <2>2, GoesOn DEF OutputRead, Launching, Silent, Adopted, Sending
<1>14. CASE OutputSend
  <2> USE <1>14 DEF OutputSend
  <2>1. IdleIsEmpty' BY <1>1 DEF IdleIsEmpty, HasCurrent
  <2>2. child'.alive = child.alive /\ child'.gen = child.gen /\ child'.track = child.track
    BY <1>0 DEF WorkerType, Children
  <2>3. CASE Rest
    BY <2>1, <2>2, <2>3, GoesOn DEF Rest
  <2>4. CASE child' = child /\ active.url /\ GenerationIsCurrent(active.gen)
             /\ worker' = [worker EXCEPT !.pc = "relaunch", !.relaunch = TRUE, !.gen = active.gen,
                                         !.track = active.track, !.paused = pauseRequested]
    <3>1. worker'.pc = "relaunch" /\ worker'.gen = active.gen /\ worker'.track = active.track
      BY <1>0, <2>4 DEF WorkerType, Workers
    <3>2. active.gen = generation /\ active.track = CurrentTrack
      BY <2>4 DEF GenerationIsCurrent, PlayerInv, NewestIsCurrent
    <3>3. worker'.pc \notin Silent BY <3>1 DEF Silent, Launching
    <3>4. child.alive
      BY DEF PlayerInv, LaunchesInSilence, Sending
    <3>5. active.gen > 0 BY <3>4 DEF PlayerInv, WorksForActive
    <3>6. Pending' = Pending BY DEF Pending
    <3>7. StaleWork' => StaleWork BY <2>4, <3>1, <3>2 DEF StaleWork
    <3> QED BY <1>0, <2>1, <2>2, <3>1, <3>2, <3>3, <3>4, <3>5, <3>6, <3>7, WorkerTurns
  <2> QED BY <2>3, <2>4, Zenon
<1>15. CASE Relaunch
  <2>1. IdleIsEmpty' /\ queue' = queue /\ index' = index
    BY <1>15, Published DEF Relaunch, Statuses
  <2>2. worker'.pc = "launch" /\ worker'.gen = worker.gen /\ worker'.track = worker.track
    BY <1>0, <1>15, GotoFields DEF Relaunch
  <2> QED BY <1>15, <2>1, <2>2, GoesOn, StoppedChild DEF Relaunch, Launching, Silent, Adopted, Sending
<1>16. CASE PollChild
  <2>1. IdleIsEmpty' BY <1>1, <1>16 DEF PollChild, IdleIsEmpty, HasCurrent
  <2>2. worker'.pc = "exit" /\ worker'.gen = active.gen /\ worker'.track = active.track
    BY <1>16 DEF PollChild, WorkOn
  <2>3. worker'.pc \notin Launching /\ worker'.pc \notin Sending BY <2>2 DEF Launching, Sending
  <2>4. Pending' = Pending /\ ~StaleWork' BY <1>16, <2>3, StoppedChild DEF PollChild, Pending, StaleWork
  <2>5. active.gen > 0 /\ active.gen <= generation BY <1>16 DEF PollChild, PlayerInv, WorksForActive, GenerationsPast
  <2> QED BY <1>16, <2>1, <2>2, <2>3, <2>4, <2>5, WorkerTurns, StoppedChild DEF PollChild
<1>17. CASE HandleChildExit
  <2> USE <1>17 DEF HandleChildExit
  <2>1. ~child.alive /\ worker.gen = active.gen /\ worker.track = active.track
    BY DEF PlayerInv, LaunchesInSilence, WorksForActive, Silent, Adopted, Launching
  <2>2. CASE CallerStateFrame /\ Rest /\ UNCHANGED active
    <3>1. IdleIsEmpty' BY <1>1, <2>2 DEF IdleIsEmpty, HasCurrent
    <3> QED BY <2>2, <3>1, GoesOn DEF Rest
  <2>3. CASE CallerStateFrame /\ GenerationIsCurrent(worker.gen) /\ (Goto("resolve") \/ Goto("error"))
             /\ (UNCHANGED active \/ active' = [active EXCEPT !.refreshes = 1])
    <3>1. IdleIsEmpty' BY <1>1, <2>3 DEF IdleIsEmpty, HasCurrent
    <3>2. active'.gen = active.gen /\ active'.track = active.track BY <1>0, <2>3 DEF WorkerType, Actives
    <3>3. worker'.pc \in {"resolve", "error"} /\ worker'.gen = worker.gen /\ worker'.track = worker.track
      BY <1>0, <2>3, GotoFields
    <3>4. worker.gen = generation /\ worker.track = CurrentTrack
      BY <2>1, <2>3 DEF GenerationIsCurrent, PlayerInv, NewestIsCurrent
    <3>5. UNCHANGED <<queue, index, generation, shutting, commands, hand, child>> BY <2>3
    <3> QED BY <3>1, <3>2, <3>3, <3>4, <3>5, GoesOn DEF Launching, Silent, Adopted, Sending
  <2>4. CASE AdvanceAfterNaturalEnd /\ HasCurrent /\ index < Len(queue)
    <3> USE <2>4 DEF AdvanceAfterNaturalEnd, SelectIndexLocked
    <3>0. index \in Nat /\ generation' = generation + 1 BY Playable
    <3>1. IdleIsEmpty' BY <3>0 DEF IdleIsEmpty, HasCurrent
    <3>2. worker'.pc = "resolve" /\ worker'.gen = generation' /\ worker'.track = queue[index + 1]
      BY <1>0 DEF WorkerType, Workers
    <3>3. active'.gen = generation' /\ active'.track = queue[index + 1]
      BY DEF FreshActive
    <3>4. CurrentTrack' = queue[index + 1] BY <3>0 DEF CurrentTrack, HasCurrent
    <3>5. Pending' = Pending BY DEF Pending
    <3>6. GenerationsPast' BY <1>0, <3>0, <3>2, <3>3, <3>5, Fields, PendingFields DEF PlayerInv, GenerationsPast
    <3>7. LaunchesInSilence' BY <2>1, <3>2 DEF LaunchesInSilence, Sending
    <3>8. WorksForActive' BY <1>0, <2>1, <3>0, <3>2, <3>3 DEF WorksForActive
    <3>9. NewestIsCurrent' BY <1>0, <2>1, <3>0, <3>2, <3>3, <3>4, <3>5 DEF PlayerInv, GenerationsPast, NewestIsCurrent
    <3>10. StaleWorkEnds' BY <2>1, <3>2 DEF StaleWorkEnds, StaleWork
    <3> QED BY <3>1, <3>6, <3>7, <3>8, <3>9, <3>10 DEF PlayerInv
  <2>5. CASE AdvanceAfterNaturalEnd /\ ~(HasCurrent /\ index < Len(queue))
    <3> USE <2>5 DEF AdvanceAfterNaturalEnd
    <3>1. IdleIsEmpty' BY <1>1 DEF IdleIsEmpty, HasCurrent
    <3> QED BY <3>1, GoesOn DEF Rest
  <2> QED BY <2>2, <2>3, <2>4, <2>5, Zenon
<1> QED BY <1>2, <1>3, <1>4, <1>5, <1>6, <1>7, <1>8, <1>9, <1>10, <1>11, <1>12, <1>13, <1>14, <1>15, <1>16, <1>17
    DEF Worker

(* The types and the inductive invariant hold in every reachable state.    *)
LEMMA Inductive == Spec => [](TypeOK /\ PlayerInv)
<1>1. Init => TypeOK /\ PlayerInv
  <2> SUFFICES ASSUME Init PROVE PlayerInv
    BY InitType
  <2> USE DEF Init
  <2>1. child.alive = FALSE /\ child.gen = 0 /\ child.track = NoTrack
    BY DEF NoChild
  <2>2. worker.pc = "idle" /\ worker.gen = 0
    BY DEF IdleWorker, WorkOn
  <2>3. active.gen = 0 /\ active.track = NoTrack
    BY DEF FreshActive
  <2>4. \A cmd \in Pending : cmd.type # "Load"
    BY NoLoad DEF Pending
  <2>5. worker.pc \notin Launching /\ worker.pc \notin Silent /\ worker.pc \notin Adopted /\ worker.pc \notin Sending
    BY <2>2 DEF Launching, Silent, Adopted, Sending
  <2>6. IdleIsEmpty BY DEF IdleIsEmpty, HasCurrent
  <2>7. LaunchesInSilence BY <2>5 DEF LaunchesInSilence
  <2>8. GenerationsPast BY <2>1, <2>2, <2>3, <2>4 DEF GenerationsPast
  <2>9. WorksForActive BY <2>1, <2>5 DEF WorksForActive
  <2>10. NewestIsCurrent BY <2>1, <2>3, <2>4, <2>5 DEF NewestIsCurrent, CurrentTrack, HasCurrent
  <2>11. StaleWorkEnds BY <2>1, <2>5 DEF StaleWorkEnds, StaleWork
  <2> QED BY <2>6, <2>7, <2>8, <2>9, <2>10, <2>11 DEF PlayerInv
<1>2. TypeOK /\ PlayerInv /\ [Next]_vars => PlayerInv'
  <2> SUFFICES ASSUME TypeOK, PlayerInv, [Next]_vars PROVE PlayerInv'
    OBVIOUS
  <2>1. ASSUME NEW t \in Callers, CallerStep(t) PROVE PlayerInv'
    BY <2>1, CallerStepInv
  <2>2. CASE Shutdown
    BY <2>2, ShutsDown
  <2>3. CASE Worker
    BY <2>3, WorkerStepInv
  <2>4. CASE ChildReady \/ ChildExits \/ UNCHANGED vars
    <3>1. UNCHANGED <<queue, index, status, generation, shutting, commands, hand, worker, active>>
      BY <2>4 DEF ChildReady, ChildExits, Mpv, vars, snapshotVars, queueVars, callerVars
    <3>2. child'.alive = child.alive /\ child'.gen = child.gen /\ child'.track = child.track
      BY <2>4 DEF ChildReady, ChildExits, vars, childVars, TypeOK, WorkerType, Children
    <3>3. IdleIsEmpty' /\ CurrentTrack' = CurrentTrack /\ Pending' = Pending
      BY <3>1 DEF PlayerInv, IdleIsEmpty, HasCurrent, CurrentTrack, Pending
    <3> QED BY <3>1, <3>2, <3>3, NothingRelevant
  <2> QED BY <2>1, <2>2, <2>3, <2>4 DEF Next
<1> QED BY <1>1, <1>2, TypePreserved, PTL DEF Spec

(* Whatever was superseded, once every request has been handled the        *)
(* process that is left plays the current track of the newest request.     *)
THEOREM HeardIsShownHolds == Spec => []HeardIsShown
<1>1. TypeOK /\ PlayerInv => HeardIsShown
  <2> SUFFICES ASSUME TypeOK, PlayerInv, Quiescent, child.alive
               PROVE  child.gen = generation /\ child.track = CurrentTrack
    BY DEF HeardIsShown
  <2>1. \A cmd \in Pending : cmd = NoCommand
    BY DEF Quiescent, Pending
  <2>2. ~StaleWork
    BY <2>1, NoLoad DEF PlayerInv, StaleWorkEnds, Quiescent
  <2>3. child.gen = generation
    BY <2>2 DEF StaleWork
  <2> QED BY <2>3 DEF PlayerInv, NewestIsCurrent
<1> QED BY <1>1, Inductive, PTL

(* When the worker thread has left its loop there is no player process.    *)
THEOREM ShutdownSilencesHolds == Spec => []ShutdownSilences
<1>1. PlayerInv => ShutdownSilences
  BY DEF PlayerInv, LaunchesInSilence, Silent, ShutdownSilences, At
<1> QED BY <1>1, Inductive, PTL

-----------------------------------------------------------------------------
(* Idle is left only by a call that also loads a track.                    *)
THEOREM NoResurrectionHolds == Spec => NoResurrection
<1>1. TypeOK /\ PlayerInv /\ [Next]_vars => [LeavesIdle => Loads]_vars
  <2> SUFFICES ASSUME TypeOK, PlayerInv, [Next]_vars, status = "Idle", status' # "Idle" PROVE Loads
    BY DEF LeavesIdle
  <2> USE DEF Loads
  <2>1. ~HasCurrent
    BY DEF PlayerInv, IdleIsEmpty
  <2>2. hand \in [Callers -> Commands \cup {NoCommand}]
    BY DEF TypeOK, CallerType
  <2>3. ASSUME NEW t \in Callers, NEW cmd, Hand(t, cmd), cmd.type = "Load" PROVE Loads
    <3>1. hand'[t] = cmd BY <2>2, <2>3 DEF Hand
    <3> QED BY <2>3, <3>1
  <2>4. \A gen, track : Load(gen, track).type = "Load"
    BY NoLoad
  <2>5. ASSUME NEW t \in Callers, CallerStep(t) PROVE Loads
    <3>1. ASSUME NEW q \in Playlists, NEW start \in DOMAIN q, PlayQueue(t, q, start) PROVE Loads
      BY <2>3, <2>4, <3>1 DEF PlayQueue
    <3>2. CASE SelectIndex(t)
      BY <2>3, <2>4, <3>2 DEF SelectIndex
    <3>3. ASSUME NEW o \in Outputs, SetVolume(t, o) PROVE Loads
      BY <3>3 DEF SetVolume
    <3>4. ~(Enqueue(t) \/ Stop(t) \/ Pause(t) \/ Resume(t) \/ NextTrack(t) \/ SeekTo(t) \/ Toggle(t) \/ Previous(t))
      BY <2>1 DEF Enqueue, Stop, Pause, Resume, NextTrack, SeekTo, Toggle, Previous, snapshotVars
    <3> QED BY <2>5, <3>1, <3>2, <3>3, <3>4, Zenon DEF CallerStep, Public
  <2>6. ~(Shutdown \/ ChildReady \/ ChildExits \/ UNCHANGED vars)
    BY DEF Shutdown, ChildReady, ChildExits, Mpv, vars, snapshotVars
  <2>7. \A st : ~Publish(st)
    BY <2>1 DEF Publish
  <2>8. ~(WorkerPop \/ Adopt \/ Resolve \/ PublishResolving \/ Fetched \/ PublishBuffering)
    BY <2>7 DEF WorkerPop, Adopt, Resolve, PublishResolving, Fetched, PublishBuffering, CallerStateFrame, snapshotVars
  <2>9. ~(LaunchReadsOutput \/ LaunchChild \/ VerifyLaunch \/ PublishLaunched \/ PublishError \/ SignalStop)
    BY <2>7 DEF LaunchReadsOutput, LaunchChild, VerifyLaunch, PublishLaunched, PublishError, SignalStop,
                CallerStateFrame, snapshotVars
  <2>10. ~(OutputRead \/ OutputSend \/ Relaunch \/ PollChild)
    BY <2>7 DEF OutputRead, OutputSend, Relaunch, PollChild, CallerStateFrame, snapshotVars
  <2>11. ~HandleChildExit
    BY <2>1 DEF HandleChildExit, AdvanceAfterNaturalEnd, CallerStateFrame, snapshotVars
  <2> QED BY <2>5, <2>6, <2>8, <2>9, <2>10, <2>11 DEF Next, Worker
<1> QED BY <1>1, Inductive, PTL DEF NoResurrection, Spec

-----------------------------------------------------------------------------
(* The player implements PlaybackFocus: every step maps to a step of it,   *)
(* or to none.                                                             *)
LEMMA CallerFocus ==
  ASSUME NEW t \in Callers, CallerStep(t)
  PROVE  UNCHANGED <<active, child>> /\ (UNCHANGED generation \/ generation' = generation + 1)
<1>1. ASSUME NEW q \in Playlists, NEW start \in DOMAIN q, PlayQueue(t, q, start)
      PROVE  UNCHANGED <<active, child>> /\ generation' = generation + 1
  BY <1>1 DEF PlayQueue, childVars
<1>2. ASSUME NEW o \in Outputs, SetVolume(t, o)
      PROVE  UNCHANGED <<active, child, generation>>
  BY <1>2 DEF SetVolume, childVars
<1>3. ASSUME Enqueue(t) \/ Stop(t) \/ Pause(t) \/ Resume(t) \/ NextTrack(t) \/ SeekTo(t) \/ SelectIndex(t)
             \/ Toggle(t) \/ Previous(t)
      PROVE  UNCHANGED <<active, child>> /\ (UNCHANGED generation \/ generation' = generation + 1)
  BY <1>3 DEF Enqueue, Stop, Pause, Resume, NextTrack, SeekTo, SelectIndex, SelectIndexLocked, Toggle, Previous,
              Decide, childVars
<1> QED BY <1>1, <1>2, <1>3, Zenon DEF CallerStep, Public

THEOREM ImplementsFocus == Spec => FocusSpec
<1>1. Init => Focus!Init
  BY DEF Init, Focus!Init, FreshActive, NoChild
<1>2. TypeOK /\ PlayerInv /\ [Next]_vars => [Focus!Next]_Focus!vars
  <2> SUFFICES ASSUME TypeOK, PlayerInv, [Next]_vars, ~UNCHANGED Focus!vars PROVE Focus!Next
    OBVIOUS
  <2> USE DEF Focus!vars
  <2>0. generation \in Nat /\ active.gen \in Nat /\ child.alive \in BOOLEAN /\ active.gen <= generation
    BY Fields DEF TypeOK, SnapshotType, PlayerInv, GenerationsPast
  <2>1. CASE UNCHANGED <<active, child>>
    <3>1. ASSUME generation' = generation + 1 PROVE Focus!Next
      BY <2>1, <3>1 DEF Focus!Next, Focus!Request
    <3>2. ASSUME NEW t \in Callers, CallerStep(t) PROVE Focus!Next
      BY <2>1, <3>1, <3>2, CallerFocus
    <3>3. ASSUME UNCHANGED generation PROVE FALSE
      BY <2>1, <3>3
    <3>4. CASE Shutdown
      BY <3>1, <3>4 DEF Shutdown
    <3>5. CASE Worker
      <4>1. AdvanceAfterNaturalEnd => UNCHANGED generation \/ generation' = generation + 1
        BY DEF AdvanceAfterNaturalEnd, SelectIndexLocked
      <4>2. HandleChildExit => UNCHANGED generation \/ generation' = generation + 1
        BY <4>1 DEF HandleChildExit, CallerStateFrame
      <4>3. Worker /\ ~HandleChildExit => UNCHANGED generation
        BY DEF Worker, WorkerPop, Adopt, Resolve, PublishResolving, Fetched, PublishBuffering, LaunchReadsOutput,
               LaunchChild, VerifyLaunch, PublishLaunched, PublishError, SignalStop, OutputRead, OutputSend,
               Relaunch, PollChild, CallerStateFrame
      <4> QED BY <3>1, <3>3, <3>5, <4>2, <4>3
    <3>6. ~(ChildReady \/ ChildExits \/ UNCHANGED vars)
      BY <3>3 DEF ChildReady, ChildExits, Mpv, vars
    <3> QED BY <3>2, <3>4, <3>5, <3>6 DEF Next
  <2>2. CASE Worker
    <3> USE DEF CallerStateFrame, childVars
    <3>1. ASSUME UNCHANGED <<generation, active>>, child'.alive = FALSE PROVE Focus!Next
      BY <2>0, <3>1 DEF Focus!Next, Focus!Silence
    <3>2. ASSUME UNCHANGED <<generation, active>>, child'.alive = child.alive PROVE Focus!Next
      BY <3>2
    <3>3. ASSUME StopChild, UNCHANGED <<generation, active>> PROVE Focus!Next
      BY <3>1, <3>3, StoppedChild
    <3>4. CASE WorkerPop
      <4> USE <3>4 DEF WorkerPop
      <4>1. PICK c \in commands : HandleCommand(c.cmd) OBVIOUS
      <4>2. UNCHANGED <<generation, active>>
        BY <4>1 DEF HandleCommand, HandleLoad, PauseChild, ResumeChild
      <4>3. CASE StopChild \/ UNCHANGED childVars BY <4>2, <4>3, <3>2, <3>3
      <4>4. CASE PauseChild \/ ResumeChild
        <5>1. child'.alive = child.alive
          BY <4>4 DEF PauseChild, ResumeChild, TypeOK, WorkerType, Children
        <5> QED BY <4>2, <5>1, <3>2
      <4> QED BY <4>1, <4>3, <4>4 DEF HandleCommand, HandleLoad
    <3>5. CASE Adopt
      <4>1. CASE UNCHANGED active BY <3>5, <4>1, <3>2 DEF Adopt
      <4>2. CASE GenerationIsCurrent(worker.gen) /\ active' = FreshActive(worker.gen, worker.track)
        <5>1. active'.gen = generation BY <4>2 DEF FreshActive, GenerationIsCurrent
        <5>2. ~child.alive BY <3>5 DEF Adopt, At, PlayerInv, LaunchesInSilence, Silent, Launching
        <5> QED BY <2>0, <3>5, <5>1, <5>2 DEF Adopt, Focus!Next, Focus!TakeUp
      <4> QED BY <3>5, <4>1, <4>2 DEF Adopt
    <3>6. CASE Fetched
      <4>1. worker.gen = active.gen BY <3>6 DEF Fetched, At, PlayerInv, WorksForActive, Adopted, Launching
      <4>2. active'.gen = active.gen BY <3>6, <4>1 DEF Fetched, TypeOK, WorkerType, Actives
      <4> QED BY <3>6, <4>2 DEF Fetched
    <3>7. CASE LaunchChild
      <4>1. ~child.alive /\ active.gen > 0
        BY <3>7 DEF LaunchChild, At, PlayerInv, LaunchesInSilence, WorksForActive, Silent, Adopted, Launching
      <4>2. UNCHANGED <<generation, active>> BY <3>7 DEF LaunchChild
      <4>3. CASE UNCHANGED child BY <4>2, <4>3, <3>2
      <4>4. CASE child'.alive BY <2>0, <4>1, <4>2, <4>4 DEF Focus!Next, Focus!Start
      <4> QED BY <3>7, <4>3, <4>4 DEF LaunchChild
    <3>8. CASE HandleChildExit
      <4> USE <3>8 DEF HandleChildExit
      <4>1. ~child.alive /\ worker.gen = active.gen
        BY DEF At, PlayerInv, LaunchesInSilence, WorksForActive, Silent, Adopted, Launching
      <4>2. CASE CallerStateFrame /\ (UNCHANGED active \/ active' = [active EXCEPT !.refreshes = 1])
        <5>1. active'.gen = active.gen BY <4>2 DEF TypeOK, WorkerType, Actives
        <5> QED BY <4>2, <5>1
      <4>3. CASE GenerationIsCurrent(worker.gen) /\ AdvanceAfterNaturalEnd
        <5>1. CASE UNCHANGED <<generation, active>> BY <5>1
        <5>2. CASE generation' = generation + 1 /\ active' = FreshActive(generation', queue[index + 1])
          <6>1. active'.gen = generation + 1 BY <5>2 DEF FreshActive
          <6>2. active.gen = generation BY <4>1, <4>3 DEF GenerationIsCurrent
          <6> QED BY <4>1, <5>2, <6>1, <6>2 DEF Focus!Next, Focus!Advance
        <5> QED BY <4>3, <5>1, <5>2 DEF AdvanceAfterNaturalEnd, SelectIndexLocked
      <4> QED BY <4>2, <4>3, Zenon
    <3>9. CASE VerifyLaunch \/ Relaunch \/ PollChild
      <4>1. UNCHANGED <<generation, active>> /\ (StopChild \/ UNCHANGED child)
        BY <3>9 DEF VerifyLaunch, Relaunch, PollChild
      <4> QED BY <4>1, <3>2, <3>3
    <3>10. CASE SignalStop \/ OutputSend
      <4>1. UNCHANGED <<generation, active>> /\ child'.alive = child.alive
        BY <3>10 DEF SignalStop, OutputSend, TypeOK, WorkerType, Children
      <4> QED BY <4>1, <3>2
    <3>11. CASE Resolve \/ PublishResolving \/ PublishBuffering \/ LaunchReadsOutput \/ PublishLaunched
                \/ PublishError \/ OutputRead
      <4>1. UNCHANGED <<generation, active, child>>
        BY <3>11 DEF Resolve, PublishResolving, PublishBuffering, LaunchReadsOutput, PublishLaunched,
                     PublishError, OutputRead
      <4> QED BY <4>1, <3>2
    <3> QED BY <2>2, <3>4, <3>5, <3>6, <3>7, <3>8, <3>9, <3>10, <3>11 DEF Worker
  <2>3. CASE ChildReady \/ ChildExits
    <3>1. UNCHANGED <<generation, active>> /\ child'.alive = child.alive
      BY <2>3 DEF ChildReady, ChildExits, Mpv, TypeOK, WorkerType, Children
    <3> QED BY <3>1
  <2>4. CASE Shutdown \/ UNCHANGED vars
    BY <2>1, <2>4 DEF Shutdown, vars, childVars
  <2>5. ASSUME NEW t \in Callers, CallerStep(t) PROVE Focus!Next
    BY <2>1, <2>5, CallerFocus
  <2> QED BY <2>2, <2>3, <2>4, <2>5 DEF Next
<1> QED BY <1>1, <1>2, Inductive, PTL DEF Spec, FocusSpec, Focus!Spec

-----------------------------------------------------------------------------
(* The volume: OutputInv is kept by every step.  Two lemmas say what a     *)
(* step must leave alone; each step then shows that it does, or what it    *)
(* does instead.                                                           *)

LEMMA StreamStaysKnown ==
  ASSUME StreamIsKnown, active'.gen = active.gen, active.url => active'.url,
         child'.alive => child.alive /\ child'.gen = child.gen,
         worker'.pc \in {"buffering", "launch", "fork", "relaunch"} =>
           worker.pc \in {"buffering", "launch", "fork", "relaunch"} \/ active.url
  PROVE  StreamIsKnown'
BY DEF StreamIsKnown

LEMMA OutputStillFollows ==
  ASSUME OutputFollows, UNCHANGED output, OutputPending => OutputPending',
         child'.alive /\ ~child'.exited /\ child'.gen = generation' =>
           /\ child.alive /\ ~child.exited /\ child.gen = generation /\ child'.output = child.output
           /\ worker.pc \in Sending => worker'.pc \in Sending,
         worker'.pc \in {"fork", "send"} =>
           worker.pc \in {"fork", "send"} /\ worker'.output = worker.output
  PROVE  OutputFollows'
BY DEF OutputFollows

(* No command is no output change; an output change is one.                *)
LEMMA OutputCommand ==
  /\ NoCommand.type # "ApplyOutput"
  /\ Plain("ApplyOutput").type = "ApplyOutput"
BY DEF NoCommand, Plain

(* A caller that holds nothing takes a command: nothing pending is lost.   *)
LEMMA HandKeepsOutput ==
  ASSUME TypeOK, NEW t \in Callers, hand[t] = NoCommand, UNCHANGED commands,
         UNCHANGED hand \/ \E cmd : Hand(t, cmd), OutputPending
  PROVE  OutputPending'
<1>1. PICK p \in Pending : p.type = "ApplyOutput"
  BY DEF OutputPending
<1>2. p # NoCommand
  BY <1>1, OutputCommand
<1>3. p \in Pending'
  BY <1>2 DEF Pending, Hand, TypeOK, CallerType
<1> QED BY <1>1, <1>3 DEF OutputPending

(* A pending output change is replaced by nothing but another one.         *)
LEMMA EnqueueKeepsOutput ==
  ASSUME TypeOK, ~shutting, NEW t \in Callers, Enqueue(t), OutputPending
  PROVE  OutputPending'
<1>1. PICK p \in Pending : p.type = "ApplyOutput"
  BY DEF OutputPending
<1>2. commands' = Coalesced(hand[t]) \cup {[cmd |-> hand[t], at |-> arrivals']}
  BY DEF Enqueue
<1>3. [cmd |-> hand[t], at |-> arrivals'] \in commands'
  BY <1>2
<1>4. hand[t] \in Pending'
  BY <1>3 DEF Pending
<1>5. CASE hand[t].type = "ApplyOutput"
  BY <1>4, <1>5 DEF OutputPending
<1>6. CASE hand[t].type # "ApplyOutput"
  <2>1. ASSUME NEW c \in commands, c.cmd = p PROVE c \in commands'
    BY <1>1, <1>2, <1>6, <2>1 DEF Coalesced, Replaces
  <2>2. ASSUME NEW u \in Callers, hand[u] = p PROVE p \in Pending'
    <3>1. u # t BY <1>1, <1>6, <2>2
    <3>2. hand'[u] = p BY <2>2, <3>1 DEF Enqueue, TypeOK, CallerType
    <3> QED BY <3>2 DEF Pending
  <2>3. p \in Pending'
    BY <2>1, <2>2 DEF Pending
  <2> QED BY <1>1, <2>3 DEF OutputPending
<1> QED BY <1>5, <1>6

(* A caller's step is one of these.                                        *)
LEMMA CallerChanges ==
  ASSUME TypeOK, NEW t \in Callers, CallerStep(t), ~Enqueue(t)
  PROVE  /\ hand[t] = NoCommand /\ UNCHANGED <<commands, shutting, worker, active, child>>
         /\ generation' \in {generation, generation + 1}
         /\ UNCHANGED hand \/ \E cmd : Hand(t, cmd)
         /\ output' = output \/ Hand(t, Plain("ApplyOutput"))
<1> USE DEF queueVars, childVars, snapshotVars
<1>1. ASSUME NEW q \in Playlists, NEW start \in DOMAIN q, PlayQueue(t, q, start)
      PROVE  /\ hand[t] = NoCommand /\ UNCHANGED <<commands, shutting, worker, active, child>>
             /\ generation' \in {generation, generation + 1}
             /\ UNCHANGED hand \/ \E cmd : Hand(t, cmd)
             /\ output' = output \/ Hand(t, Plain("ApplyOutput"))
  BY <1>1, Zenon DEF PlayQueue, Direct, Free
<1>2. CASE Stop(t)
  BY <1>2, Zenon DEF Stop, Direct, Free
<1>3. CASE Pause(t)
  BY <1>3, Zenon DEF Pause, Called, Direct, Free
<1>4. CASE Resume(t)
  BY <1>4, Zenon DEF Resume, Called, Direct, Free
<1>5. CASE NextTrack(t)
  BY <1>5, Zenon DEF NextTrack, SelectIndexLocked, Direct, Free
<1>6. CASE SeekTo(t)
  BY <1>6, Zenon DEF SeekTo, Called, Direct, Free
<1>7. CASE SelectIndex(t)
  BY <1>7, Zenon DEF SelectIndex, SelectIndexLocked
<1>8. ASSUME NEW o \in Outputs, SetVolume(t, o)
      PROVE  /\ hand[t] = NoCommand /\ UNCHANGED <<commands, shutting, worker, active, child>>
             /\ generation' \in {generation, generation + 1}
             /\ UNCHANGED hand \/ \E cmd : Hand(t, cmd)
             /\ output' = output \/ Hand(t, Plain("ApplyOutput"))
  BY <1>8, Zenon DEF SetVolume, Free
<1>9. CASE Toggle(t) \/ Previous(t)
  <2>1. \E kind, i : Decide(t, kind, i) BY <1>9, Zenon DEF Toggle, Previous
  <2> QED BY <2>1, Zenon DEF Decide, Free
<1> QED BY <1>1, <1>2, <1>3, <1>4, <1>5, <1>6, <1>7, <1>8, <1>9, Zenon DEF CallerStep, Public

(* Callers: a new setting is handed over with the change, and a new        *)
(* request makes the process of the old one irrelevant.                    *)
LEMMA CallerStepOutput ==
  ASSUME TypeOK, PlayerInv, OutputInv, NEW t \in Callers, CallerStep(t)
  PROVE  OutputInv'
<1>0. generation \in Nat /\ WorkerType
  BY DEF TypeOK, SnapshotType
<1>1. CASE Enqueue(t)
  <2>1. UNCHANGED <<output, generation, shutting, worker, active, child>>
    BY <1>1 DEF Enqueue, snapshotVars, childVars
  <2>2. StreamIsKnown'
    BY <2>1, StreamStaysKnown DEF OutputInv
  <2>3. ~shutting => OutputFollows'
    BY <1>1, <2>1, EnqueueKeepsOutput, OutputStillFollows DEF OutputInv
  <2> QED BY <2>1, <2>2, <2>3 DEF OutputInv
<1>2. CASE ~Enqueue(t)
  <2>1. /\ hand[t] = NoCommand /\ UNCHANGED <<commands, shutting, worker, active, child>>
        /\ generation' \in {generation, generation + 1}
        /\ UNCHANGED hand \/ \E cmd : Hand(t, cmd)
        /\ output' = output \/ Hand(t, Plain("ApplyOutput"))
    BY <1>2, CallerChanges
  <2>2. StreamIsKnown'
    BY <2>1, StreamStaysKnown DEF OutputInv
  <2>3. child.gen = generation' => child.gen = generation
    BY <1>0, <2>1, Fields DEF PlayerInv, GenerationsPast
  <2>4. OutputPending => OutputPending'
    BY <2>1, HandKeepsOutput
  <2>5. CASE output' = output
    BY <2>1, <2>2, <2>3, <2>4, <2>5, OutputStillFollows DEF OutputInv
  <2>6. CASE Hand(t, Plain("ApplyOutput"))
    <3>1. Plain("ApplyOutput") \in Pending'
      BY <2>6 DEF Hand, Pending, TypeOK, CallerType
    <3>2. OutputPending'
      BY <3>1, OutputCommand DEF OutputPending
    <3>3. OutputFollows'
      BY <3>2 DEF OutputFollows
    <3> QED BY <2>2, <3>3 DEF OutputInv
  <2> QED BY <2>1, <2>5, <2>6
<1> QED BY <1>1, <1>2

(* A popped command stops the process, leaves its volume alone or, the     *)
(* output change, goes on to send the setting to it.                       *)
LEMMA WorkerPopOutput ==
  ASSUME TypeOK, PlayerInv, OutputInv, WorkerPop
  PROVE  OutputInv'
<1> USE DEF WorkerPop, CallerStateFrame, WorkerFrame, snapshotVars, callerVars
<1>0. WorkerType /\ commands \subseteq [cmd : Commands, at : Nat] /\ At("idle")
  BY DEF TypeOK, CallerType
<1>1. PICK c \in commands : commands' = commands \ {c} /\ HandleCommand(c.cmd)
  OBVIOUS
<1>2. UNCHANGED <<output, generation, shutting, active>>
  BY <1>1 DEF HandleCommand, HandleLoad, PauseChild, ResumeChild
<1>3. c.cmd.type # "ApplyOutput" => (OutputPending => OutputPending')
  BY <1>1 DEF OutputPending, Pending
<1>4. worker.pc \notin Sending
  BY <1>0 DEF At, Sending
<1>5. worker'.pc \in {"idle", "adopt", "output", "sigstop", "exited"}
  BY <1>0, <1>1, GotoFields
     DEF HandleCommand, HandleLoad, PauseChild, ResumeChild, Rest, IdleWorker, WorkOn
<1>6. \/ ~child'.alive
      \/ /\ child'.alive = child.alive /\ child'.exited = child.exited
         /\ child'.gen = child.gen /\ child'.output = child.output
  BY <1>0, <1>1, StoppedChild
     DEF HandleCommand, HandleLoad, PauseChild, ResumeChild, childVars, WorkerType, Children
<1>7. StreamIsKnown'
  BY <1>2, <1>5, <1>6, StreamStaysKnown DEF OutputInv
<1>8. CASE c.cmd.type # "ApplyOutput"
  BY <1>2, <1>3, <1>4, <1>5, <1>6, <1>7, <1>8, OutputStillFollows DEF OutputInv
<1>9. CASE c.cmd.type = "ApplyOutput"
  <2>1. Goto(IF child.alive THEN "output" ELSE "idle") /\ UNCHANGED childVars
    BY <1>1, <1>9 DEF HandleCommand
  <2>2. child'.alive => worker'.pc = "output"
    BY <1>0, <2>1, GotoFields DEF childVars
  <2>3. OutputFollows'
    BY <1>5, <2>2 DEF OutputFollows, Sending
  <2> QED BY <1>7, <2>3 DEF OutputInv
<1> QED BY <1>8, <1>9

(* A step of the worker that leaves process and setting alone, or stops    *)
(* the process, and does not turn away from sending.                       *)
LEMMA WorkerPasses ==
  ASSUME TypeOK, OutputInv,
         UNCHANGED <<output, generation, shutting, commands, hand>>,
         active'.gen = active.gen, active'.url = active.url,
         worker.pc \notin Sending, worker'.pc \notin {"fork", "send"},
         worker'.pc \in {"buffering", "launch", "relaunch"} =>
           worker.pc \in {"buffering", "launch", "fork", "relaunch"},
         child'.alive => /\ child.alive /\ child'.exited = child.exited
                         /\ child'.gen = child.gen /\ child'.output = child.output
  PROVE  OutputInv'
<1>1. StreamIsKnown'
  BY StreamStaysKnown DEF OutputInv
<1>2. OutputPending' = OutputPending
  BY DEF OutputPending, Pending
<1>3. ~shutting => OutputFollows'
  BY <1>2, OutputStillFollows DEF OutputInv
<1> QED BY <1>1, <1>3 DEF OutputInv

(* Without a process, and before a stream is known, nothing is promised.   *)
LEMMA NothingToFollow ==
  ASSUME ~child'.alive, worker'.pc \notin {"buffering", "launch", "fork", "relaunch", "send"}
  PROVE  OutputInv'
BY DEF OutputInv, StreamIsKnown, OutputFollows

(* The worker's own steps: what it launches or sends is the newest setting *)
(* or one whose replacement is pending, and a process it cannot reach is   *)
(* relaunched unless it is stale.                                          *)
LEMMA WorkerStepOutput ==
  ASSUME TypeOK, PlayerInv, OutputInv, Worker
  PROVE  OutputInv'
<1> USE DEF CallerStateFrame, WorkerFrame, snapshotVars, callerVars, queueVars, childVars, At
<1>0. WorkerType
  BY DEF TypeOK
<1>1. UNCHANGED <<output, shutting, hand>>
  BY DEF Worker, WorkerPop, Adopt, Resolve, PublishResolving, Fetched, PublishBuffering, LaunchReadsOutput,
         LaunchChild, VerifyLaunch, PublishLaunched, PublishError, SignalStop, OutputRead, OutputSend,
         Relaunch, PollChild, HandleChildExit, AdvanceAfterNaturalEnd, Publish
<1>2. worker.pc \in Silent => ~child.alive
  BY DEF PlayerInv, LaunchesInSilence
<1>3. CASE WorkerPop
  BY <1>3, WorkerPopOutput
<1>4. CASE Adopt \/ Resolve \/ PublishResolving
  <2>1. ~child'.alive
    BY <1>2, <1>4 DEF Adopt, Resolve, PublishResolving, Silent, Launching
  <2>2. Rest \/ Goto("resolve") \/ Goto("fetch") \/ Goto("resolving")
    BY <1>4, Zenon DEF Adopt, Resolve, PublishResolving
  <2>3. worker'.pc \in {"idle", "resolve", "fetch", "resolving"}
    BY <1>0, <2>2, GotoFields DEF Rest, IdleWorker, WorkOn
  <2> QED BY <2>1, <2>3, NothingToFollow
<1>5. CASE Fetched
  <2>1. ~child'.alive
    BY <1>2, <1>5 DEF Fetched, Silent, Launching
  <2>2. CASE Rest \/ Goto("error")
    <3>1. worker'.pc \in {"idle", "error"}
      BY <1>0, <2>2, GotoFields DEF Rest, IdleWorker, WorkOn
    <3> QED BY <2>1, <3>1, NothingToFollow
  <2>3. CASE /\ active' = [active EXCEPT !.gen = worker.gen, !.track = worker.track, !.url = TRUE]
             /\ worker' = [worker EXCEPT !.pc = IF pauseRequested THEN "launch" ELSE "buffering",
                                         !.paused = pauseRequested]
    <3>1. active'.url /\ worker'.pc \in {"launch", "buffering"}
      BY <1>0, <2>3 DEF WorkerType, Workers, Actives
    <3> QED BY <2>1, <3>1 DEF OutputInv, StreamIsKnown, OutputFollows
  <2> QED BY <1>5, <2>2, <2>3, Zenon DEF Fetched
<1>6. CASE PublishBuffering
  <2>1. worker'.pc = "launch"
    BY <1>0, <1>6, GotoFields DEF PublishBuffering
  <2> QED BY <1>1, <1>6, <2>1, WorkerPasses DEF PublishBuffering, Sending
<1>7. CASE LaunchReadsOutput
  <2>1. ~child'.alive
    BY <1>2, <1>7 DEF LaunchReadsOutput, Silent, Launching
  <2>2. worker'.pc = "fork" /\ worker'.output = output
    BY <1>0, <1>7 DEF LaunchReadsOutput, WorkerType, Workers
  <2> QED BY <1>1, <1>7, <2>1, <2>2 DEF LaunchReadsOutput, OutputInv, StreamIsKnown, OutputFollows
<1>8. CASE LaunchChild
  <2>1. CASE Goto("error") /\ UNCHANGED childVars
    <3>1. ~child'.alive
      BY <1>2, <1>8, <2>1 DEF LaunchChild, Silent, Launching
    <3>2. worker'.pc = "error"
      BY <1>0, <2>1, GotoFields
    <3> QED BY <3>1, <3>2, NothingToFollow
  <2>2. CASE ~(Goto("error") /\ UNCHANGED childVars)
    <3>1. child'.gen = worker.gen /\ child'.output = worker.output
      BY <1>8, <2>2 DEF LaunchChild
    <3>2. worker'.pc \in {"launched", "verify"}
      BY <1>0, <1>8, <2>2, GotoFields DEF LaunchChild
    <3>3. worker.gen = active.gen /\ active.url /\ UNCHANGED active
      BY <1>8 DEF LaunchChild, PlayerInv, WorksForActive, Adopted, Launching, OutputInv, StreamIsKnown
    <3>4. StreamIsKnown'
      BY <3>1, <3>2, <3>3 DEF StreamIsKnown
    <3>5. OutputPending' = OutputPending
      BY <1>1, <1>8 DEF LaunchChild, OutputPending, Pending
    <3>6. ~shutting => OutputFollows'
      BY <1>1, <1>8, <3>1, <3>2, <3>5 DEF LaunchChild, OutputInv, OutputFollows
    <3> QED BY <1>1, <3>4, <3>6 DEF OutputInv
  <2> QED BY <2>1, <2>2
<1>9. CASE VerifyLaunch
  <2>1. CASE GenerationIsCurrent(worker.gen)
    <3>1. worker'.pc = "launched"
      BY <1>0, <1>9, <2>1, GotoFields DEF VerifyLaunch
    <3> QED BY <1>1, <1>9, <2>1, <3>1, WorkerPasses DEF VerifyLaunch, Sending
  <2>2. CASE ~GenerationIsCurrent(worker.gen)
    <3>1. ~child'.alive /\ worker'.pc = "idle"
      BY <1>9, <2>2, StoppedChild DEF VerifyLaunch, Rest, IdleWorker, WorkOn
    <3> QED BY <3>1, NothingToFollow
  <2> QED BY <2>1, <2>2
<1>10. CASE PublishLaunched \/ PublishError \/ SignalStop
  <2>1. worker.pc \notin Sending /\ worker'.pc = "idle"
    BY <1>10 DEF PublishLaunched, PublishError, SignalStop, Sending, Rest, IdleWorker, WorkOn
  <2>2. /\ child'.alive = child.alive /\ child'.exited = child.exited
        /\ child'.gen = child.gen /\ child'.output = child.output
    BY <1>0, <1>10 DEF PublishLaunched, PublishError, SignalStop, WorkerType, Children
  <2>3. UNCHANGED <<generation, commands, active>>
    BY <1>10, Zenon DEF PublishLaunched, PublishError, SignalStop
  <2> QED BY <1>1, <2>1, <2>2, <2>3, WorkerPasses
<1>11. CASE OutputRead
  <2>1. worker'.pc = "send" /\ worker'.output = output
    BY <1>0, <1>11 DEF OutputRead, WorkerType, Workers
  <2>2. StreamIsKnown'
    BY <1>11, <2>1, StreamStaysKnown DEF OutputRead, OutputInv
  <2>3. OutputFollows'
    BY <1>1, <2>1 DEF OutputFollows, Sending
  <2> QED BY <2>2, <2>3 DEF OutputInv
<1>12. CASE OutputSend
  <2> USE <1>12 DEF OutputSend
  <2>1. child.alive /\ active.url /\ child.gen = active.gen
    BY DEF PlayerInv, LaunchesInSilence, Sending, OutputInv, StreamIsKnown
  <2>2. OutputPending' = OutputPending
    BY <1>1 DEF OutputPending, Pending
  <2>3. CASE child.ready /\ child' = [child EXCEPT !.output = worker.output] /\ Rest
    <3>1. /\ child'.alive = child.alive /\ child'.exited = child.exited
          /\ child'.gen = child.gen /\ child'.output = worker.output
      BY <1>0, <2>3 DEF WorkerType, Workers, Children
    <3>2. worker'.pc = "idle"
      BY <2>3 DEF Rest, IdleWorker, WorkOn
    <3>3. StreamIsKnown'
      BY <3>1, <3>2, StreamStaysKnown DEF OutputInv
    <3>4. ~shutting => OutputFollows'
      BY <1>1, <2>2, <3>1, <3>2 DEF OutputInv, OutputFollows
    <3> QED BY <1>1, <3>3, <3>4 DEF OutputInv
  <2>4. CASE UNCHANGED child /\ ~GenerationIsCurrent(active.gen) /\ Rest
    <3>1. worker'.pc = "idle"
      BY <2>4 DEF Rest, IdleWorker, WorkOn
    <3>2. StreamIsKnown'
      BY <2>4, <3>1, StreamStaysKnown DEF OutputInv
    <3>3. ~shutting => child'.gen # generation'
      BY <2>1, <2>4 DEF GenerationIsCurrent
    <3>4. ~shutting => OutputFollows'
      BY <3>1, <3>3 DEF OutputFollows
    <3> QED BY <1>1, <3>2, <3>4 DEF OutputInv
  <2>5. CASE /\ UNCHANGED child /\ active.url
             /\ worker' = [worker EXCEPT !.pc = "relaunch", !.relaunch = TRUE, !.gen = active.gen,
                                         !.track = active.track, !.paused = pauseRequested]
    <3>1. worker'.pc = "relaunch"
      BY <1>0, <2>5 DEF WorkerType, Workers
    <3>2. StreamIsKnown'
      BY <2>1, <2>5, <3>1, StreamStaysKnown DEF OutputInv
    <3>3. OutputFollows'
      BY <3>1 DEF OutputFollows, Sending
    <3> QED BY <3>2, <3>3 DEF OutputInv
  <2> QED BY <2>1, <2>3, <2>4, <2>5, Zenon
<1>13. CASE Relaunch
  <2>1. ~child'.alive /\ worker'.pc = "launch" /\ UNCHANGED active
    BY <1>0, <1>13, GotoFields, StoppedChild DEF Relaunch
  <2>2. active.url
    BY <1>13 DEF Relaunch, OutputInv, StreamIsKnown
  <2> QED BY <2>1, <2>2 DEF OutputInv, StreamIsKnown, OutputFollows
<1>14. CASE PollChild
  <2>1. ~child'.alive /\ worker'.pc = "exit"
    BY <1>14, StoppedChild DEF PollChild, WorkOn
  <2> QED BY <2>1, NothingToFollow
<1>15. CASE HandleChildExit
  <2>1. ~child'.alive
    BY <1>2, <1>15 DEF HandleChildExit, Silent, Launching
  <2>2. Rest \/ Goto("resolve") \/ Goto("error") \/ worker'.pc = "resolve"
    BY <1>0, <1>15 DEF HandleChildExit, AdvanceAfterNaturalEnd, WorkerType, Workers
  <2>3. worker'.pc \in {"idle", "resolve", "error"}
    BY <1>0, <2>2, GotoFields DEF Rest, IdleWorker, WorkOn
  <2> QED BY <2>1, <2>3, NothingToFollow
<1> QED BY <1>3, <1>4, <1>5, <1>6, <1>7, <1>8, <1>9, <1>10, <1>11, <1>12, <1>13, <1>14, <1>15, Zenon
    DEF Worker

(* The three together are inductive.                                       *)
LEMMA OutputInductive == Spec => []OutputInv
<1>1. Init => OutputInv
  <2> SUFFICES ASSUME Init PROVE OutputInv
    OBVIOUS
  <2>1. child.alive = FALSE /\ worker.pc = "idle"
    BY DEF Init, NoChild, IdleWorker, WorkOn
  <2> QED BY <2>1 DEF OutputInv, StreamIsKnown, OutputFollows
<1>2. TypeOK /\ PlayerInv /\ OutputInv /\ [Next]_vars => OutputInv'
  <2> SUFFICES ASSUME TypeOK, PlayerInv, OutputInv, [Next]_vars PROVE OutputInv'
    OBVIOUS
  <2>1. ASSUME NEW t \in Callers, CallerStep(t) PROVE OutputInv'
    BY <2>1, CallerStepOutput
  <2>2. CASE Worker
    BY <2>2, WorkerStepOutput
  <2>3. CASE Shutdown
    <3>1. UNCHANGED <<worker, active, child>> /\ shutting'
      BY <2>3 DEF Shutdown, childVars
    <3> QED BY <3>1, StreamStaysKnown DEF OutputInv
  <2>4. CASE ChildReady \/ ChildExits \/ UNCHANGED vars
    <3>1. UNCHANGED <<output, generation, shutting, commands, hand, worker, active>>
      BY <2>4 DEF ChildReady, ChildExits, Mpv, vars, snapshotVars, queueVars, callerVars
    <3>2. /\ child'.alive = child.alive /\ child'.gen = child.gen /\ child'.output = child.output
          /\ child.exited => child'.exited
      BY <2>4 DEF ChildReady, ChildExits, vars, childVars, TypeOK, WorkerType, Children
    <3>3. StreamIsKnown'
      BY <3>1, <3>2, StreamStaysKnown DEF OutputInv
    <3>4. OutputPending' = OutputPending
      BY <3>1 DEF OutputPending, Pending
    <3>5. ~shutting => OutputFollows'
      BY <3>1, <3>2, <3>4, OutputStillFollows DEF OutputInv
    <3> QED BY <3>1, <3>3, <3>5 DEF OutputInv
  <2> QED BY <2>1, <2>2, <2>3, <2>4 DEF Next
<1> QED BY <1>1, <1>2, Inductive, PTL DEF Spec

(* Once every request has been handled the process that is left has the    *)
(* last volume asked for, whenever it was changed: before the fork, while  *)
(* an earlier change was sent or while the process could not be reached.   *)
THEOREM OutputSettlesHolds == Spec => []OutputSettles
<1>1. TypeOK /\ PlayerInv /\ OutputInv /\ HeardIsShown => OutputSettles
  <2> SUFFICES ASSUME TypeOK, OutputInv, HeardIsShown, Quiescent, child.alive
               PROVE  child.output = output
    BY DEF OutputSettles
  <2>1. ~OutputPending
    BY OutputCommand DEF Quiescent, OutputPending, Pending
  <2>2. ~shutting /\ ~child.exited /\ worker.pc \notin Sending
    BY DEF Quiescent, At, Sending
  <2>3. child.gen = generation
    BY DEF HeardIsShown
  <2> QED BY <2>1, <2>2, <2>3 DEF OutputInv, OutputFollows
<1> QED BY <1>1, Inductive, OutputInductive, HeardIsShownHolds, PTL

-----------------------------------------------------------------------------
(* Pauses: with one caller at a time the queue keeps the order of the      *)
(* calls, and what follows the last Load or stop asks for what is shown.   *)

(* The commands that decide about pauses are told apart by their types.    *)
LEMMA PauseCommands ==
  /\ ~IsPause(NoCommand) /\ ~EndsStaleWork(NoCommand)
  /\ ~IsPause(Plain("ApplyOutput")) /\ ~EndsStaleWork(Plain("ApplyOutput"))
  /\ EndsStaleWork(Plain("StopProcess"))
  /\ \A track : EndsStaleWork(Load(generation, track))
  /\ AsksForIt(Plain(IF pauseRequested THEN "Pause" ELSE "Resume"))
  /\ IsPause(Plain(IF pauseRequested THEN "Pause" ELSE "Resume"))
  /\ \A cmd : IsPause(cmd) => ~EndsStaleWork(cmd) /\ cmd.type # "ApplyOutput"
BY DEF IsPause, AsksForIt, EndsStaleWork, NoCommand, Plain, Load

(* A call makes a new request, hands over a pause or a resume that it has  *)
(* shown, or neither.                                                      *)
LEMMA CallKinds ==
  ASSUME TypeOK, NEW t \in Callers, CallerStep(t), ~Enqueue(t)
  PROVE  \/ Hand(t, Plain("StopProcess"))
         \/ \E track : Hand(t, Load(generation', track))
         \/ Hand(t, Plain(IF pauseRequested' THEN "Pause" ELSE "Resume"))
         \/ /\ UNCHANGED <<generation, pauseRequested>>
            /\ UNCHANGED hand \/ Hand(t, Plain("ApplyOutput"))
<1> DEFINE Kinds == \/ Hand(t, Plain("StopProcess"))
                    \/ \E track : Hand(t, Load(generation', track))
                    \/ Hand(t, Plain(IF pauseRequested' THEN "Pause" ELSE "Resume"))
                    \/ /\ UNCHANGED <<generation, pauseRequested>>
                       /\ UNCHANGED hand \/ Hand(t, Plain("ApplyOutput"))
<1> SUFFICES Kinds
  OBVIOUS
<1>1. ASSUME NEW q \in Playlists, NEW start \in DOMAIN q, PlayQueue(t, q, start) PROVE Kinds
  BY <1>1, Zenon DEF PlayQueue
<1>2. CASE Stop(t)
  BY <1>2, Zenon DEF Stop
<1>3. CASE Pause(t)
  BY <1>3 DEF Pause
<1>4. CASE Resume(t)
  BY <1>4 DEF Resume
<1>5. CASE NextTrack(t)
  BY <1>5, Zenon DEF NextTrack, SelectIndexLocked
<1>6. CASE SeekTo(t)
  BY <1>6, Zenon DEF SeekTo
<1>7. CASE SelectIndex(t)
  BY <1>7, Zenon DEF SelectIndex, SelectIndexLocked
<1>8. ASSUME NEW o \in Outputs, SetVolume(t, o) PROVE Kinds
  BY <1>8, Zenon DEF SetVolume
<1>9. CASE Toggle(t) \/ Previous(t)
  <2>1. \E kind, i : Decide(t, kind, i) BY <1>9, Zenon DEF Toggle, Previous
  <2> QED BY <2>1, Zenon DEF Decide
<1> HIDE DEF Kinds
<1> QED BY <1>1, <1>2, <1>3, <1>4, <1>5, <1>6, <1>7, <1>8, <1>9, Zenon DEF CallerStep, Public

(* The only caller turns to a command: it holds that one and no other.     *)
LEMMA OnlyHand ==
  ASSUME TypeOK, Undisturbed, NEW t \in Callers, NEW cmd, Hand(t, cmd)
  PROVE  hand'[t] = cmd /\ \A u \in Callers : hand'[u] = cmd
BY DEF Hand, TypeOK, CallerType, Undisturbed

LEMMA CallPauses ==
  ASSUME TypeOK, Undisturbed, PauseInv, NEW t \in Callers, CallerStep(t), ~Enqueue(t)
  PROVE  PauseInv'
<1>1. /\ hand[t] = NoCommand /\ UNCHANGED <<commands, shutting, worker, active, child>>
      /\ UNCHANGED <<arrivals, signalStopped>>
  <2>1. UNCHANGED <<arrivals, signalStopped>>
    BY Zenon DEF CallerStep, Public, PlayQueue, Stop, Pause, Resume, NextTrack, SeekTo, SelectIndex, SetVolume,
                 Toggle, Previous, Decide, queueVars, childVars
  <2> QED BY <2>1, CallerChanges
<1>2. SocketIsUp' /\ \A c \in commands' : c.at <= arrivals'
  BY <1>1 DEF PauseInv, SocketIsUp
<1>3. CASE Hand(t, Plain("StopProcess"))
  <2>1. EndsStaleWork(Plain("StopProcess"))'
    BY PauseCommands, PTL DEF EndsStaleWork, Plain
  <2> QED BY <1>2, <1>3, <2>1, OnlyHand DEF PauseInv, PauseFollows
<1>4. ASSUME NEW track, Hand(t, Load(generation', track)) PROVE PauseInv'
  <2>1. EndsStaleWork(hand[t])'
    BY <1>4, OnlyHand DEF EndsStaleWork, Load
  <2> QED BY <1>2, <2>1 DEF PauseInv, PauseFollows
<1>5. CASE Hand(t, Plain(IF pauseRequested' THEN "Pause" ELSE "Resume"))
  <2>1. \A u \in Callers : IsPause(hand'[u]) /\ AsksForIt(hand[u])'
    BY <1>5, OnlyHand DEF IsPause, AsksForIt, Plain
  <2>2. PauseIsHanded'
    BY <2>1 DEF PauseIsHanded, IsPause
  <2> QED BY <1>2, <2>1, <2>2 DEF PauseInv, PauseFollows
<1>6. CASE /\ UNCHANGED <<generation, pauseRequested>>
           /\ UNCHANGED hand \/ Hand(t, Plain("ApplyOutput"))
  <2>1. \A u \in Callers : hand[u] = NoCommand
    BY <1>1 DEF Undisturbed
  <2>2. \A u \in Callers : hand'[u] \in {NoCommand, Plain("ApplyOutput")}
    BY <1>6, <2>1, OnlyHand
  <2>3. ~PauseIsHanded /\ ~PauseIsHanded'
    BY <2>1, <2>2, PauseCommands DEF PauseIsHanded, IsPause
  <2>4. \A cmd : /\ EndsStaleWork(cmd)' <=> EndsStaleWork(cmd)
                 /\ AsksForIt(cmd)' <=> AsksForIt(cmd)
    BY <1>6 DEF EndsStaleWork, AsksForIt
  <2>5. ~\E u \in Callers : EndsStaleWork(hand[u])
    BY <2>1, PauseCommands
  <2>6. ASSUME NEW c \in commands, EndsAllBut(c) PROVE EndsAllBut(c)'
    BY <1>1, <2>4, <2>6 DEF EndsAllBut, IsPause
  <2>7. PauseIsApplied => PauseIsApplied'
    BY <1>1, <1>6 DEF PauseIsApplied
  <2>8. PauseIsQueued => PauseIsQueued'
    BY <1>1 DEF PauseIsQueued, IsPause
  <2>9. (\A p \in commands : IsPause(p.cmd) => AsksForIt(p.cmd)) =>
        (\A p \in commands' : IsPause(p.cmd)' => AsksForIt(p.cmd)')
    BY <1>1, <2>4 DEF IsPause
  <2>10. PauseFollows => PauseFollows'
    BY <1>1, <2>3, <2>5, <2>6, <2>7, <2>8, <2>9 DEF PauseFollows
  <2> QED BY <1>1, <1>2, <2>10 DEF PauseInv
<1> QED BY <1>3, <1>4, <1>5, <1>6, CallKinds, Zenon

(* What is enqueued comes after everything that is pending.                *)
LEMMA EnqueuePauses ==
  ASSUME TypeOK, Undisturbed, PauseInv, NEW t \in Callers, Enqueue(t)
  PROVE  PauseInv'
<1> DEFINE kept == Coalesced(hand[t])
           new  == [cmd |-> hand[t], at |-> arrivals']
<1>0. arrivals \in Nat /\ commands \subseteq [cmd : Commands, at : Nat]
  BY DEF TypeOK, CallerType
<1>1. UNCHANGED <<pauseRequested, generation, shutting, worker, child, signalStopped>>
  BY DEF Enqueue, childVars
<1>2. SocketIsUp'
  BY <1>1 DEF PauseInv, SocketIsUp
<1>3. CASE shutting /\ UNCHANGED queueVars
  BY <1>1, <1>2, <1>3 DEF PauseInv, queueVars
<1>4. CASE arrivals' = (IF kept = {} THEN 1 ELSE arrivals + 1) /\ commands' = kept \cup {new}
  <2>1. \A p \in kept : p \in commands /\ p.at < arrivals' /\ p.at <= arrivals /\ p.at \in Nat
    BY <1>0, <1>4 DEF Coalesced, PauseInv
  <2>2. arrivals' \in Nat /\ new.at = arrivals' /\ new.cmd = hand[t]
    BY <1>0, <1>4
  <2>3. \A c \in commands' : c.at <= arrivals'
    BY <1>4, <2>1, <2>2
  <2>4. \A u \in Callers : u = t /\ hand'[u] = NoCommand
    BY DEF Enqueue, Undisturbed, TypeOK, CallerType
  <2>5. ~PauseIsHanded'
    BY <2>4, PauseCommands DEF PauseIsHanded, IsPause
  <2>6. \A cmd : /\ EndsStaleWork(cmd)' <=> EndsStaleWork(cmd)
                 /\ AsksForIt(cmd)' <=> AsksForIt(cmd)
                 /\ IsPause(cmd)' <=> IsPause(cmd)
    BY <1>1 DEF EndsStaleWork, AsksForIt, IsPause
  <2> HIDE DEF kept, new
  <2>7. CASE EndsStaleWork(hand[t])
    <3>1. ~IsPause(new.cmd) /\ EndsStaleWork(new.cmd)
      BY <2>2, <2>7, PauseCommands
    <3>2. \A p \in commands' : p = new \/ p.at < new.at
      BY <1>4, <2>1, <2>2
    <3>3. \A p \in commands' : IsPause(p.cmd) => ~(p.at >= new.at)
      BY <1>4, <2>1, <2>2, <3>1, <3>2
    <3>4. \E c \in commands' : /\ EndsStaleWork(c.cmd)'
                               /\ \A p \in commands' : IsPause(p.cmd)' /\ p.at >= c.at => AsksForIt(p.cmd)'
      <4>1. new \in commands' BY <1>4
      <4> QED BY <2>6, <3>1, <3>3, <4>1
    <3>5. (\E c \in commands : EndsAllBut(c))'
      BY <3>4 DEF EndsAllBut
    <3> QED BY <1>2, <2>3, <2>5, <3>5 DEF PauseInv, PauseFollows
  <2>8. CASE IsPause(hand[t])
    <3>1. ~shutting => AsksForIt(hand[t])
      <4>1. PauseIsHanded /\ ~\E u \in Callers : EndsStaleWork(hand[u])
        BY <2>4, <2>8, PauseCommands DEF PauseIsHanded
      <4> QED BY <2>8, <4>1 DEF PauseInv, PauseFollows
    <3>2. \A p \in kept : ~IsPause(p.cmd)
      BY <2>8 DEF kept, Coalesced, Replaces, IsPause
    <3>3. ~shutting => \A p \in commands' : IsPause(p.cmd)' => AsksForIt(p.cmd)'
      BY <1>4, <2>2, <2>6, <3>1, <3>2
    <3>4. PauseIsQueued'
      BY <1>4, <2>2, <2>6, <2>8 DEF PauseIsQueued
    <3> QED BY <1>1, <1>2, <2>3, <2>5, <3>3, <3>4 DEF PauseInv, PauseFollows
  <2>9. CASE ~EndsStaleWork(hand[t]) /\ ~IsPause(hand[t])
    <3>1. \A p \in commands : IsPause(p.cmd) \/ EndsStaleWork(p.cmd) => p \in commands'
      BY <1>4, <2>9 DEF kept, Coalesced, Replaces, IsPause, EndsStaleWork
    <3>2. \A p \in commands' : IsPause(p.cmd) => p \in commands
      BY <1>4, <2>1, <2>2, <2>9
    <3>3. ~PauseIsHanded /\ ~\E u \in Callers : EndsStaleWork(hand[u])
      BY <2>4, <2>9 DEF PauseIsHanded
    <3>4. ASSUME NEW c \in commands, EndsAllBut(c) PROVE c \in commands' /\ EndsAllBut(c)'
      BY <2>6, <3>1, <3>2, <3>4 DEF EndsAllBut
    <3>5. (\A p \in commands : IsPause(p.cmd) => AsksForIt(p.cmd)) =>
          (\A p \in commands' : IsPause(p.cmd)' => AsksForIt(p.cmd)')
      BY <2>6, <3>2
    <3>6. PauseIsQueued => PauseIsQueued'
      BY <2>6, <3>1 DEF PauseIsQueued
    <3>7. PauseIsApplied => PauseIsApplied'
      BY <1>1 DEF PauseIsApplied
    <3>8. PauseFollows => PauseFollows'
      BY <2>5, <3>3, <3>4, <3>5, <3>6, <3>7 DEF PauseFollows
    <3> QED BY <1>1, <1>2, <2>3, <3>8 DEF PauseInv
  <2> QED BY <2>7, <2>8, <2>9
<1> QED BY <1>3, <1>4 DEF Enqueue

(* A popped command is the oldest: when it ends all but what is newer, the *)
(* rest asks for what is requested, and a pause is asked of the process.   *)
LEMMA WorkerPopPauses ==
  ASSUME TypeOK, Undisturbed, PauseInv, WorkerPop
  PROVE  PauseInv'
<1> USE DEF WorkerPop, CallerStateFrame, WorkerFrame, snapshotVars, callerVars, childVars
<1>0. WorkerType /\ commands \subseteq [cmd : Commands, at : Nat] /\ worker.pc = "idle"
  BY DEF TypeOK, CallerType, At
<1>1. PICK c \in commands : /\ \A d \in commands : c.at <= d.at
                            /\ commands' = commands \ {c} /\ UNCHANGED arrivals
                            /\ HandleCommand(c.cmd)
  OBVIOUS
<1>2. UNCHANGED <<pauseRequested, generation, shutting, hand>>
  OBVIOUS
<1>3. \A cmd : /\ EndsStaleWork(cmd)' <=> EndsStaleWork(cmd)
               /\ AsksForIt(cmd)' <=> AsksForIt(cmd)
               /\ IsPause(cmd)' <=> IsPause(cmd)
  BY <1>2 DEF EndsStaleWork, AsksForIt, IsPause
<1>4. PauseIsHanded' <=> PauseIsHanded
  BY <1>2 DEF PauseIsHanded, IsPause
<1>5. worker'.pc \in {"idle", "adopt", "output", "sigstop", "exited"}
  BY <1>0, <1>1, GotoFields
     DEF HandleCommand, HandleLoad, PauseChild, ResumeChild, Rest, IdleWorker, WorkOn
<1>6. SocketIsUp'
  <2>1. CASE StopChild /\ worker'.pc # "sigstop"
    BY <2>1, StoppedChild DEF SocketIsUp
  <2>2. CASE UNCHANGED childVars /\ worker'.pc # "sigstop"
    BY <2>2 DEF PauseInv, SocketIsUp
  <2>3. CASE PauseChild
    <3>1. CASE child.alive /\ ~child.ready /\ Goto("sigstop") /\ UNCHANGED childVars
      BY <3>1 DEF PauseInv, SocketIsUp
    <3>2. CASE Rest /\ (UNCHANGED childVars \/ (child' = [child EXCEPT !.paused = TRUE] /\ signalStopped' = FALSE))
      BY <1>0, <3>2 DEF PauseInv, SocketIsUp, Rest, IdleWorker, WorkOn, WorkerType, Children
    <3> QED BY <2>3, <3>1, <3>2, Zenon DEF PauseChild
  <2>4. CASE ResumeChild
    BY <1>0, <2>4 DEF PauseInv, SocketIsUp, ResumeChild, Rest, IdleWorker, WorkOn, WorkerType, Children
  <2>5. "idle" # "sigstop" /\ "adopt" # "sigstop" /\ "output" # "sigstop" /\ "exited" # "sigstop"
    OBVIOUS
  <2> QED BY <1>0, <1>1, <2>1, <2>2, <2>3, <2>4, <2>5, GotoFields
          DEF HandleCommand, HandleLoad, Rest, IdleWorker, WorkOn
<1>7. \A d \in commands' : d.at <= arrivals'
  BY <1>1 DEF PauseInv
<1>8. SUFFICES ASSUME ~shutting, PauseFollows PROVE PauseFollows'
  BY <1>2, <1>6, <1>7 DEF PauseInv
<1>9. CASE \E t \in Callers : EndsStaleWork(hand[t])
  BY <1>2, <1>3, <1>9 DEF PauseFollows
<1>10. CASE PauseIsHanded /\ \A t \in Callers : IsPause(hand[t]) => AsksForIt(hand[t])
  BY <1>2, <1>3, <1>4, <1>10 DEF PauseFollows
<1>11. ASSUME NEW d \in commands, EndsAllBut(d), d # c, ~PauseIsHanded PROVE PauseFollows'
  <2>1. d \in commands' /\ EndsAllBut(d)'
    BY <1>1, <1>3, <1>11 DEF EndsAllBut
  <2> QED BY <1>4, <1>11, <2>1 DEF PauseFollows
<1>12. CASE EndsAllBut(c) /\ ~PauseIsHanded
  <2>1. \A p \in commands' : IsPause(p.cmd)' => AsksForIt(p.cmd)'
    BY <1>0, <1>1, <1>3, <1>12 DEF EndsAllBut
  <2>2. ~child'.alive
    BY <1>1, <1>8, <1>12, StoppedChild DEF EndsAllBut, EndsStaleWork, HandleCommand, HandleLoad, GenerationIsCurrent
  <2>3. PauseIsApplied'
    BY <1>5, <2>2 DEF PauseIsApplied
  <2> QED BY <1>4, <1>12, <2>1, <2>3 DEF PauseFollows
<1>13. CASE /\ ~PauseIsHanded /\ \A p \in commands : IsPause(p.cmd) => AsksForIt(p.cmd)
            /\ PauseIsQueued \/ PauseIsApplied
  <2>1. \A p \in commands' : IsPause(p.cmd)' => AsksForIt(p.cmd)'
    BY <1>1, <1>3, <1>13
  <2>2. CASE IsPause(c.cmd)
    <3>1. c.cmd.type = (IF pauseRequested THEN "Pause" ELSE "Resume") /\ pauseRequested \in BOOLEAN
      BY <1>13, <2>2 DEF AsksForIt, TypeOK, SnapshotType
    <3>2. CASE pauseRequested
      <4>1. PauseChild BY <1>1, <3>1, <3>2 DEF HandleCommand
      <4>2. child'.alive /\ ~child'.exited => child'.paused
        BY <1>0, <4>1 DEF PauseChild, PauseInv, SocketIsUp, WorkerType, Children
      <4>3. child'.paused \in BOOLEAN
        BY <1>0, <4>1 DEF PauseChild, WorkerType, Children
      <4> QED BY <1>2, <1>4, <1>5, <1>13, <2>1, <3>1, <3>2, <4>2, <4>3 DEF PauseIsApplied, PauseFollows
    <3>3. CASE ~pauseRequested
      <4>1. ResumeChild BY <1>1, <3>1, <3>3 DEF HandleCommand
      <4>2. child'.alive /\ ~child'.exited => ~child'.paused
        BY <1>0, <4>1 DEF ResumeChild, PauseInv, SocketIsUp, WorkerType, Children
      <4>3. child'.paused \in BOOLEAN
        BY <1>0, <4>1 DEF ResumeChild, WorkerType, Children
      <4> QED BY <1>2, <1>4, <1>5, <1>13, <2>1, <3>1, <3>3, <4>2, <4>3 DEF PauseIsApplied, PauseFollows
    <3> QED BY <3>2, <3>3
  <2>3. CASE ~IsPause(c.cmd)
    <3>1. PauseIsQueued => PauseIsQueued'
      BY <1>1, <1>3, <2>3 DEF PauseIsQueued
    <3>2. ~child'.alive \/ UNCHANGED child
      BY <1>1, <2>3, StoppedChild DEF IsPause, HandleCommand, HandleLoad
    <3>3. PauseIsApplied => PauseIsApplied'
      BY <1>2, <1>5, <3>2 DEF PauseIsApplied
    <3> QED BY <1>4, <1>13, <2>1, <3>1, <3>3 DEF PauseFollows
  <2> QED BY <2>2, <2>3
<1> QED BY <1>8, <1>9, <1>10, <1>11, <1>12, <1>13 DEF PauseFollows

(* A step of the worker that leaves the queue alone need only keep process *)
(* and copy as they are.                                                   *)
LEMMA PauseStillFollows ==
  ASSUME PauseInv, SocketIsUp', PauseIsApplied => PauseIsApplied',
         UNCHANGED <<pauseRequested, generation, shutting, commands, arrivals, hand>>
  PROVE  PauseInv'
<1>1. \A cmd : /\ EndsStaleWork(cmd)' <=> EndsStaleWork(cmd)
               /\ AsksForIt(cmd)' <=> AsksForIt(cmd)
               /\ IsPause(cmd)' <=> IsPause(cmd)
  BY DEF EndsStaleWork, AsksForIt, IsPause
<1>2. PauseIsHanded' <=> PauseIsHanded
  BY DEF PauseIsHanded, IsPause
<1>3. PauseIsQueued' <=> PauseIsQueued
  BY DEF PauseIsQueued, IsPause
<1>4. \A c \in commands : EndsAllBut(c)' <=> EndsAllBut(c)
  BY <1>1 DEF EndsAllBut
<1>5. PauseFollows => PauseFollows'
  BY <1>1, <1>2, <1>3, <1>4 DEF PauseFollows
<1> QED BY <1>5 DEF PauseInv

(* Steps that leave the process alone, or stop it, and give nothing new to *)
(* a launch.                                                               *)
LEMMA PauseUntouched ==
  ASSUME TypeOK, PauseInv,
         UNCHANGED <<pauseRequested, generation, shutting, commands, arrivals, hand>>,
         UNCHANGED childVars \/ (~child'.alive /\ worker.pc # "sigstop"),
         worker'.pc # "sigstop",
         worker'.pc \in {"buffering", "launch", "fork", "relaunch"} =>
           /\ worker.pc \in {"buffering", "launch", "fork", "relaunch"}
           /\ worker'.paused = worker.paused
  PROVE  PauseInv'
<1>1. SocketIsUp'
  BY DEF PauseInv, SocketIsUp, childVars
<1>2. PauseIsApplied => PauseIsApplied'
  BY DEF PauseIsApplied, childVars
<1> QED BY <1>1, <1>2, PauseStillFollows

(* What the worker launches is paused as was requested when the stream was *)
(* known, and what was requested since is in the queue.                    *)
LEMMA WorkerStepPauses ==
  ASSUME TypeOK, PlayerInv, Undisturbed, PauseInv, Worker, ~WorkerPop
  PROVE  PauseInv'
<1> USE DEF CallerStateFrame, WorkerFrame, snapshotVars, callerVars, queueVars, At
<1>0. WorkerType /\ pauseRequested \in BOOLEAN
  BY DEF TypeOK, SnapshotType
<1>1. UNCHANGED <<shutting, commands, arrivals, hand>>
  BY DEF Worker, Adopt, Resolve, PublishResolving, Fetched, PublishBuffering, LaunchReadsOutput,
         LaunchChild, VerifyLaunch, PublishLaunched, PublishError, SignalStop, OutputRead, OutputSend,
         Relaunch, PollChild, HandleChildExit
<1>2. worker.pc \in Silent => ~child.alive
  BY DEF PlayerInv, LaunchesInSilence
<1>3. CASE Adopt \/ Resolve \/ PublishResolving \/ PublishError \/ PublishLaunched
  <2>1. UNCHANGED childVars /\ UNCHANGED <<pauseRequested, generation>>
    BY <1>3, Zenon DEF Adopt, Resolve, PublishResolving, PublishError, PublishLaunched
  <2>2. Rest \/ Goto("resolve") \/ Goto("fetch") \/ Goto("resolving")
    BY <1>3, Zenon DEF Adopt, Resolve, PublishResolving, PublishError, PublishLaunched
  <2>3. worker'.pc \in {"idle", "resolve", "fetch", "resolving"}
    BY <1>0, <2>2, GotoFields DEF Rest, IdleWorker, WorkOn
  <2> QED BY <1>1, <2>1, <2>3, PauseUntouched
<1>4. CASE Fetched
  <2>1. ~child'.alive /\ UNCHANGED childVars /\ UNCHANGED <<pauseRequested, generation>>
    BY <1>2, <1>4 DEF Fetched, Silent, Launching, childVars
  <2>2. CASE Rest \/ Goto("error")
    <3>1. worker'.pc \in {"idle", "error"}
      BY <1>0, <2>2, GotoFields DEF Rest, IdleWorker, WorkOn
    <3> QED BY <1>1, <2>1, <3>1, PauseUntouched
  <2>3. CASE worker' = [worker EXCEPT !.pc = IF pauseRequested THEN "launch" ELSE "buffering",
                                      !.paused = pauseRequested]
    <3>1. worker'.pc \in {"launch", "buffering"} /\ worker'.paused = pauseRequested
      BY <1>0, <2>3 DEF WorkerType, Workers
    <3>2. SocketIsUp' /\ PauseIsApplied'
      BY <2>1, <3>1 DEF SocketIsUp, PauseIsApplied
    <3> QED BY <1>1, <2>1, <3>2, PauseStillFollows
  <2> QED BY <1>4, <2>2, <2>3, Zenon DEF Fetched
<1>5. CASE PublishBuffering
  <2>1. worker'.pc = "launch" /\ worker'.paused = worker.paused
    BY <1>0, <1>5 DEF PublishBuffering, Goto, WorkerType, Workers
  <2> QED BY <1>1, <1>5, <2>1, PauseUntouched DEF PublishBuffering
<1>6. CASE LaunchReadsOutput
  <2>1. worker'.pc = "fork" /\ worker'.paused = worker.paused
    BY <1>0, <1>6 DEF LaunchReadsOutput, WorkerType, Workers
  <2> QED BY <1>1, <1>6, <2>1, PauseUntouched DEF LaunchReadsOutput
<1>7. CASE LaunchChild
  <2>1. CASE Goto("error") /\ UNCHANGED childVars
    <3>1. worker'.pc = "error"
      BY <1>0, <2>1, GotoFields
    <3> QED BY <1>1, <1>7, <2>1, <3>1, PauseUntouched DEF LaunchChild
  <2>2. CASE ~(Goto("error") /\ UNCHANGED childVars)
    <3>1. /\ child'.ready /\ ~child'.exited /\ ~child'.stopped /\ ~signalStopped'
          /\ child'.paused = worker.paused
      <4>1. PICK up \in BootStates :
              child' = [alive |-> TRUE, exited |-> FALSE, gen |-> worker.gen, track |-> worker.track,
                        output |-> worker.output, paused |-> worker.paused, stopped |-> FALSE, ready |-> up]
        BY <1>7, <2>2 DEF LaunchChild
      <4>2. up = TRUE BY DEF Undisturbed
      <4>3. signalStopped' = FALSE BY <1>7, <2>2 DEF LaunchChild
      <4> QED BY <4>1, <4>2, <4>3
    <3>2. worker'.pc \in {"launched", "verify"}
      BY <1>0, <1>7, <2>2, GotoFields DEF LaunchChild
    <3>3. SocketIsUp' /\ (PauseIsApplied => PauseIsApplied')
      BY <1>7, <3>1, <3>2 DEF LaunchChild, SocketIsUp, PauseIsApplied
    <3> QED BY <1>1, <1>7, <3>3, PauseStillFollows DEF LaunchChild
  <2> QED BY <2>1, <2>2
<1>8. CASE VerifyLaunch
  <2>1. CASE GenerationIsCurrent(worker.gen)
    <3>1. worker'.pc = "launched"
      BY <1>0, <1>8, <2>1, GotoFields DEF VerifyLaunch
    <3> QED BY <1>1, <1>8, <2>1, <3>1, PauseUntouched DEF VerifyLaunch
  <2>2. CASE ~GenerationIsCurrent(worker.gen)
    <3>1. ~child'.alive /\ worker'.pc = "idle"
      BY <1>8, <2>2, StoppedChild DEF VerifyLaunch, Rest, IdleWorker, WorkOn
    <3> QED BY <1>1, <1>8, <3>1, PauseUntouched DEF VerifyLaunch
  <2> QED BY <2>1, <2>2
<1>9. CASE SignalStop
  <2>1. child'.exited /\ worker'.pc = "idle"
    BY <1>0, <1>9 DEF SignalStop, PauseInv, SocketIsUp, Rest, IdleWorker, WorkOn, WorkerType, Children
  <2>2. SocketIsUp' /\ PauseIsApplied'
    BY <2>1 DEF SocketIsUp, PauseIsApplied
  <2> QED BY <1>1, <1>9, <2>2, PauseStillFollows DEF SignalStop
<1>10. CASE OutputRead
  <2>1. worker'.pc = "send"
    BY <1>0, <1>10 DEF OutputRead, WorkerType, Workers
  <2> QED BY <1>1, <1>10, <2>1, PauseUntouched DEF OutputRead
<1>11. CASE OutputSend
  <2>1. CASE child' = [child EXCEPT !.output = worker.output] /\ Rest
    <3>1. /\ child'.alive = child.alive /\ child'.exited = child.exited /\ child'.ready = child.ready
          /\ child'.stopped = child.stopped /\ child'.paused = child.paused
      BY <1>0, <2>1 DEF WorkerType, Workers, Children
    <3>2. worker'.pc = "idle"
      BY <2>1 DEF Rest, IdleWorker, WorkOn
    <3>3. SocketIsUp' /\ (PauseIsApplied => PauseIsApplied')
      BY <1>11, <3>1, <3>2 DEF OutputSend, PauseInv, SocketIsUp, PauseIsApplied
    <3> QED BY <1>1, <1>11, <3>3, PauseStillFollows DEF OutputSend
  <2>2. CASE UNCHANGED child /\ Rest
    <3>1. worker'.pc = "idle"
      BY <2>2 DEF Rest, IdleWorker, WorkOn
    <3> QED BY <1>1, <1>11, <2>2, <3>1, PauseUntouched DEF OutputSend, childVars
  <2>3. CASE /\ UNCHANGED child
             /\ worker' = [worker EXCEPT !.pc = "relaunch", !.relaunch = TRUE, !.gen = active.gen,
                                         !.track = active.track, !.paused = pauseRequested]
    <3>1. worker'.pc = "relaunch" /\ worker'.paused = pauseRequested
      BY <1>0, <2>3 DEF WorkerType, Workers
    <3>2. SocketIsUp' /\ (PauseIsApplied => PauseIsApplied')
      BY <1>11, <2>3, <3>1 DEF OutputSend, PauseInv, SocketIsUp, PauseIsApplied
    <3> QED BY <1>1, <1>11, <3>2, PauseStillFollows DEF OutputSend
  <2> QED BY <1>11, <2>1, <2>2, <2>3, Zenon DEF OutputSend
<1>12. CASE Relaunch
  <2>1. ~child'.alive /\ worker'.pc = "launch" /\ worker'.paused = worker.paused
    BY <1>0, <1>12, StoppedChild DEF Relaunch, Goto, WorkerType, Workers
  <2> QED BY <1>1, <1>12, <2>1, PauseUntouched DEF Relaunch
<1>13. CASE PollChild
  <2>1. ~child'.alive /\ worker'.pc = "exit"
    BY <1>13, StoppedChild DEF PollChild, WorkOn
  <2> QED BY <1>1, <1>13, <2>1, PauseUntouched DEF PollChild
<1>14. CASE HandleChildExit
  <2>1. UNCHANGED childVars /\ UNCHANGED <<pauseRequested, generation>>
    BY <1>14, Zenon DEF HandleChildExit, Undisturbed
  <2>2. Rest \/ Goto("resolve") \/ Goto("error")
    BY <1>14, Zenon DEF HandleChildExit, Undisturbed
  <2>3. worker'.pc \in {"idle", "resolve", "error"}
    BY <1>0, <2>2, GotoFields DEF Rest, IdleWorker, WorkOn
  <2> QED BY <1>1, <2>1, <2>3, PauseUntouched
<1> QED BY <1>3, <1>4, <1>5, <1>6, <1>7, <1>8, <1>9, <1>10, <1>11, <1>12, <1>13, <1>14, Zenon
    DEF Worker

(* One caller at a time, a socket that is up at once, no natural end: once *)
(* every request has been handled, the process is paused exactly when a    *)
(* pause is requested, however pauses and loads were coalesced.            *)
THEOREM PauseAgreesHolds == ASSUME Undisturbed PROVE Spec => []PauseAgrees
<1>1. Init => PauseInv
  <2> SUFFICES ASSUME Init PROVE PauseInv
    OBVIOUS
  <2>1. child.alive = FALSE /\ worker.pc = "idle" /\ commands = {}
    BY DEF Init, NoChild, IdleWorker, WorkOn
  <2>2. ~PauseIsHanded
    BY PauseCommands DEF Init, PauseIsHanded
  <2> QED BY <2>1, <2>2 DEF PauseInv, SocketIsUp, PauseFollows, PauseIsApplied
<1>2. TypeOK /\ PlayerInv /\ PauseInv /\ [Next]_vars => PauseInv'
  <2> SUFFICES ASSUME TypeOK, PlayerInv, PauseInv, [Next]_vars PROVE PauseInv'
    OBVIOUS
  <2>1. ASSUME NEW t \in Callers, CallerStep(t) PROVE PauseInv'
    BY <2>1, CallPauses, EnqueuePauses
  <2>2. CASE Worker
    BY <2>2, WorkerPopPauses, WorkerStepPauses
  <2>3. CASE Shutdown
    <3>1. UNCHANGED <<worker, child, signalStopped>> /\ shutting' /\ \A c \in commands' : c.at <= arrivals'
      BY <2>3 DEF Shutdown, childVars
    <3> QED BY <3>1 DEF PauseInv, SocketIsUp
  <2>4. CASE ChildReady \/ ChildExits \/ UNCHANGED vars
    <3>1. UNCHANGED <<pauseRequested, generation, shutting, commands, arrivals, hand, worker, signalStopped>>
      BY <2>4 DEF ChildReady, ChildExits, Mpv, vars, queueVars, callerVars, childVars
    <3>2. /\ child'.alive = child.alive /\ child'.stopped = child.stopped /\ child'.paused = child.paused
          /\ child.exited => child'.exited
          /\ ~child'.exited /\ child.ready => child'.ready
      BY <2>4 DEF ChildReady, ChildExits, vars, childVars, TypeOK, WorkerType, Children
    <3>3. SocketIsUp' /\ (PauseIsApplied => PauseIsApplied')
      BY <3>1, <3>2 DEF PauseInv, SocketIsUp, PauseIsApplied
    <3> QED BY <3>1, <3>3, PauseStillFollows
  <2> QED BY <2>1, <2>2, <2>3, <2>4 DEF Next
<1>3. TypeOK /\ PauseInv => PauseAgrees
  <2> SUFFICES ASSUME TypeOK, PauseInv, Quiescent, child.alive PROVE Audible <=> ~pauseRequested
    BY DEF PauseAgrees
  <2>1. ~PauseIsHanded /\ ~\E t \in Callers : EndsStaleWork(hand[t])
    BY PauseCommands DEF Quiescent, PauseIsHanded
  <2>2. PauseIsApplied
    BY <2>1 DEF Quiescent, PauseInv, PauseFollows, PauseIsQueued
  <2> QED BY <2>2 DEF Quiescent, PauseInv, SocketIsUp, PauseIsApplied, Audible, TypeOK, SnapshotType
<1> QED BY <1>1, <1>2, <1>3, Inductive, PTL DEF Spec

(* The inductive invariant that the run checks holds for every value of    *)
(* the constants.                                                          *)
THEOREM InvariantHolds == Spec => []IndInv
<1>1. TypeOK /\ PlayerInv /\ OutputInv => IndInv BY DEF IndInv
<1> QED BY <1>1, Inductive, OutputInductive, PTL
=============================================================================
