----------------------------- MODULE TimerTool -----------------------------
(***************************************************************************)
(* The countdown timer (agent/assistant_tools.cc).  There is one timer, a  *)
(* record under a mutex; every accepted "set" starts a detached thread     *)
(* that sleeps and then looks whether the timer is still its own, by the   *)
(* generation it was given.  Tools run on several threads: the agent's     *)
(* worker and one thread per call of a realtime session.                   *)
(***************************************************************************)
EXTENDS Integers, FiniteSets

CONSTANTS
  Askers,     (* threads that run the tool                                  *)
  Asked,      (* the minutes and seconds of the calls                       *)
  MaxTimers   (* bound: changes of the generation                           *)

ASSUME TimerAssumption == MaxTimers \in Nat

VARIABLES
  armed,       (* armed                                                     *)
  generation,  (* generation                                                *)
  spawning,    (* per asker: the generation it is starting a thread for, 0  *)
  sleepers,    (* the generations whose detached thread sleeps              *)
  ringing,     (* the generations whose thread is about to speak            *)
  started,     (* history: the generations of the timers that were set      *)
  rung,        (* history: the generations spoken                           *)
  silenced     (* history: armed timers that were cancelled or replaced     *)

timerVars == <<armed, generation, spawning, sleepers, ringing, started, rung, silenced>>

Generations == 1 .. MaxTimers

TimerTypeOK ==
  /\ armed \in BOOLEAN
  /\ generation \in 0 .. MaxTimers
  /\ spawning \in [Askers -> 0 .. MaxTimers]
  /\ sleepers \subseteq Generations /\ ringing \subseteq Generations
  /\ started \subseteq Generations /\ rung \subseteq Generations
  /\ silenced \subseteq Generations

TimerInit ==
  /\ armed = FALSE /\ generation = 0
  /\ spawning = [a \in Askers |-> 0]
  /\ sleepers = {} /\ ringing = {}
  /\ started = {} /\ rung = {} /\ silenced = {}

(* The timer an armed state stands for.                                    *)
Current == IF armed THEN {generation} ELSE {}

(* A length of more than twelve hours, or of nothing, is refused.          *)
Accepted(asked) ==
  LET total == asked.minutes * 60 + asked.seconds
  IN  total > 0 /\ total <= 12 * 3600

(* TimerTool::Execute, "set": the record is replaced under the mutex, ...  *)
SetTimer(a) ==
  /\ spawning[a] = 0 /\ generation < MaxTimers
  /\ \E asked \in Asked : Accepted(asked)
  /\ armed' = TRUE
  /\ generation' = generation + 1
  /\ spawning' = [spawning EXCEPT ![a] = generation + 1]
  /\ silenced' = silenced \cup Current
  /\ started' = started \cup {generation + 1}
  /\ UNCHANGED <<sleepers, ringing, rung>>

(* ... and the thread is started after it was released.                    *)
SpawnSleeper(a) ==
  /\ spawning[a] # 0
  /\ sleepers' = sleepers \cup {spawning[a]}
  /\ spawning' = [spawning EXCEPT ![a] = 0]
  /\ UNCHANGED <<armed, generation, ringing, started, rung, silenced>>

(* "cancel", when a timer is armed; otherwise it only says there is none.  *)
CancelTimer(a) ==
  /\ spawning[a] = 0 /\ armed /\ generation < MaxTimers
  /\ armed' = FALSE
  /\ generation' = generation + 1
  /\ silenced' = silenced \cup Current
  /\ UNCHANGED <<spawning, sleepers, ringing, started, rung>>

(* Mutant: the woken thread looks only whether a timer is armed.           *)
WakeUnchecked(g) ==
  /\ g \in sleepers
  /\ sleepers' = sleepers \ {g}
  /\ ringing' = IF armed THEN ringing \cup {g} ELSE ringing
  /\ armed' = FALSE
  /\ UNCHANGED <<generation, spawning, started, rung, silenced>>

(* The sleep is over: under the mutex the thread compares generations.     *)
WakeSleeper(g) ==
  /\ g \in sleepers
  /\ sleepers' = sleepers \ {g}
  /\ ringing' = IF g \in Current THEN ringing \cup {g} ELSE ringing
  /\ armed' = (armed /\ g # generation)
  /\ UNCHANGED <<generation, spawning, started, rung, silenced>>

(* The line is handed to the voice loop, with the mutex released.          *)
Ring(g) ==
  /\ g \in ringing
  /\ ringing' = ringing \ {g}
  /\ rung' = rung \cup {g}
  /\ UNCHANGED <<armed, generation, spawning, sleepers, started, silenced>>

SleeperStep(g) == WakeSleeper(g) \/ Ring(g)

TimerNext ==
  \/ \E a \in Askers : SetTimer(a) \/ SpawnSleeper(a) \/ CancelTimer(a)
  \/ \E g \in Generations : SleeperStep(g)

TimerSpec == TimerInit /\ [][TimerNext]_timerVars

(* A thread that was started wakes up in the end; nobody has to set one.   *)
FairTimerSpec ==
  /\ TimerSpec
  /\ \A a \in Askers : WF_timerVars(SpawnSleeper(a))
  /\ \A g \in Generations : WF_timerVars(SleeperStep(g))

-----------------------------------------------------------------------------
(* What the generations are good for: a sleeping or starting thread has a  *)
(* generation of its own, the armed one has its thread, and a generation   *)
(* that was taken back is not the current one.                             *)
TimerInv ==
  /\ armed => /\ generation > 0
              /\ generation \in sleepers \/ \E a \in Askers : spawning[a] = generation
  /\ \A a \in Askers : spawning[a] <= generation /\ spawning[a] \notin sleepers
  /\ \A a, b \in Askers : a # b /\ spawning[a] = spawning[b] => spawning[a] = 0
  /\ \A g \in sleepers \cup ringing \cup rung \cup silenced : g <= generation
  /\ Current \cap (silenced \cup ringing \cup rung) = {}
  /\ (ringing \cup rung) \cap silenced = {}

(* A timer that was cancelled, or replaced by another one, while it was    *)
(* still armed is never spoken, whichever thread wakes when.               *)
SilencedIsSilent == rung \cap silenced = {}

(* Every timer that was set is spoken in the end, unless it is cancelled   *)
(* or replaced; as many are set as MaxTimers allows.                       *)
TimersRing == started # rung \cup silenced ~> started = rung \cup silenced
=============================================================================
