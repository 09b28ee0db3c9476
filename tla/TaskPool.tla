------------------------------ MODULE TaskPool ------------------------------
(***************************************************************************)
(* The shared worker pool (platform/task_pool.cc): two lanes of jobs, a    *)
(* cap on concurrent prefetch jobs and one condition variable that is      *)
(* notified for one worker at a time.                                      *)
(*                                                                         *)
(* A lane is its number of jobs: the order within it is the deque's.  Jobs *)
(* end, by themselves or by an exception that is caught.                   *)
(***************************************************************************)
EXTENDS Naturals, FiniteSets

CONSTANTS
  Workers,
  MaxPrefetch,  (* max_prefetch                                            *)
  MaxPosts      (* bound on jobs posted                                    *)

ASSUME PoolAssumption ==
  /\ IsFiniteSet(Workers)
  /\ MaxPrefetch \in Nat \ {0} /\ 2 * MaxPrefetch <= Cardinality(Workers)
  /\ MaxPosts \in Nat

VARIABLES
  interactive,  (* jobs in the interactive deque                           *)
  prefetch,     (* jobs in the prefetch deque                              *)
  running,      (* running_prefetch                                        *)
  worker,       (* "check" the queues, "wait", or run a job of a lane      *)
  owed,         (* posters that have pushed and not yet notified           *)
  posts         (* jobs posted so far                                      *)

poolVars == <<interactive, prefetch, running, worker, owed, posts>>

PoolInit ==
  /\ interactive = 0 /\ prefetch = 0 /\ running = 0
  /\ worker = [w \in Workers |-> "check"]
  /\ owed = 0 /\ posts = 0

In(state) == {w \in Workers : worker[w] = state}
Goto(w, state) == worker' = [worker EXCEPT ![w] = state]

-----------------------------------------------------------------------------
(* Post: push under the lock, notify_one after it.                         *)

PostOne == posts < MaxPosts /\ posts' = posts + 1 /\ UNCHANGED <<running, worker>>

(* Mutant: only the first job of an empty lane is announced.               *)
PostFirstOnly ==
  /\ PostOne /\ interactive' = interactive + 1 /\ UNCHANGED prefetch
  /\ owed' = IF interactive = 0 THEN owed + 1 ELSE owed

PostInteractive == PostOne /\ interactive' = interactive + 1 /\ owed' = owed + 1 /\ UNCHANGED prefetch
PostPrefetch == PostOne /\ prefetch' = prefetch + 1 /\ owed' = owed + 1 /\ UNCHANGED interactive

(* notify_one wakes some worker, if one waits.                             *)
NotifyOne ==
  \/ \E w \in In("wait") : Goto(w, "check")
  \/ In("wait") = {} /\ UNCHANGED worker

Notify == owed > 0 /\ owed' = owed - 1 /\ NotifyOne /\ UNCHANGED <<interactive, prefetch, running, posts>>

-----------------------------------------------------------------------------
(* A worker, with the lock: the predicate, then the job.                   *)

WorkerFrame == UNCHANGED <<owed, posts>>

TakeInteractive(w) ==
  /\ worker[w] = "check" /\ interactive > 0
  /\ interactive' = interactive - 1 /\ Goto(w, "interactive")
  /\ WorkerFrame /\ UNCHANGED <<prefetch, running>>

TakePrefetch(w) ==
  /\ worker[w] = "check" /\ interactive = 0 /\ prefetch > 0 /\ running < MaxPrefetch
  /\ prefetch' = prefetch - 1 /\ running' = running + 1 /\ Goto(w, "prefetch")
  /\ WorkerFrame /\ UNCHANGED interactive

Wait(w) ==
  /\ worker[w] = "check" /\ interactive = 0 /\ (prefetch = 0 \/ running >= MaxPrefetch)
  /\ Goto(w, "wait")
  /\ WorkerFrame /\ UNCHANGED <<interactive, prefetch, running>>

InteractiveEnds(w) ==
  /\ worker[w] = "interactive" /\ Goto(w, "check")
  /\ WorkerFrame /\ UNCHANGED <<interactive, prefetch, running>>

(* Mutant: a prefetch job that throws keeps its slot.                      *)
PrefetchThrows(w) ==
  /\ worker[w] = "prefetch" /\ Goto(w, "check")
  /\ WorkerFrame /\ UNCHANGED <<interactive, prefetch, running>>

(* The slot is freed and a worker notified in one section.                 *)
PrefetchEnds(w) ==
  /\ worker[w] = "prefetch" /\ running' = running - 1
  /\ \/ \E v \in In("wait") : worker' = [worker EXCEPT ![w] = "check", ![v] = "check"]
     \/ In("wait") = {} /\ Goto(w, "check")
  /\ WorkerFrame /\ UNCHANGED <<interactive, prefetch>>

(* A condition variable may wake without a reason.                         *)
WakesSpuriously(w) ==
  /\ worker[w] = "wait" /\ Goto(w, "check")
  /\ WorkerFrame /\ UNCHANGED <<interactive, prefetch, running>>

WorkerStep(w) ==
  \/ TakeInteractive(w) \/ TakePrefetch(w) \/ Wait(w)
  \/ InteractiveEnds(w) \/ PrefetchEnds(w)

PoolNext ==
  \/ PostInteractive \/ PostPrefetch \/ Notify
  \/ \E w \in Workers : WorkerStep(w) \/ WakesSpuriously(w)

PoolSpec == PoolInit /\ [][PoolNext]_poolVars

(* Jobs are finite and every thread gets the lock in the end; nothing is   *)
(* assumed about spurious wakeups.                                         *)
FairPoolSpec == PoolSpec /\ WF_poolVars(Notify) /\ \A w \in Workers : WF_poolVars(WorkerStep(w))

-----------------------------------------------------------------------------
(* Properties.                                                             *)

WorkerStates == {"check", "wait", "interactive", "prefetch"}

PoolTypeOK ==
  /\ interactive \in Nat /\ prefetch \in Nat /\ running \in Nat
  /\ owed \in Nat /\ posts \in 0..MaxPosts
  /\ worker \in [Workers -> WorkerStates]

(* The counter is the number of workers with a prefetch job, and those are *)
(* at most half of them, whatever posts, ends and throws in between.       *)
PrefetchIsCapped ==
  /\ running = Cardinality(In("prefetch"))
  /\ 2 * running <= Cardinality(Workers)

(* The jobs that may be started now.                                       *)
Slots == MaxPrefetch - running
Startable == interactive + IF prefetch < Slots THEN prefetch ELSE Slots

(* No wakeup is lost: while a worker waits, every startable job has a      *)
(* worker on its way, or a notification that is still to come.             *)
NoWakeupLost == In("wait") # {} => Startable <= owed + Cardinality(In("check"))

PoolInv == running <= MaxPrefetch /\ PrefetchIsCapped /\ NoWakeupLost

(* Every job posted is started in the end.                                 *)
LanesDrain == interactive + prefetch > 0 ~> interactive + prefetch = 0
=============================================================================
