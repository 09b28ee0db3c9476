---------------------------- MODULE PerfGovernor ----------------------------
(***************************************************************************)
(* The clock boost (platform/perf_governor.cc): scaling_min_freq of every  *)
(* core is raised while a token is held and put back by the last release,  *)
(* by the watchdog, or, after a crash, by the next launch from a file of   *)
(* baselines.  mtx is held from Acquire, Release or the watchdog's tick    *)
(* until pc is "free" again; a crash may come at any step.                 *)
(*                                                                         *)
(* Frequencies are "base" and "max", temperatures the ranges the two       *)
(* thresholds separate; the deadline is whether it has passed.             *)
(***************************************************************************)
EXTENDS Naturals

CONSTANTS
  Cores,
  Failing,       (* candidates for the baseline file that may not be       *)
                 (* writable                                               *)
  MaxAcquires,   (* bound on boosts requested                              *)
  MaxCrashes     (* bound on crashes and power cuts                        *)

Paths == {"main", "fallback"}       (* kBaselineFile, kBaselineFallback    *)
Freqs == {"base", "max"}
Absent == [c \in Cores |-> "none"]  (* a missing or an empty file          *)

ASSUME PerfAssumption ==
  /\ Failing \subseteq Paths
  /\ MaxAcquires \in Nat /\ MaxCrashes \in Nat

VARIABLES
  minFreq,    (* scaling_min_freq of each core                             *)
  writable,   (* the cores whose node accepts a write                      *)
  file,       (* the lines of each candidate file                          *)
  temp,       (* the hottest zone: at most 70, at most 75, above           *)
  proc,       (* "down", the candidate Init replays, or "up"               *)
  pc,         (* where the holder of mtx is                                *)
  todo,       (* cores the loop at hand has yet to write                   *)
  captured,   (* baselines: the local cpus, then boosted_cpus              *)
  path,       (* candidate being written, then baseline_path               *)
  boosted,
  count,
  expired,    (* now >= deadline                                           *)
  acquires,   (* boosts requested so far                                   *)
  crashes     (* crashes so far                                            *)

nodeVars == <<minFreq, writable>>
boostVars == <<captured, path, boosted, count, expired>>
boundVars == <<acquires, crashes>>
perfVars == <<nodeVars, file, temp, proc, pc, todo, boostVars, boundVars>>

AllBase == [c \in Cores |-> "base"]

PerfInit ==
  /\ minFreq = AllBase /\ writable \in SUBSET Cores
  /\ file = [p \in Paths |-> Absent]
  /\ temp = "cool" /\ proc = "down"
  /\ pc = "free" /\ todo = {} /\ captured = AllBase /\ path = "none"
  /\ boosted = FALSE /\ count = 0 /\ expired = TRUE
  /\ acquires = 0 /\ crashes = 0

(* WriteSysfs, on a node that may refuse.                                  *)
WriteNode(c, freq) == minFreq' = IF c \in writable THEN [minFreq EXCEPT ![c] = freq] ELSE minFreq

Remove(p) == file' = [q \in Paths |-> IF q = p THEN Absent ELSE file[q]]

-----------------------------------------------------------------------------
(* Init: both candidates are replayed and removed.                         *)

Up == UNCHANGED <<writable, temp, proc, boundVars>>

Launch ==
  /\ proc = "down" /\ proc' = "main" /\ todo' = Cores
  /\ UNCHANGED <<nodeVars, file, temp, pc, boostVars, boundVars>>

ReplayCore(c) ==
  /\ proc \in Paths /\ c \in todo
  /\ IF file[proc][c] = "none" THEN UNCHANGED minFreq ELSE WriteNode(c, file[proc][c])
  /\ todo' = todo \ {c}
  /\ Up /\ UNCHANGED <<file, pc, boostVars>>

ReplayEnds ==
  /\ proc \in Paths /\ todo = {}
  /\ Remove(proc)
  /\ IF proc = "main" THEN proc' = "fallback" /\ todo' = Cores
                      ELSE proc' = "up" /\ todo' = {}
  /\ UNCHANGED <<nodeVars, temp, pc, boostVars, boundVars>>

-----------------------------------------------------------------------------
(* Acquire, with Apply.                                                    *)

Acquire ==
  /\ proc = "up" /\ pc = "free"
  /\ acquires < MaxAcquires /\ acquires' = acquires + 1
  /\ count' = count + 1 /\ expired' = FALSE
  /\ UNCHANGED <<nodeVars, file, temp, proc, todo, boosted, crashes>>

AcquireOnly == Acquire /\ (boosted \/ temp # "cool") /\ UNCHANGED <<pc, captured, path>>

(* Mutant: every request captures and raises again.                        *)
AcquireRecaptures ==
  /\ Acquire /\ temp = "cool"
  /\ captured' = minFreq /\ path' = "main" /\ pc' = "open"

AcquireBoosts ==
  /\ Acquire /\ ~boosted /\ temp = "cool"
  /\ captured' = minFreq /\ path' = "main" /\ pc' = "open"

(* Mutant: the cores are raised with no baseline on disk.                  *)
OpenNothing ==
  /\ pc = "open" /\ pc' = "raise"
  /\ todo' = Cores
  /\ Up /\ UNCHANGED <<file, minFreq, boostVars>>

OpenBaseline ==
  /\ pc = "open" /\ pc' = "write"
  /\ Remove(path)
  /\ Up /\ UNCHANGED <<minFreq, todo, boostVars>>

WriteBaseline ==
  /\ pc = "write" /\ pc' = "raise"
  /\ file' = [file EXCEPT ![path] = captured]
  /\ todo' = Cores
  /\ Up /\ UNCHANGED <<minFreq, boostVars>>

(* The next candidate is tried; without one the boost goes on all the same.*)
PersistFails ==
  /\ pc \in {"open", "write"} /\ path \in Failing
  /\ Remove(path)
  /\ IF path = "main" THEN path' = "fallback" /\ pc' = "open" /\ UNCHANGED todo
                      ELSE path' = "none" /\ pc' = "raise" /\ todo' = Cores
  /\ Up /\ UNCHANGED <<minFreq, captured, boosted, count, expired>>

RaiseCore(c) ==
  /\ pc = "raise" /\ c \in todo
  /\ WriteNode(c, "max") /\ todo' = todo \ {c}
  /\ Up /\ UNCHANGED <<file, pc, boostVars>>

(* A node that opens and refuses the value when it is closed counts as     *)
(* raised, so that a boost may hold that raised nothing.                   *)
RaiseEnds ==
  /\ pc = "raise" /\ todo = {} /\ pc' = "free"
  /\ \/ boosted' = TRUE /\ UNCHANGED <<file, path>>
     \/ writable = {} /\ boosted' = FALSE /\ Remove(path) /\ path' = "none"
  /\ Up /\ UNCHANGED <<minFreq, todo, captured, count, expired>>

-----------------------------------------------------------------------------
(* Release, the watchdog, and Restore.                                     *)

RestoreBegins == pc' = "restore" /\ todo' = Cores

Release ==
  /\ proc = "up" /\ pc = "free" /\ count > 0
  /\ count' = count - 1
  /\ IF count = 1 /\ boosted THEN RestoreBegins ELSE UNCHANGED <<pc, todo>>
  /\ Up /\ UNCHANGED <<minFreq, file, captured, path, boosted, expired>>

(* Mutant: the watchdog looks at the temperature only.                     *)
WatchdogThermal ==
  /\ proc = "up" /\ pc = "free" /\ boosted /\ temp = "hot"
  /\ RestoreBegins
  /\ Up /\ UNCHANGED <<minFreq, file, boostVars>>

Watchdog ==
  /\ proc = "up" /\ pc = "free" /\ boosted
  /\ expired \/ temp = "hot"
  /\ RestoreBegins
  /\ Up /\ UNCHANGED <<minFreq, file, boostVars>>

RestoreCore(c) ==
  /\ pc = "restore" /\ c \in todo
  /\ WriteNode(c, captured[c]) /\ todo' = todo \ {c}
  /\ Up /\ UNCHANGED <<file, pc, boostVars>>

RestoreEnds ==
  /\ pc = "restore" /\ todo = {} /\ pc' = "free"
  /\ boosted' = FALSE /\ Remove(path) /\ path' = "none"
  /\ Up /\ UNCHANGED <<minFreq, todo, captured, count, expired>>

-----------------------------------------------------------------------------
(* The world: temperature, clock, crashes.  A power cut resets the nodes,  *)
(* empties /tmp and may lose what was not written through.                 *)

TempChanges ==
  /\ \E t \in {"cool", "warm", "hot"} \ {temp} : temp' = t
  /\ UNCHANGED <<nodeVars, file, proc, pc, todo, boostVars, boundVars>>

DeadlinePasses ==
  /\ proc = "up" /\ ~expired /\ expired' = TRUE
  /\ UNCHANGED <<nodeVars, file, temp, proc, pc, todo, captured, path, boosted, count, boundVars>>

Dies ==
  /\ proc # "down" /\ proc' = "down"
  /\ crashes < MaxCrashes /\ crashes' = crashes + 1
  /\ pc' = "free" /\ todo' = {} /\ captured' = AllBase /\ path' = "none"
  /\ boosted' = FALSE /\ count' = 0 /\ expired' = TRUE
  /\ UNCHANGED <<writable, temp, acquires>>

Crash == Dies /\ UNCHANGED <<minFreq, file>>

PowerCut ==
  /\ Dies /\ minFreq' = AllBase
  /\ \/ Remove("fallback")
     \/ file' = [p \in Paths |-> Absent]

-----------------------------------------------------------------------------
CoreStep(c) == ReplayCore(c) \/ RaiseCore(c) \/ RestoreCore(c)
Work ==
  \/ Launch \/ ReplayEnds
  \/ OpenBaseline \/ WriteBaseline \/ PersistFails \/ RaiseEnds \/ RestoreEnds
  \/ \E c \in Cores : CoreStep(c)

PerfNext ==
  \/ Work \/ AcquireOnly \/ AcquireBoosts \/ Release \/ Watchdog
  \/ TempChanges \/ DeadlinePasses \/ Crash \/ PowerCut

PerfSpec == PerfInit /\ [][PerfNext]_perfVars

(* The service is restarted, a section that began ends, and the watchdog   *)
(* ticks.  Nobody need release a token.                                    *)
FairPerfSpec == PerfSpec /\ WF_perfVars(Work) /\ WF_perfVars(Watchdog)

-----------------------------------------------------------------------------
(* Properties.                                                             *)

PerfSteps == {"free", "open", "write", "raise", "restore"}
Applying == {"open", "write", "raise"}

PerfTypeOK ==
  /\ minFreq \in [Cores -> Freqs] /\ writable \subseteq Cores
  /\ file \in [Paths -> [Cores -> Freqs \cup {"none"}]]
  /\ temp \in {"cool", "warm", "hot"} /\ proc \in {"down", "up"} \cup Paths
  /\ pc \in PerfSteps /\ todo \subseteq Cores
  /\ captured \in [Cores -> Freqs] /\ path \in Paths \cup {"none"}
  /\ boosted \in BOOLEAN /\ expired \in BOOLEAN
  /\ count \in Nat /\ acquires \in 0..MaxAcquires /\ crashes \in 0..MaxCrashes

Pinned == \E c \in Cores : minFreq[c] = "max"

(* "A crash mid-boost fixes itself on the next launch": whatever step a    *)
(* crash comes at, a file on disk holds the baseline of every raised core. *)
CrashIsRepairable ==
  \A c \in Cores : minFreq[c] = "max" => \E p \in Paths : file[p][c] = "base"

(* Without a boost the clocks idle: a running service at rest has restored *)
(* every core, by itself or from the run before, and has left no file that *)
(* a later launch would replay.                                            *)
RestIsClean ==
  proc = "up" /\ pc = "free" /\ ~boosted =>
     minFreq = AllBase /\ \A p \in Paths : file[p] = Absent

(* Only a token that is alive holds a boost.                               *)
BoostIsHeld == proc = "up" /\ pc = "free" /\ boosted => count > 0

(* A leaked token cannot pin the clocks: when the deadline always passes   *)
(* the cores get back to the baseline, also across crashes.                *)
ClocksRelax == []<>(expired \/ ~boosted) => (Pinned ~> ~Pinned)

-----------------------------------------------------------------------------
(* The inductive invariant.                                                *)

(* A process that does not run, or is still replaying, holds nothing.      *)
FreshProcess == proc # "up" => pc = "free" /\ ~boosted /\ count = 0 /\ path = "none"

(* What is captured, or on disk, is a baseline and never a raised value.   *)
BaselinesAreReal ==
  /\ \A p \in Paths, c \in Cores : file[p][c] # "max"
  /\ pc # "free" \/ boosted => captured = AllBase

(* The file of a boost is complete before the first core is raised.        *)
BoostIsCovered ==
  /\ pc \in Applying => ~boosted /\ count > 0
  /\ pc = "restore" => boosted
  /\ pc \in {"open", "write"} => path \in Paths /\ minFreq = AllBase /\ \A p \in Paths : file[p] = Absent
  /\ path = "fallback" => "main" \in Failing
  /\ pc = "raise" \/ boosted => path \in Paths /\ file[path] = AllBase
  /\ pc \in {"raise", "restore"} \/ boosted =>
        \A p \in Paths : p # path => file[p] = Absent

(* A loop has done what it has left behind.                                *)
LoopsDoTheirWork ==
  /\ \A c \in Cores : minFreq[c] = "max" => c \in writable
  /\ pc = "restore" => \A c \in Cores \ todo : minFreq[c] = "base"
  /\ proc \in Paths =>
        \A c \in Cores \ todo : file[proc][c] = "base" => minFreq[c] = "base"
  /\ proc = "fallback" => file["main"] = Absent

PerfInv ==
  /\ FreshProcess /\ BaselinesAreReal /\ BoostIsCovered /\ LoopsDoTheirWork
  /\ CrashIsRepairable /\ RestIsClean /\ BoostIsHeld
=============================================================================
