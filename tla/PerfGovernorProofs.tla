------------------------- MODULE PerfGovernorProofs -------------------------
(***************************************************************************)
(* Proofs about PerfGovernor for any set of cores and any bounds, as long  *)
(* as one of the two candidate files can be written.                       *)
(***************************************************************************)
EXTENDS PerfGovernor, TLAPS

USE DEF nodeVars, boostVars, boundVars, Up

(* The parts of the invariant depend on each other, so each step that      *)
(* preserves it needs all of them.                                         *)
USE DEF PerfInv, FreshProcess, BaselinesAreReal, BoostIsCovered, LoopsDoTheirWork,
        CrashIsRepairable, RestIsClean, BoostIsHeld, Applying, AllBase, Absent, Paths, PerfSteps

PersistWorks == Failing # Paths

(* A candidate that is removed is absent, the other one is as it was.      *)
LEMMA RemoveFile ==
  ASSUME PerfTypeOK, NEW p, Remove(p)
  PROVE  /\ file' \in [Paths -> [Cores -> Freqs \cup {"none"}]]
         /\ \A q \in Paths : file'[q] = IF q = p THEN Absent ELSE file[q]
<1>1. Absent \in [Cores -> Freqs \cup {"none"}] OBVIOUS
<1>2. file \in [Paths -> [Cores -> Freqs \cup {"none"}]] BY DEF PerfTypeOK
<1> QED BY <1>1, <1>2, Zenon DEF Remove

(* A write changes no node but the one it is for, and only if it accepts.  *)
LEMMA WriteOneNode ==
  ASSUME PerfTypeOK, NEW c \in Cores, NEW freq \in Freqs, WriteNode(c, freq)
  PROVE  /\ minFreq' \in [Cores -> Freqs]
         /\ \A d \in Cores : minFreq'[d] = IF d = c /\ c \in writable THEN freq ELSE minFreq[d]
BY DEF PerfTypeOK, WriteNode

(* Two ways to say that every core is at its baseline, or a file absent.   *)
LEMMA AllBaseCores ==
  ASSUME NEW f \in [Cores -> Freqs] PROVE f = AllBase <=> \A c \in Cores : f[c] = "base"
OBVIOUS

(* The device boots with its clocks at the baseline.                       *)
LEMMA PerfInitInv == PerfInit => PerfTypeOK /\ PerfInv
<1> SUFFICES ASSUME PerfInit PROVE PerfTypeOK /\ PerfInv
  OBVIOUS
<1> USE DEF PerfInit
<1>1. PerfTypeOK
  <2>1. AllBase \in [Cores -> Freqs] BY DEF Freqs
  <2>2. Absent \in [Cores -> Freqs \cup {"none"}] OBVIOUS
  <2>3. file \in [Paths -> [Cores -> Freqs \cup {"none"}]] BY <2>2
  <2>4. /\ boosted \in BOOLEAN /\ expired \in BOOLEAN
    BY Zenon
  <2> QED BY <2>1, <2>3, <2>4, PerfAssumption DEF PerfAssumption, PerfTypeOK
<1>2. PerfInv OBVIOUS
<1> QED BY <1>1, <1>2

(* A launch replays what a crash left and removes it: a core that is done  *)
(* is at its baseline, so nothing is lost with the file.                   *)
LEMMA ReplayInv ==
  ASSUME PerfTypeOK, PerfInv, Launch \/ ReplayEnds \/ \E c \in Cores : ReplayCore(c)
  PROVE  PerfTypeOK' /\ PerfInv'
<1>1. CASE Launch
  <2>1. PerfTypeOK' BY <1>1 DEF Launch, PerfTypeOK
  <2>2. PerfInv' BY <1>1 DEF Launch
  <2> QED BY <2>1, <2>2
<1>2. CASE ReplayEnds
  <2>1. /\ file' \in [Paths -> [Cores -> Freqs \cup {"none"}]]
        /\ \A q \in Paths : file'[q] = IF q = proc THEN Absent ELSE file[q]
    BY <1>2, RemoveFile DEF ReplayEnds
  <2>2. PerfTypeOK' BY <1>2, <2>1 DEF ReplayEnds, PerfTypeOK
  <2>3. \A c \in Cores : minFreq[c] = "max" =>
           \E p \in Paths : p # proc /\ file[p][c] = "base" /\ proc # "fallback"
    BY <1>2 DEF ReplayEnds, PerfTypeOK, Freqs
  <2>4. CrashIsRepairable' BY <1>2, <2>1, <2>3 DEF ReplayEnds
  <2>5. proc = "fallback" => minFreq = AllBase
    BY <2>3, AllBaseCores DEF PerfTypeOK, Freqs
  <2>6. PerfInv' BY <1>2, <2>1, <2>2, <2>4, <2>5 DEF ReplayEnds, PerfTypeOK
  <2> QED BY <2>2, <2>6
<1>3. CASE \E c \in Cores : ReplayCore(c)
  <2>1. PICK c \in Cores : ReplayCore(c) BY <1>3
  <2>2. /\ minFreq' \in [Cores -> Freqs]
        /\ \A d \in Cores : \/ minFreq'[d] = minFreq[d]
                            \/ d = c /\ minFreq'[d] = "base"
        /\ file[proc][c] = "base" => minFreq'[c] = "base"
    <3>1. file[proc][c] \in {"none", "base"} BY <2>1 DEF ReplayCore, PerfTypeOK, Freqs
    <3>2. minFreq[c] = "max" => c \in writable OBVIOUS
    <3>3. CASE file[proc][c] = "none" BY <2>1, <3>3 DEF ReplayCore, PerfTypeOK
    <3>4. CASE file[proc][c] = "base"
      <4>1. WriteNode(c, "base") BY <2>1, <3>4 DEF ReplayCore
      <4> QED BY <3>2, <3>4, <4>1, WriteOneNode DEF Freqs, PerfTypeOK
    <3> QED BY <3>1, <3>3, <3>4
  <2>3. PerfTypeOK' BY <2>1, <2>2 DEF ReplayCore, PerfTypeOK
  <2>4. PerfInv' BY <2>1, <2>2 DEF ReplayCore, PerfTypeOK, Freqs
  <2> QED BY <2>3, <2>4
<1> QED BY <1>1, <1>2, <1>3
(* A boost captures baselines that are real, since nothing is raised yet.  *)
LEMMA AcquireInv ==
  ASSUME PerfTypeOK, PerfInv, AcquireOnly \/ AcquireBoosts PROVE PerfTypeOK' /\ PerfInv'
<1>0. /\ Acquire /\ proc = "up" /\ pc = "free"
      /\ UNCHANGED <<nodeVars, file, temp, proc, todo, boosted, crashes>>
  BY DEF AcquireOnly, AcquireBoosts, Acquire
<1>1. count' \in Nat /\ count' > 0 /\ acquires' \in 0..MaxAcquires
  BY <1>0, PerfAssumption DEF PerfAssumption, Acquire, PerfTypeOK
<1>2. PerfTypeOK'
  <2>1. /\ captured' \in [Cores -> Freqs] /\ path' \in Paths \cup {"none"} /\ pc' \in PerfSteps
    BY DEF AcquireOnly, AcquireBoosts, Acquire, PerfTypeOK
  <2>2. expired' \in BOOLEAN BY <1>0, Zenon DEF Acquire
  <2> QED BY <1>0, <1>1, <2>1, <2>2 DEF PerfTypeOK
<1>3. CASE AcquireOnly
  <2>1. UNCHANGED <<pc, captured, path>> BY <1>3 DEF AcquireOnly
  <2> QED BY <1>0, <1>1, <1>2, <2>1
<1>4. CASE AcquireBoosts
  <2>1. captured' = minFreq /\ path' = "main" /\ pc' = "open" /\ ~boosted
    BY <1>4 DEF AcquireBoosts
  <2>2. minFreq = AllBase /\ \A p \in Paths : file[p] = Absent
    BY <1>0, <2>1
  <2> QED BY <1>0, <1>1, <1>2, <2>1, <2>2
<1> QED BY <1>3, <1>4

(* The baselines are on disk, in one candidate or the other, before the    *)
(* first core is raised.                                                   *)
LEMMA PersistInv ==
  ASSUME PersistWorks, PerfTypeOK, PerfInv, OpenBaseline \/ WriteBaseline \/ PersistFails
  PROVE  PerfTypeOK' /\ PerfInv'
<1>0. /\ pc \in {"open", "write"} /\ path \in Paths /\ captured = AllBase /\ minFreq = AllBase
      /\ \A p \in Paths : file[p] = Absent
  BY DEF OpenBaseline, WriteBaseline, PersistFails
<1>1. CASE OpenBaseline
  <2>1. /\ file' \in [Paths -> [Cores -> Freqs \cup {"none"}]]
        /\ \A q \in Paths : file'[q] = Absent
    BY <1>0, <1>1, RemoveFile DEF OpenBaseline
  <2>2. PerfTypeOK' BY <1>1, <2>1 DEF OpenBaseline, PerfTypeOK
  <2>3. PerfInv' BY <1>0, <1>1, <2>1 DEF OpenBaseline
  <2> QED BY <2>2, <2>3
<1>2. CASE WriteBaseline
  <2>1. /\ file' \in [Paths -> [Cores -> Freqs \cup {"none"}]]
        /\ \A q \in Paths : file'[q] = IF q = path THEN AllBase ELSE Absent
    BY <1>0, <1>2 DEF WriteBaseline, PerfTypeOK
  <2>2. PerfTypeOK' BY <1>2, <2>1 DEF WriteBaseline, PerfTypeOK
  <2>3. PerfInv' BY <1>0, <1>2, <2>1 DEF WriteBaseline
  <2> QED BY <2>2, <2>3
<1>3. CASE PersistFails
  <2>1. /\ file' \in [Paths -> [Cores -> Freqs \cup {"none"}]]
        /\ \A q \in Paths : file'[q] = Absent
    BY <1>0, <1>3, RemoveFile DEF PersistFails
  <2>2. path = "main"
    <3>1. path = "fallback" => "main" \in Failing OBVIOUS
    <3>2. path \in Failing BY <1>3 DEF PersistFails
    <3>3. ~(Failing = {"main", "fallback"}) BY DEF PersistWorks
    <3>4. Failing \subseteq {"main", "fallback"} BY PerfAssumption DEF PerfAssumption
    <3>5. path \in {"main", "fallback"} BY <1>0
    <3>6. "fallback" \in Failing /\ "main" \in Failing => Failing = {"main", "fallback"}
      <4> HIDE DEF PerfInv
      <4> QED BY <3>4
    <3>7. CASE path = "fallback" BY <3>1, <3>2, <3>3, <3>6, <3>7, Zenon
    <3> QED BY <3>5, <3>7, Zenon
  <2>3. PerfTypeOK' BY <1>3, <2>1, <2>2 DEF PersistFails, PerfTypeOK
  <2>4. PerfInv' BY <1>0, <1>3, <2>1, <2>2 DEF PersistFails
  <2> QED BY <2>3, <2>4
<1> QED BY <1>1, <1>2, <1>3

(* Raising touches cores whose baselines are on disk.                      *)
LEMMA RaiseInv ==
  ASSUME PerfTypeOK, PerfInv, RaiseEnds \/ \E c \in Cores : RaiseCore(c)
  PROVE  PerfTypeOK' /\ PerfInv'
<1>0. pc = "raise" /\ path \in Paths /\ file[path] = AllBase /\ proc = "up"
  BY DEF RaiseEnds, RaiseCore
<1>1. CASE \E c \in Cores : RaiseCore(c)
  <2>1. PICK c \in Cores : RaiseCore(c) BY <1>1
  <2>2. /\ minFreq' \in [Cores -> Freqs]
        /\ \A d \in Cores : minFreq'[d] = IF d = c /\ c \in writable THEN "max" ELSE minFreq[d]
    BY <2>1, WriteOneNode DEF RaiseCore, Freqs
  <2>3. PerfTypeOK' BY <2>1, <2>2 DEF RaiseCore, PerfTypeOK
  <2>4. PerfInv' BY <1>0, <2>1, <2>2 DEF RaiseCore, PerfTypeOK
  <2> QED BY <2>3, <2>4
<1>2. CASE RaiseEnds /\ boosted' = TRUE /\ UNCHANGED <<file, path>>
  <2>1. boosted' = TRUE BY <1>2
  <2>2. UNCHANGED <<file, path>> BY <1>2
  <2>3. PerfTypeOK' BY <1>2, <2>1, <2>2 DEF RaiseEnds, PerfTypeOK
  <2>4. count > 0 BY <1>0
  <2>5. PerfInv' BY <1>0, <1>2, <2>1, <2>2, <2>4 DEF RaiseEnds
  <2> QED BY <2>3, <2>5
<1>3. CASE RaiseEnds /\ writable = {} /\ boosted' = FALSE /\ Remove(path) /\ path' = "none"
  <2>1. boosted' = FALSE BY <1>3
  <2>2. /\ file' \in [Paths -> [Cores -> Freqs \cup {"none"}]]
        /\ \A q \in Paths : file'[q] = Absent
    BY <1>0, <1>3, RemoveFile DEF RaiseEnds
  <2>3. PerfTypeOK' BY <1>3, <2>1, <2>2 DEF RaiseEnds, PerfTypeOK
  <2>4. minFreq = AllBase
    <3>1. \A c \in Cores : minFreq[c] # "max" BY <1>3
    <3> QED BY <3>1, AllBaseCores DEF PerfTypeOK, Freqs
  <2>5. PerfInv' BY <1>0, <1>3, <2>1, <2>2, <2>4 DEF RaiseEnds
  <2> QED BY <2>3, <2>5
<1> QED BY <1>1, <1>2, <1>3, Zenon DEF RaiseEnds
(* The last release and the watchdog begin to restore, with mtx held.      *)
LEMMA RestoreBeginsInv ==
  ASSUME PerfTypeOK, PerfInv, Release \/ Watchdog PROVE PerfTypeOK' /\ PerfInv'
<1>0. /\ proc = "up" /\ pc = "free"
      /\ UNCHANGED <<nodeVars, temp, proc, boundVars, file, captured, path, boosted, expired>>
  BY DEF Release, Watchdog
<1>1. count' \in Nat BY DEF Release, Watchdog, PerfTypeOK
<1>2. \/ boosted /\ pc' = "restore" /\ todo' = Cores
      \/ pc' = pc /\ todo' = todo /\ (boosted => count' > 0)
  BY DEF Release, Watchdog, RestoreBegins, PerfTypeOK
<1>3. PerfTypeOK' BY <1>0, <1>1, <1>2 DEF PerfTypeOK
<1>4. PerfInv'
  <2>1. CASE boosted /\ pc' = "restore" /\ todo' = Cores BY <1>0, <2>1
  <2>2. CASE pc' = pc /\ todo' = todo /\ (boosted => count' > 0) BY <1>0, <2>2
  <2> QED BY <1>2, <2>1, <2>2
<1> QED BY <1>3, <1>4

(* The file goes only when every core is back at its baseline.             *)
LEMMA RestoreInv ==
  ASSUME PerfTypeOK, PerfInv, RestoreEnds \/ \E c \in Cores : RestoreCore(c)
  PROVE  PerfTypeOK' /\ PerfInv'
<1>0. /\ pc = "restore" /\ path \in Paths /\ file[path] = AllBase /\ proc = "up" /\ captured = AllBase
      /\ boosted
  BY DEF RestoreEnds, RestoreCore
<1>1. CASE \E c \in Cores : RestoreCore(c)
  <2>1. PICK c \in Cores : RestoreCore(c) BY <1>1
  <2>2. WriteNode(c, "base") BY <1>0, <2>1 DEF RestoreCore
  <2>3. /\ minFreq' \in [Cores -> Freqs]
        /\ \A d \in Cores : minFreq'[d] = IF d = c /\ c \in writable THEN "base" ELSE minFreq[d]
    BY <2>2, WriteOneNode DEF Freqs
  <2>4. PerfTypeOK' BY <2>1, <2>3 DEF RestoreCore, PerfTypeOK
  <2>5. PerfInv' BY <1>0, <2>1, <2>3 DEF RestoreCore, PerfTypeOK, Freqs
  <2> QED BY <2>4, <2>5
<1>2. CASE RestoreEnds
  <2>1. boosted' = FALSE BY <1>2, Zenon DEF RestoreEnds
  <2>2. /\ file' \in [Paths -> [Cores -> Freqs \cup {"none"}]]
        /\ \A q \in Paths : file'[q] = Absent
    BY <1>0, <1>2, RemoveFile DEF RestoreEnds
  <2>3. PerfTypeOK' BY <1>2, <2>1, <2>2 DEF RestoreEnds, PerfTypeOK
  <2>4. minFreq = AllBase
    <3>1. \A c \in Cores : minFreq[c] = "base" BY <1>0, <1>2 DEF RestoreEnds
    <3> QED BY <3>1, AllBaseCores DEF PerfTypeOK
  <2>5. PerfInv' BY <1>0, <1>2, <2>1, <2>2, <2>4 DEF RestoreEnds
  <2> QED BY <2>3, <2>5
<1> QED BY <1>1, <1>2

(* A crash loses what the process knew, a power cut what was raised too.   *)
LEMMA PerfWorldInv ==
  ASSUME PerfTypeOK, PerfInv, TempChanges \/ DeadlinePasses \/ Crash \/ PowerCut
  PROVE  PerfTypeOK' /\ PerfInv'
<1>1. CASE TempChanges BY <1>1 DEF TempChanges, PerfTypeOK
<1>2. CASE DeadlinePasses
  <2>1. expired' = TRUE /\ UNCHANGED <<nodeVars, file, temp, proc, pc, todo, captured, path, boosted, count, boundVars>>
    BY <1>2, Zenon DEF DeadlinePasses
  <2>2. PerfTypeOK' BY <2>1 DEF PerfTypeOK
  <2>3. PerfInv' BY <2>1
  <2> QED BY <2>2, <2>3
<1>3. CASE Crash \/ PowerCut
  <2>1. Dies /\ crashes' \in 0..MaxCrashes
    BY <1>3, PerfAssumption DEF PerfAssumption, Crash, PowerCut, Dies, PerfTypeOK
  <2>2. AllBase \in [Cores -> Freqs] BY DEF Freqs
  <2>3. boosted' = FALSE /\ expired' = TRUE BY <2>1, Zenon DEF Dies
  <2>4. file' \in [Paths -> [Cores -> Freqs \cup {"none"}]] /\ minFreq' \in [Cores -> Freqs]
    <3>1. Absent \in [Cores -> Freqs \cup {"none"}] OBVIOUS
    <3>2. CASE Crash BY <3>2 DEF Crash, PerfTypeOK
    <3>3. CASE PowerCut BY <2>2, <3>1, <3>3, RemoveFile DEF PowerCut
    <3> QED BY <1>3, <3>2, <3>3
  <2>5. PerfTypeOK' BY <2>1, <2>2, <2>3, <2>4 DEF Dies, PerfTypeOK
  <2>6. /\ \A c \in Cores : minFreq'[c] = "max" => c \in writable
        /\ \A p \in Paths, c \in Cores : file'[p][c] # "max"
        /\ \A c \in Cores : minFreq'[c] = "max" => \E p \in Paths : file'[p][c] = "base"
    <3>1. CASE Crash BY <3>1 DEF Crash
    <3>2. CASE PowerCut
      <4>1. \A c \in Cores : minFreq'[c] = "base" BY <3>2 DEF PowerCut
      <4>2. \A p \in Paths, c \in Cores : Absent[c] = "none" OBVIOUS
      <4>3. \A p \in Paths : file'[p] = Absent \/ file'[p] = file[p]
        BY <3>2, RemoveFile DEF PowerCut
      <4> QED BY <4>1, <4>2, <4>3
    <3> QED BY <1>3, <3>1, <3>2
  <2>7. PerfInv' BY <2>1, <2>3, <2>6 DEF Dies
  <2> QED BY <2>5, <2>7
<1> QED BY <1>1, <1>2, <1>3

-----------------------------------------------------------------------------
HIDE DEF PerfInv, FreshProcess, BaselinesAreReal, BoostIsCovered, LoopsDoTheirWork,
         CrashIsRepairable, RestIsClean, BoostIsHeld, Applying, AllBase, Absent, Paths, PerfSteps

(* The inductive invariant holds whenever one candidate can be written,    *)
(* wherever crashes come.                                                  *)
THEOREM PerfInvariant == ASSUME PersistWorks PROVE PerfSpec => [](PerfTypeOK /\ PerfInv)
<1>1. PerfInit => PerfTypeOK /\ PerfInv BY PerfInitInv
<1>2. PerfTypeOK /\ PerfInv /\ [PerfNext]_perfVars => (PerfTypeOK /\ PerfInv)'
  <2> SUFFICES ASSUME PerfTypeOK, PerfInv, [PerfNext]_perfVars PROVE PerfTypeOK' /\ PerfInv'
    OBVIOUS
  <2>1. CASE Work
    BY <2>1, ReplayInv, PersistInv, RaiseInv, RestoreInv DEF Work, CoreStep
  <2>2. CASE AcquireOnly \/ AcquireBoosts BY <2>2, AcquireInv
  <2>3. CASE Release \/ Watchdog BY <2>3, RestoreBeginsInv
  <2>4. CASE TempChanges \/ DeadlinePasses \/ Crash \/ PowerCut BY <2>4, PerfWorldInv
  <2>5. CASE UNCHANGED perfVars
    <3>1. PerfTypeOK' BY <2>5 DEF perfVars, PerfTypeOK
    <3>2. PerfInv'
      <4> USE DEF PerfInv, FreshProcess, BaselinesAreReal, BoostIsCovered, LoopsDoTheirWork,
                  CrashIsRepairable, RestIsClean, BoostIsHeld
      <4> QED BY <2>5 DEF perfVars
    <3> QED BY <3>1, <3>2
  <2> QED BY <2>1, <2>2, <2>3, <2>4, <2>5 DEF PerfNext
<1> QED BY <1>1, <1>2, PTL DEF PerfSpec

(* Whatever step a crash comes at, the next launch can repair it.          *)
THEOREM CrashIsRepairableHolds == ASSUME PersistWorks PROVE PerfSpec => []CrashIsRepairable
<1>1. PerfInv => CrashIsRepairable BY DEF PerfInv
<1> QED BY <1>1, PerfInvariant, PTL

(* A running service without a boost has every core at its baseline.       *)
THEOREM RestIsCleanHolds == ASSUME PersistWorks PROVE PerfSpec => []RestIsClean
<1>1. PerfInv => RestIsClean BY DEF PerfInv
<1> QED BY <1>1, PerfInvariant, PTL

(* A boost is held by a token that is alive.                               *)
THEOREM BoostIsHeldHolds == ASSUME PersistWorks PROVE PerfSpec => []BoostIsHeld
<1>1. PerfInv => BoostIsHeld BY DEF PerfInv
<1> QED BY <1>1, PerfInvariant, PTL

HIDE DEF nodeVars, boostVars, boundVars, Up
=============================================================================
