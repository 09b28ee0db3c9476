--------------------------- MODULE ServicesProofs ---------------------------
(***************************************************************************)
(* Proofs about the pool and the ledger, and the services as one system:   *)
(* each component takes its own steps or stutters, so it keeps, inside the *)
(* composition, the invariant that is proved of it alone.                  *)
(***************************************************************************)
EXTENDS Services, PerfGovernorProofs, RealtimeClientProofs, FiniteSetTheorems, TLAPS

(* The pool, for any finite set of workers, any cap of at most half of     *)
(* them and any number of jobs.  Both of its invariants are about numbers  *)
(* of workers, so most lemmas are about the sets In(state).                *)
USE PoolAssumption DEF PoolAssumption

(* The workers in a state are finitely many.                               *)
LEMMA InIsFinite ==
  ASSUME NEW state PROVE IsFiniteSet(In(state)) /\ Cardinality(In(state)) \in Nat
<1>1. In(state) \subseteq Workers BY DEF In
<1> QED BY <1>1, FS_Subset, FS_CardinalityType

(* A worker that moves is counted once more where it goes, once less where *)
(* it comes from, and nowhere else.                                        *)
LEMMA MoveCounts ==
  ASSUME PoolTypeOK, NEW w \in Workers, NEW from \in WorkerStates, NEW to \in WorkerStates,
         worker[w] = from, from # to, Goto(w, to)
  PROVE  /\ worker' \in [Workers -> WorkerStates]
         /\ Cardinality(In(to))' = Cardinality(In(to)) + 1
         /\ Cardinality(In(from))' = Cardinality(In(from)) - 1
         /\ \A state \in WorkerStates \ {from, to} : In(state)' = In(state)
<1>1. worker \in [Workers -> WorkerStates] BY DEF PoolTypeOK
<1>2. worker' = [worker EXCEPT ![w] = to] BY DEF Goto
<1>3. In(to)' = In(to) \cup {w} /\ w \notin In(to) BY <1>1, <1>2 DEF In
<1>4. In(from)' = In(from) \ {w} /\ w \in In(from) BY <1>1, <1>2 DEF In
<1>5. \A state \in WorkerStates \ {from, to} : In(state)' = In(state) BY <1>1, <1>2 DEF In
<1>6. Cardinality(In(to) \cup {w}) = Cardinality(In(to)) + 1 BY <1>3, InIsFinite, FS_AddElement
<1>7. Cardinality(In(from) \ {w}) = Cardinality(In(from)) - 1 BY <1>4, InIsFinite, FS_RemoveElement
<1>8. worker' \in [Workers -> WorkerStates] BY <1>1, <1>2
<1> QED BY <1>3, <1>4, <1>5, <1>6, <1>7, <1>8

(* Startable is the interactive jobs and those prefetch jobs that have a   *)
(* slot, as one number.                                                    *)
LEMMA StartableType == ASSUME PoolTypeOK, running <= MaxPrefetch PROVE Startable \in Nat
BY DEF PoolTypeOK, Startable, Slots

(* Initially every worker looks at the empty queues.                       *)
LEMMA PoolInitInv == PoolInit => PoolTypeOK /\ PoolInv
<1> SUFFICES ASSUME PoolInit PROVE PoolTypeOK /\ PoolInv
  OBVIOUS
<1>1. PoolTypeOK BY DEF PoolInit, PoolTypeOK, WorkerStates
<1>2. In("prefetch") = {} /\ In("wait") = {} BY DEF PoolInit, In
<1>3. Cardinality(Workers) \in Nat BY FS_CardinalityType
<1>4. PoolInv BY <1>2, <1>3, FS_EmptySet DEF PoolInit, PoolInv, PrefetchIsCapped, NoWakeupLost
<1> QED BY <1>1, <1>4

(* A job posted is one more to start and one more notification to come.    *)
LEMMA PostInv ==
  ASSUME PoolTypeOK, PoolInv, PostInteractive \/ PostPrefetch PROVE PoolTypeOK' /\ PoolInv'
<1>1. PoolTypeOK' BY DEF PostInteractive, PostPrefetch, PostOne, PoolTypeOK
<1>2. \A state : In(state)' = In(state) BY DEF PostInteractive, PostPrefetch, PostOne, In
<1>3. Cardinality(In("check")) \in Nat BY InIsFinite
<1>4. Startable' <= Startable + 1 /\ owed' = owed + 1
  BY DEF PostInteractive, PostPrefetch, PostOne, Startable, Slots, PoolTypeOK, PoolInv
<1>5. Startable \in Nat BY StartableType DEF PoolInv
<1>6. NoWakeupLost'
  <2>1. Startable' \in Int
    BY <1>5 DEF PostInteractive, PostPrefetch, PostOne, Startable, Slots, PoolTypeOK
  <2> QED BY <1>2, <1>3, <1>4, <1>5, <2>1 DEF NoWakeupLost, PoolInv, PoolTypeOK
<1>7. (running <= MaxPrefetch /\ PrefetchIsCapped)'
  BY <1>2 DEF PoolInv, PrefetchIsCapped, PostInteractive, PostPrefetch, PostOne
<1> QED BY <1>1, <1>6, <1>7 DEF PoolInv

(* A notification that is given puts a worker on its way, or nobody waits. *)
LEMMA NotifyInv ==
  ASSUME PoolTypeOK, PoolInv, Notify PROVE PoolTypeOK' /\ PoolInv'
<1>0. Startable' = Startable /\ Startable \in Nat /\ owed' = owed - 1 /\ owed' \in Nat
      /\ UNCHANGED <<interactive, prefetch, running, posts>>
  BY StartableType DEF Notify, Startable, Slots, PoolInv, PoolTypeOK
<1>1. CASE \E w \in In("wait") : Goto(w, "check")
  <2>1. PICK w \in Workers : worker[w] = "wait" /\ Goto(w, "check") BY <1>1 DEF In
  <2>2. /\ worker' \in [Workers -> WorkerStates]
        /\ Cardinality(In("check"))' = Cardinality(In("check")) + 1
        /\ In("prefetch")' = In("prefetch")
    BY <2>1, MoveCounts DEF WorkerStates
  <2>3. In("wait") # {} BY <1>1
  <2>4. Cardinality(In("check")) \in Nat BY InIsFinite
  <2>5. NoWakeupLost' BY <1>0, <2>2, <2>3, <2>4 DEF NoWakeupLost, PoolInv, PoolTypeOK
  <2> QED BY <1>0, <2>2, <2>5 DEF PoolInv, PrefetchIsCapped, PoolTypeOK
<1>2. CASE In("wait") = {} /\ UNCHANGED worker
  <2>1. \A state : In(state)' = In(state) BY <1>2 DEF In
  <2> QED BY <1>0, <1>2, <2>1 DEF PoolInv, PrefetchIsCapped, NoWakeupLost, PoolTypeOK
<1> QED BY <1>1, <1>2 DEF Notify, NotifyOne

(* A worker that takes a job was on its way, one that waits has found      *)
(* nothing to start.                                                       *)
LEMMA CheckInv ==
  ASSUME PoolTypeOK, PoolInv, NEW w \in Workers, TakeInteractive(w) \/ TakePrefetch(w) \/ Wait(w)
  PROVE  PoolTypeOK' /\ PoolInv'
<1>0. worker[w] = "check" /\ owed' = owed /\ posts' = posts /\ Startable \in Nat /\ running <= MaxPrefetch
  BY StartableType DEF TakeInteractive, TakePrefetch, Wait, WorkerFrame, PoolInv
<1>1. \A state : Cardinality(In(state)) \in Nat BY InIsFinite
<1>2. CASE TakeInteractive(w)
  <2>1. /\ worker' \in [Workers -> WorkerStates]
        /\ Cardinality(In("check"))' = Cardinality(In("check")) - 1
        /\ In("prefetch")' = In("prefetch") /\ In("wait")' = In("wait")
    BY <1>0, <1>2, MoveCounts DEF TakeInteractive, WorkerStates
  <2>2. Startable' = Startable - 1
    BY <1>2 DEF TakeInteractive, Startable, Slots, PoolTypeOK
  <2>3. PoolTypeOK' BY <1>0, <1>2, <2>1 DEF TakeInteractive, PoolTypeOK
  <2>4. NoWakeupLost' BY <1>0, <1>1, <2>1, <2>2 DEF NoWakeupLost, PoolInv, PoolTypeOK
  <2> QED BY <1>2, <2>1, <2>3, <2>4 DEF TakeInteractive, PoolInv, PrefetchIsCapped
<1>3. CASE TakePrefetch(w)
  <2>1. /\ worker' \in [Workers -> WorkerStates]
        /\ Cardinality(In("check"))' = Cardinality(In("check")) - 1
        /\ Cardinality(In("prefetch"))' = Cardinality(In("prefetch")) + 1
        /\ In("wait")' = In("wait")
    BY <1>0, <1>3, MoveCounts DEF TakePrefetch, WorkerStates
  <2>2. Startable' = Startable - 1 /\ running' = running + 1 /\ running' <= MaxPrefetch
    BY <1>3 DEF TakePrefetch, Startable, Slots, PoolTypeOK
  <2>3. PoolTypeOK' BY <1>0, <1>3, <2>1 DEF TakePrefetch, PoolTypeOK
  <2>4. NoWakeupLost' BY <1>0, <1>1, <2>1, <2>2 DEF NoWakeupLost, PoolInv, PoolTypeOK
  <2>5. PrefetchIsCapped'
    <3>1. Cardinality(Workers) \in Nat BY FS_CardinalityType
    <3> QED BY <2>1, <2>2, <3>1 DEF PoolInv, PrefetchIsCapped, PoolTypeOK
  <2> QED BY <2>2, <2>3, <2>4, <2>5 DEF PoolInv
<1>4. CASE Wait(w)
  <2>1. /\ worker' \in [Workers -> WorkerStates]
        /\ Cardinality(In("check"))' = Cardinality(In("check")) - 1
        /\ In("prefetch")' = In("prefetch")
    BY <1>0, <1>4, MoveCounts DEF Wait, WorkerStates
  <2>2. Startable' = 0
    BY <1>0, <1>4 DEF Wait, Startable, Slots, PoolTypeOK
  <2>3. PoolTypeOK' BY <1>0, <1>4, <2>1 DEF Wait, PoolTypeOK
  <2>4. Cardinality(In("check"))' \in Nat
    <3>1. w \in In("check") BY <1>0 DEF In
    <3>2. Cardinality(In("check") \ {w}) = Cardinality(In("check")) - 1 BY <3>1, InIsFinite, FS_RemoveElement
    <3>3. IsFiniteSet(In("check") \ {w}) BY InIsFinite, FS_RemoveElement
    <3> QED BY <2>1, <3>2, <3>3, FS_CardinalityType
  <2>5. NoWakeupLost' BY <1>0, <2>2, <2>4 DEF NoWakeupLost, PoolTypeOK
  <2> QED BY <1>4, <2>1, <2>3, <2>5 DEF Wait, PoolInv, PrefetchIsCapped
<1> QED BY <1>2, <1>3, <1>4
(* A worker that has ended looks at the queues, so a slot it frees has     *)
(* somebody to use it.                                                     *)
LEMMA EndInv ==
  ASSUME PoolTypeOK, PoolInv, NEW w \in Workers,
         InteractiveEnds(w) \/ PrefetchEnds(w) \/ WakesSpuriously(w)
  PROVE  PoolTypeOK' /\ PoolInv'
<1>0. /\ UNCHANGED <<owed, posts, interactive, prefetch>> /\ Startable \in Nat /\ running <= MaxPrefetch
  BY StartableType DEF InteractiveEnds, PrefetchEnds, WakesSpuriously, WorkerFrame, PoolInv
<1>1. \A state : Cardinality(In(state)) \in Nat BY InIsFinite
<1>2. Cardinality(Workers) \in Nat BY FS_CardinalityType
<1>3. CASE InteractiveEnds(w) \/ WakesSpuriously(w)
  <2>1. /\ worker' \in [Workers -> WorkerStates]
        /\ Cardinality(In("check"))' = Cardinality(In("check")) + 1
        /\ In("prefetch")' = In("prefetch")
    BY <1>3, MoveCounts DEF InteractiveEnds, WakesSpuriously, WorkerStates
  <2>2. running' = running /\ Startable' = Startable
    BY <1>3 DEF InteractiveEnds, WakesSpuriously, Startable, Slots
  <2>3. In("wait")' \subseteq In("wait")
    BY <1>3 DEF InteractiveEnds, WakesSpuriously, Goto, In, PoolTypeOK
  <2>4. PoolTypeOK' BY <1>0, <2>1, <2>2 DEF PoolTypeOK
  <2>5. NoWakeupLost' BY <1>0, <1>1, <2>1, <2>2, <2>3 DEF NoWakeupLost, PoolInv, PoolTypeOK
  <2> QED BY <2>1, <2>2, <2>4, <2>5 DEF PoolInv, PrefetchIsCapped
<1>4. CASE PrefetchEnds(w)
  <2>0. worker[w] = "prefetch" /\ running' = running - 1 BY <1>4 DEF PrefetchEnds
  <2>1. In("prefetch")' = In("prefetch") \ {w} /\ w \in In("prefetch")
    BY <1>4, <2>0 DEF PrefetchEnds, Goto, In, PoolTypeOK
  <2>2. Cardinality(In("prefetch"))' = Cardinality(In("prefetch")) - 1
    <3>1. Cardinality(In("prefetch") \ {w}) = Cardinality(In("prefetch")) - 1
      BY <2>1, InIsFinite, FS_RemoveElement
    <3> QED BY <2>1, <3>1
  <2>3. /\ running \in Nat \ {0} /\ running' \in Nat
        /\ running' = Cardinality(In("prefetch"))' /\ 2 * running' <= Cardinality(Workers)
    <3>1. Cardinality(In("prefetch")) > 0 BY <2>1, InIsFinite, FS_EmptySet
    <3> QED BY <1>2, <2>0, <2>2, <3>1 DEF PoolInv, PrefetchIsCapped, PoolTypeOK
  <2>4. worker' \in [Workers -> WorkerStates]
    BY <1>4 DEF PrefetchEnds, Goto, PoolTypeOK, WorkerStates
  <2>5. PoolTypeOK' BY <1>0, <2>3, <2>4 DEF PoolTypeOK
  <2>6. Startable' <= Startable + 1
    BY <1>0, <2>0, <2>3 DEF Startable, Slots, PoolTypeOK
  <2>7. In("wait")' \subseteq In("wait")
    BY <1>4 DEF PrefetchEnds, Goto, In, PoolTypeOK
  <2>8. Cardinality(In("check"))' >= Cardinality(In("check")) + 1
    <3>1. In("check")' = In("check") \cup {w}
          \/ \E v \in In("wait") : In("check")' = (In("check") \cup {w}) \cup {v}
      BY <1>4, <2>0 DEF PrefetchEnds, Goto, In, PoolTypeOK
    <3>2. w \notin In("check") BY <2>0 DEF In
    <3>3. /\ Cardinality(In("check") \cup {w}) = Cardinality(In("check")) + 1
          /\ IsFiniteSet(In("check") \cup {w})
      BY <3>2, InIsFinite, FS_AddElement
    <3>4. \A v \in In("wait") : v \notin In("check") \cup {w} BY <2>0 DEF In
    <3>5. \A v \in In("wait") :
             Cardinality((In("check") \cup {w}) \cup {v}) = Cardinality(In("check") \cup {w}) + 1
      BY <3>3, <3>4, FS_AddElement
    <3>6. CASE In("check")' = In("check") \cup {w}
      <4>1. Cardinality(In("check"))' = Cardinality(In("check")) + 1 BY <3>3, <3>6
      <4> QED BY <1>1, <4>1
    <3>7. CASE \E v \in In("wait") : In("check")' = (In("check") \cup {w}) \cup {v}
      <4>1. PICK v \in In("wait") : In("check")' = (In("check") \cup {w}) \cup {v} BY <3>7
      <4>2. Cardinality((In("check") \cup {w}) \cup {v}) = Cardinality(In("check")) + 2
        <5>1. Cardinality((In("check") \cup {w}) \cup {v}) = Cardinality(In("check") \cup {w}) + 1
          BY <3>5, Zenon
        <5> QED BY <1>1, <3>3, <5>1
      <4>3. Cardinality(In("check"))' = Cardinality(In("check")) + 2 BY <4>1, <4>2
      <4> QED BY <1>1, <4>3
    <3> QED BY <3>1, <3>6, <3>7
  <2>9. NoWakeupLost'
    <3>1. SUFFICES ASSUME (In("wait") # {})'
                   PROVE  Startable' <= owed' + Cardinality(In("check"))'
      BY DEF NoWakeupLost
    <3>2. Startable <= owed + Cardinality(In("check")) BY <2>7, <3>1 DEF PoolInv, NoWakeupLost
    <3>3. Cardinality(In("check"))' \in Nat
      <4>1. In("check")' \subseteq Workers BY DEF In
      <4>2. Cardinality(In("check")') \in Nat BY <4>1, FS_Subset, FS_CardinalityType
      <4> QED BY <4>2
    <3>4. Startable' \in Int BY <2>3, <1>0 DEF Startable, Slots, PoolTypeOK
    <3> QED BY <1>0, <1>1, <2>6, <2>8, <3>2, <3>3, <3>4 DEF PoolTypeOK
  <2>10. running' <= MaxPrefetch BY <1>0, <2>0, <2>3
  <2> QED BY <2>3, <2>5, <2>9, <2>10 DEF PoolInv, PrefetchIsCapped
<1> QED BY <1>3, <1>4

-----------------------------------------------------------------------------
(* Cap and wakeups hold in every reachable state of a pool of any size.    *)
THEOREM PoolInvariant == PoolSpec => [](PoolTypeOK /\ PoolInv)
<1>1. PoolInit => PoolTypeOK /\ PoolInv BY PoolInitInv
<1>2. PoolTypeOK /\ PoolInv /\ [PoolNext]_poolVars => (PoolTypeOK /\ PoolInv)'
  <2> SUFFICES ASSUME PoolTypeOK, PoolInv, [PoolNext]_poolVars PROVE PoolTypeOK' /\ PoolInv'
    OBVIOUS
  <2>1. CASE PostInteractive \/ PostPrefetch BY <2>1, PostInv
  <2>2. CASE Notify BY <2>2, NotifyInv
  <2>3. CASE \E w \in Workers : WorkerStep(w) \/ WakesSpuriously(w)
    BY <2>3, CheckInv, EndInv DEF WorkerStep
  <2>4. CASE UNCHANGED poolVars
    <3>1. \A state : In(state)' = In(state) BY <2>4 DEF poolVars, In
    <3> QED BY <2>4, <3>1
        DEF poolVars, PoolTypeOK, PoolInv, PrefetchIsCapped, NoWakeupLost, Startable, Slots
  <2> QED BY <2>1, <2>2, <2>3, <2>4 DEF PoolNext
<1> QED BY <1>1, <1>2, PTL DEF PoolSpec

(* At most half the workers ever run prefetch jobs.                        *)
THEOREM PrefetchIsCappedHolds == PoolSpec => []PrefetchIsCapped
<1>1. PoolInv => PrefetchIsCapped BY DEF PoolInv
<1> QED BY <1>1, PoolInvariant, PTL

(* No worker sleeps while there is a job that nobody is on the way to.     *)
THEOREM NoWakeupLostHolds == PoolSpec => []NoWakeupLost
<1>1. PoolInv => NoWakeupLost BY DEF PoolInv
<1> QED BY <1>1, PoolInvariant, PTL

HIDE PoolAssumption DEF PoolAssumption

-----------------------------------------------------------------------------
(* The daily ledger of the realtime session, for any budget, any length of *)
(* sessions and any number of days and restarts.                           *)
USE LedgerAssumption DEF LedgerAssumption

(* A new device has spent nothing.                                         *)
LEMMA LedgerInitInv == LedgerInit => LedgerTypeOK /\ LedgerInv
<1> SUFFICES ASSUME LedgerInit PROVE LedgerTypeOK /\ LedgerInv
  OBVIOUS
<1>1. Nothing \in Entries BY DEF Nothing, Entries
<1>2. LedgerTypeOK BY <1>1 DEF LedgerInit, LedgerTypeOK, LedgerSteps
<1>3. LedgerInv
  BY DEF LedgerInit, LedgerInv, DatesArePast, EntryIsBounded, NeverOvercharged, TotalIsExact, SpentIsAccounted,
     SecondsUsedToday, Nothing, InSession, LedgerSteps
<1> QED BY <1>2, <1>3

(* The records of the ledger, field by field.                              *)
LEMMA EntryFields ==
  ASSUME LedgerTypeOK
  PROVE  /\ ledger.date \in Nat /\ ledger.seconds \in Nat /\ ledger.seconds < Budget + MaxSeconds
         /\ entry.date \in Nat /\ entry.seconds \in Nat /\ entry.seconds < Budget + MaxSeconds
         /\ SecondsUsedToday \in Nat
BY DEF LedgerTypeOK, Entries, SecondsUsedToday

(* A session starts, lasts and stops: today's total stands still.          *)
LEMMA LedgerSessionInv ==
  ASSUME LedgerTypeOK, LedgerInv, StartSession \/ SecondPasses \/ CloseSession PROVE LedgerTypeOK' /\ LedgerInv'
<1>1. LedgerTypeOK' BY DEF StartSession, SecondPasses, CloseSession, LedgerTypeOK, LedgerSteps
<1>2. UNCHANGED <<ledger, entry, day, recorded, restarts>> BY DEF StartSession, SecondPasses, CloseSession
<1>3. stage' \notin {"sum", "truncate", "write"} /\ stage # "write" BY DEF StartSession, SecondPasses, CloseSession
<1>4. /\ (DatesArePast /\ NeverOvercharged)' /\ SecondsUsedToday' = SecondsUsedToday
  BY <1>2, <1>3 DEF LedgerInv, DatesArePast, NeverOvercharged, SecondsUsedToday
<1>5. EntryIsBounded'
  BY <1>2, <1>3, <1>4 DEF StartSession, SecondPasses, CloseSession, LedgerInv, EntryIsBounded, InSession, LedgerSteps
<1>6. restarts = 0 => (TotalIsExact /\ SpentIsAccounted)'
  BY <1>2, <1>3, <1>4, EntryFields
  DEF StartSession, SecondPasses, CloseSession, LedgerInv, TotalIsExact, SpentIsAccounted, EntryIsBounded, InSession,
      LedgerSteps, LedgerTypeOK
<1> QED BY <1>1, <1>2, <1>4, <1>5, <1>6 DEF LedgerInv

(* The entry is dated, summed up and replaces the total it contains.       *)
LEMMA LedgerRecordInv ==
  ASSUME LedgerTypeOK, LedgerInv, LookUpDate \/ Sum \/ Truncate \/ WriteEntry PROVE LedgerTypeOK' /\ LedgerInv'
<1> USE EntryFields DEF LedgerInv, DatesArePast, NeverOvercharged, EntryIsBounded, TotalIsExact,
        SpentIsAccounted, SecondsUsedToday, InSession, LedgerSteps, LedgerTypeOK
<1>1. CASE LookUpDate
  <2>1. entry'.date = day /\ entry'.seconds = entry.seconds /\ entry' \in Entries
    BY <1>1 DEF LookUpDate, Entries
  <2> QED BY <1>1, <2>1 DEF LookUpDate
<1>2. CASE Sum
  <2>1. SecondsUsedToday + elapsed \in 0..(Budget + MaxSeconds - 1) BY <1>2 DEF Sum
  <2>2. entry'.date = entry.date /\ entry'.seconds = SecondsUsedToday + elapsed /\ entry' \in Entries
    BY <1>2, <2>1 DEF Sum, Entries
  <2> QED BY <1>2, <2>2 DEF Sum
<1>3. CASE Truncate
  <2>1. Nothing \in Entries /\ Nothing.date = 0 BY DEF Nothing, Entries
  <2> QED BY <1>3, <2>1 DEF Truncate
<1>4. CASE WriteEntry
  BY <1>4 DEF WriteEntry, Nothing
<1> QED BY <1>1, <1>2, <1>3, <1>4

(* At midnight the total starts over, and no entry is of the new day yet.  *)
LEMMA LedgerMidnightInv ==
  ASSUME LedgerTypeOK, LedgerInv, Midnight PROVE LedgerTypeOK' /\ LedgerInv'
BY EntryFields DEF Midnight, LedgerInv, DatesArePast, NeverOvercharged, EntryIsBounded, TotalIsExact,
   SpentIsAccounted, SecondsUsedToday, InSession, LedgerSteps, LedgerTypeOK

(* A crash may forget seconds, it never invents any.                       *)
LEMMA LedgerCrashInv ==
  ASSUME LedgerTypeOK, LedgerInv, Restart PROVE LedgerTypeOK' /\ LedgerInv'
<1>1. Nothing \in Entries BY DEF Nothing, Entries
<1> QED BY <1>1, EntryFields DEF Restart, LedgerInv, DatesArePast, NeverOvercharged, EntryIsBounded,
   SecondsUsedToday, InSession, LedgerSteps, LedgerTypeOK

-----------------------------------------------------------------------------
(* The inductive invariant holds wherever midnight and restarts fall.      *)
THEOREM LedgerInvariant == LedgerSpec => [](LedgerTypeOK /\ LedgerInv)
<1>1. LedgerInit => LedgerTypeOK /\ LedgerInv BY LedgerInitInv
<1>2. LedgerTypeOK /\ LedgerInv /\ [LedgerNext]_ledgerVars => (LedgerTypeOK /\ LedgerInv)'
  <2>1. ASSUME LedgerTypeOK, LedgerInv, UNCHANGED ledgerVars PROVE LedgerTypeOK' /\ LedgerInv'
    BY <2>1 DEF ledgerVars, LedgerInv, DatesArePast, NeverOvercharged, EntryIsBounded, TotalIsExact,
       SpentIsAccounted, SecondsUsedToday, LedgerTypeOK
  <2> QED BY <2>1, LedgerSessionInv, LedgerRecordInv, LedgerMidnightInv, LedgerCrashInv DEF LedgerNext
<1> QED BY <1>1, <1>2, PTL DEF LedgerSpec

(* The ledger never charges a day for seconds that were not recorded on it.*)
THEOREM NeverOverchargedHolds == LedgerSpec => []NeverOvercharged
<1>1. LedgerInv => NeverOvercharged BY DEF LedgerInv
<1> QED BY <1>1, LedgerInvariant, PTL

(* Without restarts a day overruns its budget by less than one session.    *)
THEOREM DailyOverrunHolds == LedgerSpec => []DailyOverrun
<1>1. LedgerInv => DailyOverrun BY DEF LedgerInv, SpentIsAccounted, DailyOverrun
<1> QED BY <1>1, LedgerInvariant, PTL

HIDE LedgerAssumption DEF LedgerAssumption

-----------------------------------------------------------------------------
(* A step of the system is a step of one component or leaves it alone.     *)
LEMMA StepsOfServices ==
  ASSUME [Next]_vars
  PROVE  [PerfNext]_perfVars /\ [PoolNext]_poolVars /\ [LedgerNext]_ledgerVars /\ [ClientNext]_clientVars
<1>1. CASE Perf(PerfNext) BY <1>1, Zenon DEF Perf
<1>2. CASE Pool(PoolNext) BY <1>2, Zenon DEF Pool
<1>3. CASE Ledger(LedgerNext) BY <1>3, Zenon DEF Ledger
<1>4. CASE Client(ClientNext) BY <1>4, Zenon DEF Client
<1>5. CASE UNCHANGED vars BY <1>5 DEF vars
<1> QED BY <1>1, <1>2, <1>3, <1>4, <1>5, Zenon DEF Next

(* The composition implements the specification of each of its components. *)
THEOREM ComponentsOfServices == Spec => PerfSpec /\ PoolSpec /\ LedgerSpec /\ ClientSpec
<1>1. Init => PerfInit /\ PoolInit /\ LedgerInit /\ ClientInit BY DEF Init
<1> QED BY <1>1, StepsOfServices, PTL DEF Spec, PerfSpec, PoolSpec, LedgerSpec, ClientSpec

(* The inductive invariants of all the services hold together, if one of   *)
(* the governor's candidate files can be written.                          *)
THEOREM ServicesInvariant == ASSUME PersistWorks PROVE Spec => []ServicesInv
<1>1. /\ PerfTypeOK /\ PerfInv /\ PoolTypeOK /\ PoolInv /\ LedgerTypeOK /\ LedgerInv /\ ClientInv
      => ServicesInv
  BY DEF ServicesInv
<1> QED BY <1>1, ComponentsOfServices, PerfInvariant, PoolInvariant, LedgerInvariant, ClientInvariant, PTL

(* What the services promise, of the system they form: a crash is          *)
(* repairable, no wakeup is lost, the session never hears itself and no    *)
(* day is overcharged.                                                     *)
THEOREM ServicesAreSafe ==
  ASSUME PersistWorks
  PROVE  Spec => [](CrashIsRepairable /\ NoWakeupLost /\ NeverHearsItself /\ NeverOvercharged)
<1>1. ServicesInv => CrashIsRepairable /\ NoWakeupLost /\ NeverOvercharged
  BY DEF ServicesInv, PerfInv, PoolInv, LedgerInv
<1> QED BY <1>1, ServicesInvariant, ComponentsOfServices, NeverHearsItselfHolds, PTL
=============================================================================
