---------------------------- MODULE DeviceProofs ----------------------------
(***************************************************************************)
(* Proofs about the timer, the morning alarm, the covers, the speech       *)
(* engine, the battery and the sound card, for any number of threads and   *)
(* any bounds: their type and their inductive invariants, and from these   *)
(* that a silenced timer stays silent, that the alarm rings once a day and *)
(* is not missed, that covers are whole and that scores are paired with    *)
(* frames.                                                                 *)
(***************************************************************************)
EXTENDS TimerTool, AlarmClock, ArtworkCache, SpeechEngine, BatteryWatch, AudioDevices,
        FiniteSetTheorems, SequenceTheorems, TLAPS

USE TimerAssumption, ArtAssumption, AlarmAssumption, SpeechAssumption
 DEF TimerAssumption, ArtAssumption, AlarmAssumption, SpeechAssumption

(* A new timer gets a generation above all there were, and silences the    *)
(* one that was armed.                                                     *)
LEMMA SetTimerInv ==
  ASSUME TimerTypeOK, TimerInv, NEW a \in Askers, SetTimer(a) PROVE TimerTypeOK' /\ TimerInv'
<1> USE DEF SetTimer
<1>1. TimerTypeOK'
  <2>1. generation + 1 \in Generations /\ generation + 1 \in 0 .. MaxTimers
    BY DEF TimerTypeOK, Generations
  <2>2. Current \subseteq Generations
    BY DEF TimerTypeOK, TimerInv, Generations, Current
  <2>3. spawning' \in [Askers -> 0 .. MaxTimers] BY <2>1 DEF TimerTypeOK
  <2> QED BY <2>1, <2>2, <2>3 DEF TimerTypeOK
<1>2. /\ \A b \in Askers : spawning'[b] = (IF b = a THEN generation + 1 ELSE spawning[b])
      /\ generation' = generation + 1 /\ armed' /\ generation \in Nat
  BY DEF TimerTypeOK
<1>3. \A g \in sleepers \cup ringing \cup rung \cup silenced' : g \in Nat /\ g <= generation
  BY DEF TimerTypeOK, TimerInv, Generations, Current
<1>4. (\A b \in Askers : spawning[b] \in Nat /\ spawning[b] <= generation)
  BY DEF TimerTypeOK, TimerInv
<1>5. (armed => /\ generation > 0
                /\ generation \in sleepers \/ \E b \in Askers : spawning[b] = generation)'
  BY <1>2
<1>6. (\A b \in Askers : spawning[b] <= generation /\ spawning[b] \notin sleepers)'
  BY <1>2, <1>3, <1>4 DEF TimerInv
<1>7. (\A b, c \in Askers : b # c /\ spawning[b] = spawning[c] => spawning[b] = 0)'
  BY <1>2, <1>4 DEF TimerInv
<1>8. (\A g \in sleepers \cup ringing \cup rung \cup silenced : g <= generation)'
  BY <1>2, <1>3
<1>9. (Current \cap (silenced \cup ringing \cup rung) = {})' BY <1>2, <1>3 DEF Current
<1>10. ((ringing \cup rung) \cap silenced = {})' BY DEF TimerInv
<1> QED BY <1>1, <1>5, <1>6, <1>7, <1>8, <1>9, <1>10 DEF TimerInv

(* A cancelled timer is silenced, and its generation is no longer current. *)
LEMMA CancelTimerInv ==
  ASSUME TimerTypeOK, TimerInv, NEW a \in Askers, CancelTimer(a) PROVE TimerTypeOK' /\ TimerInv'
<1> USE DEF CancelTimer
<1>1. TimerTypeOK'
  <2>1. generation + 1 \in 0 .. MaxTimers BY DEF TimerTypeOK
  <2>2. Current \subseteq Generations
    BY DEF TimerTypeOK, TimerInv, Generations, Current
  <2> QED BY <2>1, <2>2 DEF TimerTypeOK
<1>2. \A g \in sleepers \cup ringing \cup rung \cup silenced' : g \in Nat /\ g <= generation
  BY DEF TimerTypeOK, TimerInv, Generations, Current
<1>3. \A b \in Askers : spawning[b] \in Nat /\ spawning[b] <= generation
  BY DEF TimerTypeOK, TimerInv
<1>4. generation' = generation + 1 /\ generation \in Nat /\ Current' = {}
  BY DEF TimerTypeOK, Current
<1>5. ((ringing \cup rung) \cap silenced = {})' BY DEF TimerInv
<1>6. (armed => /\ generation > 0
                /\ generation \in sleepers \/ \E b \in Askers : spawning[b] = generation)'
  OBVIOUS
<1>7. (\A b \in Askers : spawning[b] <= generation /\ spawning[b] \notin sleepers)'
  BY <1>3, <1>4 DEF TimerInv
<1>8. (\A b, c \in Askers : b # c /\ spawning[b] = spawning[c] => spawning[b] = 0)'
  BY DEF TimerInv
<1>9. (\A g \in sleepers \cup ringing \cup rung \cup silenced : g <= generation)'
  BY <1>2, <1>4
<1>10. (Current \cap (silenced \cup ringing \cup rung) = {})' BY <1>4
<1> QED BY <1>1, <1>5, <1>6, <1>7, <1>8, <1>9, <1>10 DEF TimerInv

(* The thread that is started sleeps with the generation it was given.     *)
LEMMA SpawnSleeperInv ==
  ASSUME TimerTypeOK, TimerInv, NEW a \in Askers, SpawnSleeper(a) PROVE TimerTypeOK' /\ TimerInv'
<1> USE DEF SpawnSleeper
<1>1. TimerTypeOK'
  <2>1. spawning[a] \in Generations BY DEF TimerTypeOK, Generations
  <2>2. spawning' \in [Askers -> 0 .. MaxTimers] BY DEF TimerTypeOK
  <2> QED BY <2>1, <2>2 DEF TimerTypeOK
<1>2. \A b \in Askers : spawning'[b] = (IF b = a THEN 0 ELSE spawning[b])
  BY DEF TimerTypeOK
<1>3. Current' = Current BY DEF Current
<1>4. (armed => /\ generation > 0
                /\ generation \in sleepers \/ \E b \in Askers : spawning[b] = generation)'
  BY <1>2 DEF TimerInv
<1>5. 0 \notin sleepers BY DEF TimerTypeOK, Generations
<1>6. (\A b \in Askers : spawning[b] <= generation /\ spawning[b] \notin sleepers)'
  <2> SUFFICES ASSUME NEW b \in Askers
               PROVE  spawning'[b] <= generation /\ spawning'[b] \notin sleepers \cup {spawning[a]}
    OBVIOUS
  <2>1. CASE b = a BY <2>1, <1>2, <1>5 DEF TimerTypeOK
  <2>2. CASE b # a BY <2>2, <1>2 DEF TimerInv
  <2> QED BY <2>1, <2>2
<1>7. (\A b, c \in Askers : b # c /\ spawning[b] = spawning[c] => spawning[b] = 0)'
  BY <1>2 DEF TimerInv
<1>8. (\A g \in sleepers \cup ringing \cup rung \cup silenced : g <= generation)' BY DEF TimerInv
<1>9. (Current \cap (silenced \cup ringing \cup rung) = {})' BY <1>3 DEF TimerInv
<1>10. ((ringing \cup rung) \cap silenced = {})' BY DEF TimerInv
<1> QED BY <1>1, <1>4, <1>6, <1>7, <1>8, <1>9, <1>10 DEF TimerInv

(* A thread that wakes rings only with the current generation, which it    *)
(* disarms; no asker is about to start another thread for it.              *)
LEMMA WakeSleeperInv ==
  ASSUME TimerTypeOK, TimerInv, NEW g \in Generations, WakeSleeper(g)
  PROVE  TimerTypeOK' /\ TimerInv'
<1> USE DEF WakeSleeper
<1>1. TimerTypeOK' BY DEF TimerTypeOK
<1>2. g <= generation /\ g \in sleepers BY DEF TimerInv
<1>3. CASE g \in Current
  <2>1. g = generation /\ armed /\ Current' = {} /\ ~armed' BY <1>3 DEF Current
  <2>2. (\A b \in Askers : spawning[b] <= generation /\ spawning[b] \notin sleepers)'
    BY DEF TimerInv
  <2>3. (\A h \in sleepers \cup ringing \cup rung \cup silenced : h <= generation)'
    BY DEF TimerInv
  <2>4. g \notin silenced BY <1>3 DEF TimerInv
  <2>5. ((ringing \cup rung) \cap silenced = {})' BY <2>4 DEF TimerInv
  <2> QED BY <1>1, <2>1, <2>2, <2>3, <2>5 DEF TimerInv
<1>4. CASE g \notin Current
  <2>1. Current' = Current /\ armed' = armed BY <1>4 DEF Current, TimerTypeOK
  <2>2. armed => g # generation BY <1>4 DEF Current
  <2> QED BY <1>1, <1>4, <2>1, <2>2 DEF TimerInv
<1> QED BY <1>3, <1>4

(* What rings was not silenced, and is spoken.                             *)
LEMMA RingInv ==
  ASSUME TimerTypeOK, TimerInv, NEW g \in Generations, Ring(g) PROVE TimerTypeOK' /\ TimerInv'
<1>1. TimerTypeOK' BY DEF Ring, TimerTypeOK
<1>2. Current' = Current BY DEF Ring, Current
<1> QED BY <1>1, <1>2 DEF Ring, TimerInv

(* The generations do their work in every reachable state.                 *)
THEOREM TimerInvariant == TimerSpec => [](TimerTypeOK /\ TimerInv)
<1>1. TimerInit => TimerTypeOK /\ TimerInv
  <2> SUFFICES ASSUME TimerInit PROVE TimerTypeOK /\ TimerInv
    OBVIOUS
  <2>1. spawning \in [Askers -> 0 .. MaxTimers] BY DEF TimerInit
  <2>2. 0 \in 0 .. MaxTimers OBVIOUS
  <2>3. TimerTypeOK BY <2>1, <2>2, Zenon DEF TimerInit, TimerTypeOK
  <2>4. TimerInv BY DEF TimerInit, TimerInv, Current
  <2> QED BY <2>3, <2>4
<1>2. TimerTypeOK /\ TimerInv /\ [TimerNext]_timerVars => (TimerTypeOK /\ TimerInv)'
  <2> SUFFICES ASSUME TimerTypeOK, TimerInv, [TimerNext]_timerVars
               PROVE  TimerTypeOK' /\ TimerInv'
    OBVIOUS
  <2>1. CASE UNCHANGED timerVars BY <2>1 DEF timerVars, TimerTypeOK, TimerInv, Current
  <2>2. CASE TimerNext
    BY <2>2, SetTimerInv, CancelTimerInv, SpawnSleeperInv, WakeSleeperInv, RingInv
    DEF TimerNext, SleeperStep
  <2> QED BY <2>1, <2>2
<1> QED BY <1>1, <1>2, PTL DEF TimerSpec

(* A timer that was cancelled or replaced while it was armed is never      *)
(* spoken, whichever thread wakes when.                                    *)
THEOREM SilencedIsSilentHolds == TimerSpec => []SilencedIsSilent
<1>1. TimerInv => SilencedIsSilent BY DEF TimerInv, SilencedIsSilent
<1> QED BY <1>1, TimerInvariant, PTL

-----------------------------------------------------------------------------
(* The covers are whole together with what every thread has under way.     *)
ArtIndInv == ArtTypeOK /\ ArtInv /\ CoversAreWhole

(* A thread that moves, and what it may leave in its temporary file.       *)
LEMMA MovesTypes ==
  ASSUME ArtTypeOK, NEW d \in Downloaders, NEW at \in {"idle", "look", "migrate", "create",
         "transfer", "publish"}, Moves(d, at)
  PROVE  /\ fetchAt' \in [Downloaders -> {"idle", "look", "migrate", "create", "transfer",
                                          "publish"}]
         /\ \A e \in Downloaders : fetchAt'[e] = (IF e = d THEN at ELSE fetchAt[e])
BY DEF ArtTypeOK, Moves

(* What a thread is given is a whole cover when the cover is.              *)
LEMMA ReturnsTypes ==
  ASSUME ArtTypeOK, CoversAreWhole, NEW d \in Downloaders, NEW content \in File,
         content # "begun", Returns(d, content)
  PROVE  /\ given' \in [Downloaders -> File]
         /\ \A e \in Downloaders : given'[e] # "begun"
BY DEF ArtTypeOK, Returns, CoversAreWhole

(* A fetch that begins, or that looks for a cover that is there.           *)
LEMMA LookInv ==
  ASSUME ArtIndInv, NEW d \in Downloaders, DownloadArtwork(d) \/ LookInCache(d)
  PROVE  ArtIndInv'
<1>0. ArtTypeOK /\ ArtInv /\ CoversAreWhole BY DEF ArtIndInv
<1>1. CASE DownloadArtwork(d)
  <2>1. fetches + 1 \in 0 .. MaxFetches BY <1>0, <1>1 DEF DownloadArtwork, ArtTypeOK
  <2>2. ArtTypeOK' BY <1>0, <1>1, <2>1, MovesTypes DEF DownloadArtwork, ArtTypeOK
  <2>3. ArtInv' BY <1>0, <1>1, MovesTypes DEF DownloadArtwork, ArtInv
  <2>4. CoversAreWhole' BY <1>0, <1>1 DEF DownloadArtwork, CoversAreWhole
  <2> QED BY <2>2, <2>3, <2>4 DEF ArtIndInv
<1>2. CASE LookInCache(d)
  <2>1. PICK at \in {"idle", "migrate"} : Moves(d, at)
    BY <1>2 DEF LookInCache, Returns
  <2>2. given' \in [Downloaders -> File] /\ \A e \in Downloaders : given'[e] # "begun"
    BY <1>0, <1>2, ReturnsTypes DEF LookInCache, ArtTypeOK, CoversAreWhole
  <2>3. ArtTypeOK' BY <1>0, <1>2, <2>1, <2>2, MovesTypes DEF LookInCache, ArtTypeOK
  <2>4. ArtInv' BY <1>0, <1>2, <2>1, MovesTypes DEF LookInCache, ArtInv
  <2>5. CoversAreWhole' BY <1>0, <1>2, <2>2 DEF LookInCache, CoversAreWhole
  <2> QED BY <2>3, <2>4, <2>5 DEF ArtIndInv
<1> QED BY <1>1, <1>2

(* The cover of an older version is whole.                                 *)
LEMMA MigrateInv == ASSUME ArtIndInv, NEW d \in Downloaders, Migrate(d) PROVE ArtIndInv'
<1>0. ArtTypeOK /\ ArtInv /\ CoversAreWhole BY DEF ArtIndInv
<1>1. PICK at \in {"idle", "create"} : Moves(d, at) BY DEF Migrate, Returns
<1>2. cover' \in File /\ cover' # "begun"
  BY <1>0 DEF Migrate, ArtTypeOK, ArtInv, CoversAreWhole
<1>3. given' \in [Downloaders -> File] /\ \A e \in Downloaders : given'[e] # "begun"
  BY <1>0, <1>2, ReturnsTypes DEF Migrate, ArtTypeOK, CoversAreWhole
<1>4. ArtTypeOK' BY <1>0, <1>1, <1>2, <1>3, MovesTypes DEF Migrate, ArtTypeOK
<1>5. ArtInv' BY <1>0, <1>1, MovesTypes DEF Migrate, ArtInv
<1>6. CoversAreWhole' BY <1>2, <1>3 DEF CoversAreWhole
<1> QED BY <1>4, <1>5, <1>6 DEF ArtIndInv

(* The temporary file of a thread is nobody else's.                        *)
LEMMA TransferInv ==
  ASSUME ArtIndInv, NEW d \in Downloaders, CreatePart(d) \/ TransferFails(d) \/ TransferEnds(d)
  PROVE  ArtIndInv'
<1>0. ArtTypeOK /\ ArtInv /\ CoversAreWhole BY DEF ArtIndInv
<1>1. UNCHANGED <<cover, legacy, given, fetches, kills>>
  BY DEF CreatePart, TransferFails, TransferEnds
<1>2. PICK at \in {"idle", "transfer", "publish"} :
        /\ Moves(d, at)
        /\ parts' = [parts EXCEPT ![d] = IF at = "idle" THEN "none"
                                         ELSE IF at = "transfer" THEN "begun" ELSE "whole"]
  <2>1. CASE CreatePart(d) /\ UNCHANGED parts
    <3>1. fetchAt[d] = "create" BY <2>1 DEF CreatePart
    <3>2. parts[d] = "none" BY <1>0, <3>1 DEF ArtInv
    <3>3. parts' = [parts EXCEPT ![d] = "none"] BY <1>0, <2>1, <3>2 DEF ArtTypeOK
    <3>4. Moves(d, "idle") \/ Moves(d, "transfer") BY <2>1 DEF CreatePart
    <3>5. CASE Moves(d, "idle") BY <3>3, <3>5
    <3>6. CASE ~Moves(d, "idle")
      <4>1. parts'[d] = "begun" BY <1>0, <2>1, <3>6 DEF CreatePart, ArtTypeOK
      <4> QED BY <2>1, <3>2, <4>1
    <3> QED BY <3>5, <3>6
  <2>2. CASE CreatePart(d) /\ parts' # parts BY <2>2 DEF CreatePart
  <2>3. CASE TransferFails(d) BY <2>3 DEF TransferFails
  <2>4. CASE TransferEnds(d) BY <2>4 DEF TransferEnds
  <2> QED BY <2>1, <2>2, <2>3, <2>4
<1>3. parts' \in [Downloaders -> File] BY <1>0, <1>2 DEF ArtTypeOK, File
<1>4. ArtTypeOK' BY <1>0, <1>1, <1>2, <1>3, MovesTypes DEF ArtTypeOK
<1>5. \A e \in Downloaders : e # d => parts'[e] = parts[e] /\ fetchAt'[e] = fetchAt[e]
  BY <1>0, <1>2, MovesTypes DEF ArtTypeOK
<1>6. /\ fetchAt'[d] = at
      /\ parts'[d] = IF at = "idle" THEN "none" ELSE IF at = "transfer" THEN "begun" ELSE "whole"
  BY <1>0, <1>2, MovesTypes DEF ArtTypeOK
<1>7. ArtInv' BY <1>0, <1>1, <1>5, <1>6 DEF ArtInv
<1>8. CoversAreWhole' BY <1>0, <1>1 DEF CoversAreWhole
<1> QED BY <1>4, <1>7, <1>8 DEF ArtIndInv

(* Only a whole file is renamed, and another thread's cover is whole.      *)
LEMMA PublishInv == ASSUME ArtIndInv, NEW d \in Downloaders, Publish(d) PROVE ArtIndInv'
<1>0. ArtTypeOK /\ ArtInv /\ CoversAreWhole BY DEF ArtIndInv
<1>1. Moves(d, "idle") /\ parts' = [parts EXCEPT ![d] = "none"] /\ fetchAt[d] = "publish"
      /\ UNCHANGED <<legacy, fetches, kills>>
  BY DEF Publish, Returns
<1>2. parts[d] = "whole" BY <1>0, <1>1 DEF ArtInv
<1>3. cover' \in File /\ cover' # "begun" BY <1>0, <1>2 DEF Publish, File, ArtTypeOK, CoversAreWhole
<1>4. given' \in [Downloaders -> File] /\ \A e \in Downloaders : given'[e] # "begun"
  BY <1>0, <1>2, <1>3, ReturnsTypes DEF Publish, ArtTypeOK, CoversAreWhole, File
<1>5. parts' \in [Downloaders -> File] BY <1>0, <1>1 DEF ArtTypeOK, File
<1>6. ArtTypeOK' BY <1>0, <1>1, <1>3, <1>4, <1>5, MovesTypes DEF ArtTypeOK
<1>7. \A e \in Downloaders : /\ e # d => parts'[e] = parts[e] /\ fetchAt'[e] = fetchAt[e]
                             /\ e = d => parts'[e] = "none" /\ fetchAt'[e] = "idle"
  BY <1>0, <1>1, MovesTypes DEF ArtTypeOK
<1>8. ArtInv' BY <1>0, <1>1, <1>7 DEF ArtInv
<1>9. CoversAreWhole' BY <1>3, <1>4 DEF CoversAreWhole
<1> QED BY <1>6, <1>8, <1>9 DEF ArtIndInv

(* A death of the process leaves the cover as it was.                      *)
LEMMA KillInv == ASSUME ArtIndInv, Kill PROVE ArtIndInv'
<1>0. ArtTypeOK /\ ArtInv /\ CoversAreWhole BY DEF ArtIndInv
<1>1. kills' \in 0 .. MaxKills BY <1>0 DEF Kill, ArtTypeOK
<1>2. ArtTypeOK' BY <1>0, <1>1 DEF Kill, ArtTypeOK, File
<1>3. ArtInv' BY <1>0 DEF Kill, ArtInv
<1>4. CoversAreWhole' BY <1>0 DEF Kill, CoversAreWhole
<1> QED BY <1>2, <1>3, <1>4 DEF ArtIndInv

(* Covers are whole in every reachable state, for any number of threads.   *)
THEOREM ArtInvariant == ArtSpec => []ArtIndInv
<1>1. ArtInit => ArtIndInv
  <2> SUFFICES ASSUME ArtInit PROVE ArtIndInv
    OBVIOUS
  <2>1. ArtTypeOK BY DEF ArtInit, ArtTypeOK, File
  <2>2. ArtInv /\ CoversAreWhole BY DEF ArtInit, ArtInv, CoversAreWhole
  <2> QED BY <2>1, <2>2 DEF ArtIndInv
<1>2. ArtIndInv /\ [ArtNext]_artVars => ArtIndInv'
  <2> SUFFICES ASSUME ArtIndInv, [ArtNext]_artVars PROVE ArtIndInv'
    OBVIOUS
  <2>1. CASE UNCHANGED artVars
    BY <2>1 DEF artVars, ArtIndInv, ArtTypeOK, ArtInv, CoversAreWhole
  <2>2. CASE ArtNext
    BY <2>2, LookInv, MigrateInv, TransferInv, PublishInv, KillInv DEF ArtNext
  <2> QED BY <2>1, <2>2
<1> QED BY <1>1, <1>2, PTL DEF ArtSpec

(* What is given as a cover is never torn, wherever the process dies.      *)
THEOREM CoversAreWholeHolds == ArtSpec => []CoversAreWhole
<1>1. ArtIndInv => CoversAreWhole BY DEF ArtIndInv
<1> QED BY <1>1, ArtInvariant, PTL

-----------------------------------------------------------------------------
(* The notes and the days together: a note is read out once more only for  *)
(* a crash, also after it was marked.                                      *)
AlarmIndInv == AlarmTypeOK /\ AlarmInv /\ SpokenOnce

(* Everything that a change of the alarm or of the charger leaves alone.   *)
ClockFrame == UNCHANGED <<today, minute, ticked, loop, notes, pending, added, alarmCrashes,
                          rings, skipped, spoken, dropped>>

(* A change of the alarm never undoes the mark of a day, and the minute it *)
(* falls in is not a steady one.  A time that was lost with the mark is set*)
(* anew at the price of one more in again.                                 *)
LEMMA ChangeInv ==
  ASSUME AlarmIndInv, Charger \/ SetAlarmTime \/ EnableAlarm \/ CancelAlarm
  PROVE  AlarmIndInv'
<1>0. AlarmTypeOK /\ AlarmInv /\ SpokenOnce BY DEF AlarmIndInv
<1>1. ClockFrame
  BY DEF ClockFrame, historyVars, Charger, SetAlarmTime, EnableAlarm, CancelAlarm
<1>2. /\ alarm' \in AlarmSettings
      /\ alarm'.last = alarm.last
      /\ ~steady' \/ (alarm' = alarm /\ steady' = steady)
  <2>1. CASE Charger BY <1>0, <2>1 DEF Charger, AlarmTypeOK
  <2>2. CASE SetAlarmTime BY <1>0, <2>2 DEF SetAlarmTime, AlarmTypeOK, AlarmSettings
  <2>3. CASE EnableAlarm BY <1>0, <2>3 DEF EnableAlarm, AlarmTypeOK, AlarmSettings
  <2>4. CASE CancelAlarm BY <1>0, <2>4 DEF CancelAlarm, AlarmTypeOK, AlarmSettings
  <2> QED BY <2>1, <2>2, <2>3, <2>4
<1>3. setting' \in BOOLEAN /\ charging' \in BOOLEAN /\ steady' \in BOOLEAN
  BY <1>0, Zenon DEF Charger, SetAlarmTime, EnableAlarm, CancelAlarm, AlarmTypeOK
<1>4. changes' \in 0 .. MaxChanges
  BY <1>0 DEF Charger, SetAlarmTime, EnableAlarm, CancelAlarm, AlarmTypeOK
<1>5. /\ again' \in [Days -> Nat]
      /\ \A d \in Days : again[d] <= again'[d] /\ rings[d] \in Nat /\ again[d] \in Nat
      /\ \/ again' = again /\ (alarm'.time # NoTime => alarm.time # NoTime)
         \/ again' = again /\ alarm.last = today
         \/ again' = again /\ rings[today] = 0
         \/ again'[today] = again[today] + 1
  <2>1. again \in [Days -> Nat] /\ rings \in [Days -> Nat] /\ today \in Days
    BY <1>0 DEF AlarmTypeOK
  <2>2. CASE SetAlarmTime BY <2>1, <2>2 DEF SetAlarmTime
  <2>3. CASE Charger BY <2>1, <2>3 DEF Charger, historyVars
  <2>4. CASE EnableAlarm \/ CancelAlarm
    <3>1. alarm'.time = alarm.time
      BY <1>0, <2>4 DEF EnableAlarm, CancelAlarm, AlarmTypeOK, AlarmSettings
    <3> QED BY <2>1, <2>4, <3>1 DEF EnableAlarm, CancelAlarm, historyVars
  <2> QED BY <2>2, <2>3, <2>4
<1>6. AlarmTypeOK' BY <1>0, <1>1, <1>2, <1>3, <1>4, <1>5, Zenon DEF AlarmTypeOK, ClockFrame
<1>7. today \in Days BY <1>0 DEF AlarmTypeOK
<1>8. /\ RingsOncePerDay'
      /\ (alarm.last # today /\ alarm.time # NoTime => rings[today] <= again[today])'
      /\ (loop = "marked" => alarm.last = today /\ rings[today] <= again[today])'
  BY <1>0, <1>1, <1>2, <1>5, <1>7 DEF AlarmInv, RingsOncePerDay, ClockFrame
<1>9. (loop = "due" => alarm.last # today /\ alarm.time # NoTime)'
  <2>1. alarm.time # NoTime => alarm'.time # NoTime
    <3>1. CASE Charger BY <3>1 DEF Charger
    <3>2. CASE SetAlarmTime BY <1>0, <3>2 DEF SetAlarmTime, AlarmTypeOK, AlarmSettings, Minutes, NoTime
    <3>3. CASE EnableAlarm \/ CancelAlarm
      BY <1>0, <3>3 DEF EnableAlarm, CancelAlarm, AlarmTypeOK, AlarmSettings
    <3> QED BY <3>1, <3>2, <3>3
  <2> QED BY <1>0, <1>1, <1>2, <2>1 DEF AlarmInv, ClockFrame
<1>10. AlarmInv' BY <1>0, <1>1, <1>2, <1>8, <1>9 DEF AlarmInv, ClockFrame
<1>11. SpokenOnce' BY <1>0, <1>1 DEF SpokenOnce, ClockFrame
<1> QED BY <1>6, <1>10, <1>11 DEF AlarmIndInv

(* Time passes between two looks at the clock only.                        *)
LEMMA TimePassesInv == ASSUME AlarmIndInv, TimePasses PROVE AlarmIndInv'
<1> USE DEF TimePasses, historyVars
<1>0. AlarmTypeOK /\ AlarmInv /\ SpokenOnce BY DEF AlarmIndInv
<1>1. today \in Nat /\ today' \in Days /\ minute' \in Minutes
      /\ (today' = today \/ today' = today + 1)
  BY <1>0 DEF AlarmTypeOK, Days, Minutes
<1>2. AlarmTypeOK' BY <1>0, <1>1 DEF AlarmTypeOK
<1>3. AlarmInv'
  <2>1. CASE today' = today BY <1>0, <2>1 DEF AlarmInv, RingsOncePerDay
  <2>2. CASE today' = today + 1
    <3>1. alarm.last \in Nat /\ alarm.last # today' /\ alarm.last <= today'
      BY <1>0, <1>1, <2>2 DEF AlarmInv, AlarmTypeOK, AlarmSettings
    <3>2. \A d \in Days : d \in Nat /\ (d > today' => d > today) BY <1>1, <2>2 DEF Days
    <3>3. rings[today'] = 0 /\ again[today'] \in Nat
      BY <1>0, <1>1, <2>2 DEF AlarmInv, AlarmTypeOK
    <3> QED BY <1>0, <3>1, <3>2, <3>3 DEF AlarmInv, RingsOncePerDay
  <2> QED BY <1>1, <2>1, <2>2
<1>4. SpokenOnce' BY <1>0 DEF SpokenOnce
<1> QED BY <1>2, <1>3, <1>4 DEF AlarmIndInv

(* A new note was never spoken.                                            *)
LEMMA AddNoteInv == ASSUME AlarmIndInv, AddNote PROVE AlarmIndInv'
<1> USE DEF AddNote, historyVars
<1>0. AlarmTypeOK /\ AlarmInv /\ SpokenOnce BY DEF AlarmIndInv
<1>1. added \in Nat /\ added + 1 \in Notes /\ added' \in 0 .. MaxNotes
  BY <1>0 DEF AlarmTypeOK, Notes
<1>2. AlarmTypeOK' BY <1>0, <1>1 DEF AlarmTypeOK
<1>3. spoken[added + 1] = 0 /\ alarmCrashes \in Nat BY <1>0, <1>1 DEF AlarmInv, AlarmTypeOK
<1>4. (/\ \A n \in notes : spoken[n] <= alarmCrashes + (IF loop = "mark" THEN 1 ELSE 0)
       /\ \A n \in notes : n <= added
       /\ \A n \in Notes : n > added => spoken[n] = 0)'
  BY <1>0, <1>1, <1>3 DEF AlarmInv, AlarmTypeOK, Notes
<1>5. AlarmInv' BY <1>0, <1>4 DEF AlarmInv, RingsOncePerDay
<1>6. SpokenOnce' BY <1>0 DEF SpokenOnce
<1> QED BY <1>2, <1>5, <1>6 DEF AlarmIndInv

(* The alarm is due only on a day that is not marked, and at a time.       *)
LEMMA TickInv == ASSUME AlarmIndInv, TickClock PROVE AlarmIndInv'
<1> USE DEF TickClock, historyVars
<1>0. AlarmTypeOK /\ AlarmInv /\ SpokenOnce BY DEF AlarmIndInv
<1>1. AlarmTypeOK' BY <1>0 DEF AlarmTypeOK
<1>2. Due => alarm.last # today /\ alarm.time # NoTime
  BY <1>0 DEF Due, AlarmTypeOK, Minutes, NoTime
<1>3. AlarmInv' BY <1>0, <1>2 DEF AlarmInv, RingsOncePerDay, Due
<1>4. SpokenOnce' BY <1>0 DEF SpokenOnce
<1> QED BY <1>1, <1>3, <1>4 DEF AlarmIndInv

(* The day is marked, ...                                                  *)
LEMMA MarkFiredInv == ASSUME AlarmIndInv, MarkFired PROVE AlarmIndInv'
<1> USE DEF MarkFired, historyVars
<1>0. AlarmTypeOK /\ AlarmInv /\ SpokenOnce BY DEF AlarmIndInv
<1>1. /\ alarm' \in AlarmSettings /\ alarm'.last = today /\ today \in Nat
  <2>1. today \in 0 .. MaxAlarmDays BY <1>0 DEF AlarmTypeOK, Days
  <2>2. alarm \in AlarmSettings BY <1>0 DEF AlarmTypeOK
  <2> QED BY <2>1, <2>2 DEF AlarmSettings
<1>2. AlarmTypeOK' BY <1>0, <1>1 DEF AlarmTypeOK
<1>3. rings[today] <= again[today] BY <1>0 DEF AlarmInv
<1>4. AlarmInv' BY <1>0, <1>1, <1>3 DEF AlarmInv, RingsOncePerDay
<1>5. SpokenOnce' BY <1>0 DEF SpokenOnce
<1> QED BY <1>2, <1>4, <1>5 DEF AlarmIndInv

(* ... and rings once.                                                     *)
LEMMA RingAlarmInv == ASSUME AlarmIndInv, RingAlarm PROVE AlarmIndInv'
<1> USE DEF RingAlarm
<1>0. AlarmTypeOK /\ AlarmInv /\ SpokenOnce BY DEF AlarmIndInv
<1>1. /\ rings \in [Days -> Nat] /\ again \in [Days -> Nat] /\ today \in Days
      /\ rings' \in [Days -> Nat]
  BY <1>0 DEF AlarmTypeOK
<1>2. AlarmTypeOK' BY <1>0, <1>1 DEF AlarmTypeOK
<1>3. alarm.last = today /\ rings[today] <= again[today] BY <1>0 DEF AlarmInv
<1>4. /\ rings'[today] = rings[today] + 1
      /\ \A d \in Days : d # today => rings'[d] = rings[d]
  BY <1>1
<1>5. RingsOncePerDay' BY <1>0, <1>1, <1>3, <1>4 DEF AlarmInv, RingsOncePerDay
<1>6. \A d \in Days : d > today => rings'[d] = 0 BY <1>0, <1>1, <1>4 DEF AlarmInv, Days
<1>7. rings'[today] > 0 BY <1>1, <1>4
<1>8. AlarmInv' BY <1>0, <1>3, <1>5, <1>6, <1>7 DEF AlarmInv
<1>9. SpokenOnce' BY <1>0 DEF SpokenOnce
<1> QED BY <1>2, <1>8, <1>9 DEF AlarmIndInv

(* The notes that are read out are unmarked ones, read out before for a    *)
(* crash only.                                                             *)
LEMMA NotesInv == ASSUME AlarmIndInv, TakeNotes \/ SpeakNotes \/ MarkNotes PROVE AlarmIndInv'
<1>0. AlarmTypeOK /\ AlarmInv /\ SpokenOnce BY DEF AlarmIndInv
<1>1. CASE TakeNotes
  <2>1. AlarmTypeOK' BY <1>0, <1>1 DEF TakeNotes, historyVars, AlarmTypeOK
  <2>2. AlarmInv' BY <1>0, <1>1 DEF TakeNotes, historyVars, AlarmInv, RingsOncePerDay
  <2>3. SpokenOnce' BY <1>0, <1>1 DEF TakeNotes, historyVars, SpokenOnce
  <2> QED BY <2>1, <2>2, <2>3 DEF AlarmIndInv
<1>2. CASE SpeakNotes
  <2>1. spoken' \in [Notes -> Nat] BY <1>0, <1>2 DEF SpeakNotes, AlarmTypeOK
  <2>2. AlarmTypeOK' BY <1>0, <1>2, <2>1 DEF SpeakNotes, AlarmTypeOK
  <2>3. \A n \in Notes : spoken'[n] = IF n \in pending THEN spoken[n] + 1 ELSE spoken[n]
    BY <1>2 DEF SpeakNotes
  <2>4. /\ \A n \in Notes : spoken[n] \in Nat
        /\ alarmCrashes \in Nat /\ notes \subseteq Notes /\ pending \subseteq notes
        /\ \A n \in notes : spoken[n] <= alarmCrashes
    BY <1>0, <1>2 DEF SpeakNotes, AlarmTypeOK, AlarmInv
  <2>5. SpokenOnce' BY <1>0, <1>2, <2>3, <2>4 DEF SpeakNotes, SpokenOnce
  <2>6. (/\ \A n \in notes : spoken[n] <= alarmCrashes + (IF loop = "mark" THEN 1 ELSE 0)
         /\ \A n \in Notes : n > added => spoken[n] = 0)'
    <3>1. added \in Nat /\ \A n \in pending : ~(n > added)
      BY <1>0, <2>4 DEF AlarmInv, AlarmTypeOK, Notes
    <3> QED BY <1>0, <1>2, <2>3, <2>4, <3>1 DEF SpeakNotes, AlarmInv
  <2>7. AlarmInv' BY <1>0, <1>2, <2>6 DEF SpeakNotes, AlarmInv, RingsOncePerDay
  <2> QED BY <2>2, <2>5, <2>7 DEF AlarmIndInv
<1>3. CASE MarkNotes
  <2>1. AlarmTypeOK' BY <1>0, <1>3 DEF MarkNotes, historyVars, AlarmTypeOK
  <2>2. AlarmInv' BY <1>0, <1>3 DEF MarkNotes, historyVars, AlarmInv, RingsOncePerDay
  <2>3. SpokenOnce' BY <1>0, <1>3 DEF MarkNotes, historyVars, SpokenOnce
  <2> QED BY <2>1, <2>2, <2>3 DEF AlarmIndInv
<1> QED BY <1>1, <1>2, <1>3

(* A crash forgets what the loop was at, and the mark of the day only with *)
(* the time.                                                               *)
LEMMA AlarmCrashInv == ASSUME AlarmIndInv, AlarmCrash PROVE AlarmIndInv'
<1> USE DEF AlarmCrash
<1>0. AlarmTypeOK /\ AlarmInv /\ SpokenOnce BY DEF AlarmIndInv
<1>1. alarmCrashes' = alarmCrashes + 1 /\ alarmCrashes \in Nat
      /\ alarmCrashes' \in 0 .. MaxAlarmCrashes
  BY <1>0 DEF AlarmTypeOK
<1>2. notes' \subseteq notes /\ dropped' \subseteq Notes /\ notes \subseteq Notes
  BY <1>0 DEF AlarmTypeOK
<1>3. /\ alarm' \in AlarmSettings
      /\ alarm'.last = alarm.last \/ (alarm'.last = 0 /\ alarm'.time = NoTime)
      /\ alarm'.time = alarm.time \/ alarm'.time = NoTime
  <2>1. alarm \in AlarmSettings BY <1>0 DEF AlarmTypeOK
  <2>2. CASE alarm' = alarm BY <2>1, <2>2
  <2>3. CASE alarm' = [alarm EXCEPT !.time = NoTime] BY <2>1, <2>3 DEF AlarmSettings
  <2>4. CASE alarm' = [NoAlarm EXCEPT !.enabled = alarm.enabled] BY <2>1, <2>4 DEF NoAlarm, AlarmSettings
  <2>5. CASE alarm' = NoAlarm BY <2>5 DEF NoAlarm, AlarmSettings
  <2> QED BY <2>2, <2>3, <2>4, <2>5 DEF Torn
<1>4. today \in Days /\ today \in Nat /\ today # 0 BY <1>0 DEF AlarmTypeOK, Days
<1>5. AlarmTypeOK' BY <1>0, <1>1, <1>2, <1>3, <1>4 DEF AlarmTypeOK
<1>6. \A n \in Notes : spoken[n] \in Nat BY <1>0 DEF AlarmTypeOK
<1>7. \A n \in notes' : spoken[n] <= alarmCrashes'
  BY <1>0, <1>1, <1>2, <1>6 DEF AlarmInv
<1>8. /\ (alarm.last <= today)'
      /\ (alarm.last # today /\ alarm.time # NoTime => rings[today] <= again[today])'
      /\ (alarm.last = today /\ loop # "marked" => rings[today] > 0 \/ today \in skipped)'
  BY <1>0, <1>3, <1>4 DEF AlarmInv
<1>9. AlarmInv' BY <1>0, <1>1, <1>2, <1>7, <1>8 DEF AlarmInv, RingsOncePerDay
<1>10. SpokenOnce' BY <1>0, <1>1, <1>6 DEF SpokenOnce
<1> QED BY <1>5, <1>9, <1>10 DEF AlarmIndInv

(* The mark of the day and what it stands for, in every reachable state.   *)
THEOREM AlarmInvariant == AlarmSpec => []AlarmIndInv
<1>1. AlarmInit => AlarmIndInv
  <2> SUFFICES ASSUME AlarmInit PROVE AlarmIndInv
    OBVIOUS
  <2>1. 1 \in Days /\ 0 \in Minutes BY DEF Days, Minutes
  <2>2. alarm \in AlarmSettings /\ alarm.last = 0 /\ alarm.time = NoTime
    BY DEF AlarmInit, NoAlarm, AlarmSettings
  <2>3. /\ rings \in [Days -> Nat] /\ again \in [Days -> Nat] /\ spoken \in [Notes -> Nat]
        /\ \A d \in Days : rings[d] = 0 /\ again[d] = 0
        /\ \A n \in Notes : spoken[n] = 0
    BY DEF AlarmInit
  <2>4. 0 \in 0 .. MaxNotes /\ 0 \in 0 .. MaxChanges /\ 0 \in 0 .. MaxAlarmCrashes OBVIOUS
  <2>5. AlarmTypeOK BY <2>1, <2>2, <2>3, <2>4, Zenon DEF AlarmInit, AlarmTypeOK
  <2>6. SpokenOnce /\ RingsOncePerDay BY <2>3 DEF AlarmInit, SpokenOnce, RingsOncePerDay
  <2>7. AlarmInv BY <2>1, <2>2, <2>3, <2>6 DEF AlarmInit, AlarmInv
  <2> QED BY <2>5, <2>6, <2>7 DEF AlarmIndInv
<1>2. AlarmIndInv /\ [AlarmNext]_alarmVars => AlarmIndInv'
  <2> SUFFICES ASSUME AlarmIndInv, [AlarmNext]_alarmVars PROVE AlarmIndInv'
    OBVIOUS
  <2>1. CASE UNCHANGED alarmVars
    BY <2>1 DEF alarmVars, AlarmIndInv, AlarmTypeOK, AlarmInv, SpokenOnce, RingsOncePerDay
  <2>2. CASE AlarmNext
    BY <2>2, ChangeInv, TimePassesInv, AddNoteInv, TickInv, MarkFiredInv, RingAlarmInv, NotesInv,
       AlarmCrashInv DEF AlarmNext
  <2> QED BY <2>1, <2>2
<1> QED BY <1>1, <1>2, PTL DEF AlarmSpec

(* The alarm rings once on each of any number of days, however often the   *)
(* process crashes and the alarm is changed; more often only where a crash *)
(* lost the settings after it rang and somebody set it anew that day.      *)
THEOREM RingsOncePerDayHolds == AlarmSpec => []RingsOncePerDay
<1>1. AlarmIndInv => RingsOncePerDay BY DEF AlarmIndInv, AlarmInv
<1> QED BY <1>1, AlarmInvariant, PTL

(* An alarm that stood unchanged for the whole of its minute has rung that *)
(* day when the minute ends, or a crash skipped it: the loop has looked at *)
(* the clock in the minute.                                                *)
THEOREM AlarmIsNotMissedHolds == AlarmSpec => AlarmIsNotMissed
<1>1. AlarmIndInv /\ [AlarmNext]_alarmVars =>
        [MinuteEnds /\ steady /\ alarm.enabled /\ alarm.time = minute =>
           rings[today] > 0 \/ today \in skipped]_alarmVars
  <2> SUFFICES ASSUME AlarmIndInv, AlarmNext, MinuteEnds, steady, alarm.enabled,
                      alarm.time = minute
               PROVE  rings[today] > 0 \/ today \in skipped
    OBVIOUS
  <2>1. TimePasses
    BY DEF AlarmNext, MinuteEnds, Charger, SetAlarmTime, EnableAlarm, CancelAlarm, AddNote,
           TickClock, MarkFired, RingAlarm, TakeNotes, SpeakNotes, MarkNotes, AlarmCrash
  <2> QED BY <2>1 DEF TimePasses, AlarmIndInv, AlarmInv
<1> QED BY <1>1, AlarmInvariant, PTL DEF AlarmSpec, AlarmIsNotMissed

(* A morning note is read out once, and once more for each crash.          *)
THEOREM SpokenOnceHolds == AlarmSpec => []SpokenOnce
<1>1. AlarmIndInv => SpokenOnce BY DEF AlarmIndInv
<1> QED BY <1>1, AlarmInvariant, PTL

-----------------------------------------------------------------------------
(* The types and the invariant of the capture thread and the socket, ...   *)
WakeTypeOK ==
  /\ sidecar \in BOOLEAN /\ connection \in {"none", "open", "broken"} /\ detected \in BOOLEAN
  /\ unanswered \in Seq(1..MaxWakeFrames) /\ answers \in Seq(Score)
  /\ audio \in 0 .. 3 * FrameUnits + ChunkUnits
  /\ scoreFrames \in 0 .. MinFrames - 1
  /\ wakeAt \in {"idle", "scan", "sent"}
  /\ frame \in 0..MaxWakeFrames /\ judged \in 0..MaxWakeFrames

WakeInv ==
  /\ connection # "open" => unanswered = <<>>
  /\ connection = "none" => answers = <<>>
  /\ Len(unanswered) + Len(answers) <= (IF wakeAt = "sent" THEN 1 ELSE 0)
  /\ \A i \in 1..Len(unanswered) : unanswered[i] = frame
  /\ \A i \in 1..Len(answers) : answers[i].frame = frame
  /\ wakeAt = "sent" => connection # "none" /\ audio >= FrameUnits
  /\ wakeAt = "idle" => audio <= 3 * FrameUnits

(* ... of the speaker thread and its files, and of the transcription.      *)
SynthTypeOK ==
  /\ synthAt \in {"idle", "lookup", "create", "write", "child", "read", "store"}
  /\ line \in Phrases /\ tempFiles \subseteq {"text", "pcm"}
  /\ cache \subseteq ShortPhrases /\ Cardinality(cache) <= MaxCached
  /\ utterances \in 0..MaxSpoken
  /\ transcript \in {"none", "speech"}

SynthInv ==
  /\ synthAt = "store" => line \in ShortPhrases
  /\ tempFiles = (CASE synthAt \in {"write", "child"} -> {"text", "pcm"}
                    [] synthAt = "read" -> {"pcm"}
                    [] OTHER -> {})
  /\ IsFiniteSet(cache)

(* At most one frame is under way: a sequence of at most one.              *)
LEMMA ShortSeq ==
  ASSUME NEW S, NEW s \in Seq(S), Len(s) <= 1
  PROVE  s = <<>> \/ (Len(s) = 1 /\ Head(s) = s[1] /\ s[1] \in S /\ Tail(s) = <<>>)
<1> SUFFICES ASSUME s # <<>>
             PROVE  Len(s) = 1 /\ Head(s) = s[1] /\ s[1] \in S /\ Tail(s) = <<>>
  OBVIOUS
<1>1. /\ Head(s) \in S /\ Tail(s) \in Seq(S) /\ Len(Tail(s)) = Len(s) - 1
      /\ Len(s) \in Nat /\ Len(Tail(s)) \in Nat
  BY HeadTailProperties, LenProperties
<1>2. Len(s) = 1 /\ Len(Tail(s)) = 0 BY <1>1
<1>3. Tail(s) = <<>> BY <1>1, <1>2, EmptySeq
<1>4. Head(s) = s[1] OBVIOUS
<1> QED BY <1>1, <1>2, <1>3, <1>4

(* Two numbers that make at most one.                                      *)
LEMMA AtMostOne ==
  ASSUME NEW m \in Nat, NEW n \in Nat, m + n <= 1
  PROVE  (m # 0 => m = 1 /\ n = 0) /\ (n # 0 => m = 0 /\ n = 1)
OBVIOUS

(* A frame is under way only after it was sent, in one place.              *)
LEMMA OneUnderWay ==
  ASSUME WakeTypeOK, WakeInv
  PROVE  /\ Len(unanswered) \in Nat /\ Len(answers) \in Nat
         /\ Len(unanswered) + Len(answers) <= 1
         /\ wakeAt # "sent" => unanswered = <<>> /\ answers = <<>>
         /\ Len(unanswered) = 0 => unanswered = <<>>
         /\ Len(answers) = 0 => answers = <<>>
         /\ Len(unanswered) # 0 => Len(unanswered) = 1 /\ Len(answers) = 0
         /\ Len(answers) # 0 => Len(unanswered) = 0 /\ Len(answers) = 1
<1>1. unanswered \in Seq(1..MaxWakeFrames) /\ answers \in Seq(Score) BY DEF WakeTypeOK
<1>2. Len(unanswered) + Len(answers) <= (IF wakeAt = "sent" THEN 1 ELSE 0) BY DEF WakeInv
<1>3. Len(unanswered) \in Nat /\ Len(answers) \in Nat BY <1>1, LenProperties
<1>4. /\ Len(unanswered) = 0 => unanswered = <<>>
      /\ Len(answers) = 0 => answers = <<>>
  BY <1>1, EmptySeq
<1>5. Len(unanswered) + Len(answers) <= 1 BY <1>2, <1>3
<1>6. /\ Len(unanswered) # 0 => Len(unanswered) = 1 /\ Len(answers) = 0
      /\ Len(answers) # 0 => Len(unanswered) = 0 /\ Len(answers) = 1
  BY <1>3, <1>5, AtMostOne, Zenon
<1> QED BY <1>2, <1>3, <1>4, <1>5, <1>6

(* Steps that neither send nor score.                                      *)
LEMMA ScanInv ==
  ASSUME WakeTypeOK, WakeInv,
         FeedWake \/ WakeReturns \/ ConnectFails \/ Connect \/ SidecarDies \/ SidecarStarts
  PROVE  WakeTypeOK' /\ WakeInv'
<1>1. CASE FeedWake
  <2>0. audio + ChunkUnits \in 0 .. 3 * FrameUnits + ChunkUnits
    BY <1>1 DEF FeedWake, WakeTypeOK, WakeInv, FrameUnits, ChunkUnits
  <2>1. WakeTypeOK' BY <1>1, <2>0, Zenon DEF FeedWake, WakeTypeOK
  <2>2. WakeInv' BY <1>1 DEF FeedWake, WakeInv
  <2> QED BY <2>1, <2>2
<1>2. CASE WakeReturns
  <2>1. WakeTypeOK' BY <1>2 DEF WakeReturns, WakeTypeOK
  <2>2. WakeInv' BY <1>2 DEF WakeReturns, WakeInv, WakeTypeOK, FrameUnits
  <2> QED BY <2>1, <2>2
<1>3. CASE ConnectFails
  <2>1. WakeTypeOK' BY <1>3 DEF ConnectFails, WakeTypeOK, FrameUnits, ChunkUnits
  <2>2. WakeInv' BY <1>3 DEF ConnectFails, WakeInv, WakeTypeOK, FrameUnits
  <2> QED BY <2>1, <2>2
<1>4. CASE Connect
  <2>1. WakeTypeOK' BY <1>4 DEF Connect, WakeTypeOK
  <2>2. WakeInv' BY <1>4 DEF Connect, WakeInv
  <2> QED BY <2>1, <2>2
<1>5. CASE SidecarDies
  <2>1. unanswered' \in Seq(1..MaxWakeFrames) /\ Len(unanswered') = 0
        /\ UNCHANGED <<answers, wakeAt, frame, audio>>
    BY <1>5, EmptySeq DEF SidecarDies
  <2>2. connection' \in {"none", "open", "broken"} /\ (connection' = "none" <=> connection = "none")
    BY <1>5 DEF SidecarDies, WakeTypeOK
  <2>3. WakeTypeOK' BY <1>5, <2>1, <2>2, Zenon DEF SidecarDies, WakeTypeOK
  <2>4. Len(answers) <= (IF wakeAt = "sent" THEN 1 ELSE 0) /\ Len(answers) \in Nat
    BY OneUnderWay, EmptySeq
  <2>5. WakeInv' BY <1>5, <2>1, <2>2, <2>4 DEF SidecarDies, WakeInv
  <2> QED BY <2>3, <2>5
<1>6. CASE SidecarStarts
  <2>1. WakeTypeOK' BY <1>6 DEF SidecarStarts, WakeTypeOK
  <2>2. WakeInv' BY <1>6 DEF SidecarStarts, WakeInv
  <2> QED BY <2>1, <2>2
<1> QED BY <1>1, <1>2, <1>3, <1>4, <1>5, <1>6

(* A frame is sent when nothing is under way, ...                          *)
LEMMA SendFrameInv == ASSUME WakeTypeOK, WakeInv, SendFrame PROVE WakeTypeOK' /\ WakeInv'
<1> USE DEF SendFrame
<1>1. unanswered = <<>> /\ answers = <<>> BY OneUnderWay
<1>2. frame' \in 1..MaxWakeFrames BY DEF WakeTypeOK
<1>3. unanswered' = <<>> \/ (unanswered' = <<frame'>> /\ connection = "open") BY <1>1
<1>4. unanswered' \in Seq(1..MaxWakeFrames)
  <2>1. <<>> \in Seq(1..MaxWakeFrames) BY EmptySeq
  <2>2. <<frame'>> \in Seq(1..MaxWakeFrames) BY <1>2
  <2> QED BY <1>3, <2>1, <2>2
<1>5. WakeTypeOK' BY <1>2, <1>4 DEF WakeTypeOK
<1>6. /\ Len(unanswered') <= 1
      /\ \A i \in 1..Len(unanswered') : unanswered'[i] = frame'
  BY <1>2, <1>3
<1>7. Len(unanswered') \in Nat /\ Len(answers') = 0 BY <1>1, <1>4
<1>8. WakeInv' BY <1>1, <1>3, <1>6, <1>7 DEF WakeInv
<1> QED BY <1>5, <1>8

(* ... its score takes its place in the socket, ...                        *)
LEMMA AnswerInv == ASSUME WakeTypeOK, WakeInv, Answer PROVE WakeTypeOK' /\ WakeInv'
<1> USE DEF Answer
<1>1. Len(unanswered) # 0 /\ wakeAt = "sent" BY OneUnderWay
<1>2. Len(unanswered) = 1 /\ Len(answers) = 0 BY <1>1, OneUnderWay
<1>3. answers = <<>> BY <1>2, OneUnderWay
<1>4. unanswered' = <<>> /\ Head(unanswered) = frame /\ frame \in 1..MaxWakeFrames
  <2>0. unanswered \in Seq(1..MaxWakeFrames) /\ unanswered # <<>> BY DEF WakeTypeOK
  <2>1. Head(unanswered) = unanswered[1] /\ unanswered[1] \in 1..MaxWakeFrames
        /\ Tail(unanswered) = <<>>
    BY <1>2, <2>0, ShortSeq
  <2>2. unanswered[1] = frame BY <1>2 DEF WakeInv
  <2> QED BY <2>1, <2>2
<1>5. PICK v \in {"low", "high", "nan"} : answers' = <<[frame |-> frame, value |-> v]>>
  BY <1>3, <1>4
<1>6. answers' \in Seq(Score) /\ Len(answers') = 1 /\ answers'[1].frame = frame
  <2>1. [frame |-> frame, value |-> v] \in Score BY <1>4 DEF Score
  <2>2. <<[frame |-> frame, value |-> v]>> \in Seq(Score) BY <2>1
  <2> QED BY <1>5, <2>2
<1>7. WakeTypeOK' BY <1>4, <1>6 DEF WakeTypeOK
<1>8. connection # "none" BY <1>2 DEF WakeInv
<1>9. WakeInv' BY <1>2, <1>4, <1>6, <1>8 DEF WakeInv
<1> QED BY <1>7, <1>9

(* ... and the score that is read is the one for the frame just sent.      *)
LEMMA UseScoreReads ==
  ASSUME WakeTypeOK, WakeInv, UseScore
  PROVE  /\ Head(answers).frame = frame /\ frame \in 1..MaxWakeFrames
         /\ unanswered' = <<>> /\ answers' = <<>>
<1> USE DEF UseScore
<1>1. Len(answers) # 0 BY OneUnderWay
<1>2. Len(unanswered) = 0 /\ Len(answers) = 1 BY <1>1, OneUnderWay
<1>3. unanswered = <<>> BY <1>2, OneUnderWay
<1>4. Head(answers) = answers[1] /\ answers[1] \in Score /\ Tail(answers) = <<>>
  BY <1>2, ShortSeq DEF WakeTypeOK
<1>5. answers[1].frame = frame BY <1>2 DEF WakeInv
<1> QED BY <1>3, <1>4, <1>5 DEF Score

(* A score, or its absence, ends the exchange.                             *)
LEMMA ScoreInv ==
  ASSUME WakeTypeOK, WakeInv, UseScore \/ LoseConnection PROVE WakeTypeOK' /\ WakeInv'
<1>1. audio - FrameUnits \in 0 .. 3 * FrameUnits /\ wakeAt = "sent"
  BY DEF UseScore, LoseConnection, WakeTypeOK, WakeInv, FrameUnits, ChunkUnits
<1>2. audio - FrameUnits \in 0 .. 3 * FrameUnits + ChunkUnits
  BY <1>1 DEF FrameUnits, ChunkUnits
<1>3. CASE UseScore
  <2>1. scoreFrames' \in 0 .. MinFrames - 1 /\ detected' \in BOOLEAN /\ wakeAt' \in {"idle", "scan"}
    BY <1>3 DEF UseScore, WakeTypeOK
  <2>2. unanswered' = <<>> /\ answers' = <<>> /\ judged' \in 1..MaxWakeFrames
    BY <1>3, UseScoreReads DEF UseScore
  <2>3. UNCHANGED <<sidecar, connection, frame>> /\ audio' = audio - FrameUnits
    BY <1>3 DEF UseScore
  <2>4. WakeTypeOK' BY <1>2, <2>1, <2>2, <2>3 DEF WakeTypeOK
  <2>5. WakeInv' BY <1>1, <2>1, <2>2, <2>3 DEF WakeInv
  <2> QED BY <2>4, <2>5
<1>4. CASE LoseConnection
  <2>1. WakeTypeOK' BY <1>2, <1>4 DEF LoseConnection, WakeTypeOK
  <2>2. WakeInv' BY <1>4 DEF LoseConnection, WakeInv
  <2> QED BY <2>1, <2>2
<1> QED BY <1>3, <1>4

(* Rendering a line: its files are removed on every way out, and the cache *)
(* never grows past its limit.                                             *)
LEMMA SynthStepInv ==
  ASSUME SynthTypeOK, SynthInv, SynthNext PROVE SynthTypeOK' /\ SynthInv'
<1>1. ASSUME NEW text \in Phrases, Synthesize(text) PROVE SynthTypeOK' /\ SynthInv'
  <2>1. utterances' \in 0..MaxSpoken BY <1>1 DEF Synthesize, SynthTypeOK
  <2>2. SynthTypeOK' BY <1>1, <2>1 DEF Synthesize, SynthTypeOK
  <2>3. SynthInv' BY <1>1 DEF Synthesize, SynthInv
  <2> QED BY <2>2, <2>3
<1>2. ASSUME CreateFiles \/ WriteText \/ ChildExits \/ ReadSamples
      PROVE  SynthTypeOK' /\ SynthInv'
  <2>1. UNCHANGED <<line, cache, utterances, transcript>>
    BY <1>2 DEF CreateFiles, WriteText, ChildExits, ReadSamples
  <2>2. \/ synthAt' \in {"write", "child"} /\ tempFiles' = {"text", "pcm"}
        \/ synthAt' = "read" /\ tempFiles' = {"pcm"}
        \/ synthAt' = "idle" /\ tempFiles' = {}
        \/ synthAt' = "store" /\ tempFiles' = {} /\ line \in ShortPhrases
    BY <1>2 DEF CreateFiles, WriteText, ChildExits, ReadSamples, SynthInv
  <2>3. SynthTypeOK' BY <2>1, <2>2 DEF SynthTypeOK
  <2>4. SynthInv' BY <2>1, <2>2 DEF SynthInv
  <2> QED BY <2>3, <2>4
<1>3. ASSUME StoreLine PROVE SynthTypeOK' /\ SynthInv'
  <2>0. PICK kept \in {{}, cache} :
          kept = (IF Cardinality(cache) >= MaxCached THEN {} ELSE cache)
    OBVIOUS
  <2>1. kept \subseteq ShortPhrases /\ IsFiniteSet(kept) /\ Cardinality(kept) <= MaxCached - 1
        /\ Cardinality(kept) \in Nat
    <3>1. CASE Cardinality(cache) >= MaxCached BY <2>0, <3>1, FS_EmptySet
    <3>2. CASE ~(Cardinality(cache) >= MaxCached)
      <4>1. kept = cache BY <2>0, <3>2
      <4>2. Cardinality(cache) \in Nat BY FS_CardinalityType DEF SynthInv
      <4> QED BY <3>2, <4>1, <4>2 DEF SynthTypeOK, SynthInv
    <3> QED BY <3>1, <3>2
  <2>2. cache' = kept \cup {line} /\ line \in ShortPhrases /\ synthAt' = "idle"
        /\ UNCHANGED <<line, tempFiles, utterances, transcript>>
    BY <1>3, <2>0 DEF StoreLine, SynthInv
  <2>3. IsFiniteSet(cache') /\ Cardinality(cache') <= MaxCached
    BY <2>1, <2>2, FS_AddElement
  <2>4. SynthTypeOK' BY <2>1, <2>2, <2>3 DEF SynthTypeOK
  <2>5. tempFiles = {} BY <1>3 DEF StoreLine, SynthInv
  <2>6. SynthInv' BY <2>2, <2>3, <2>5 DEF SynthInv
  <2> QED BY <2>4, <2>6
<1> QED BY <1>1, <1>2, <1>3 DEF SynthNext

(* Both halves of the engine, and the transcription.                       *)
SpeechIndInv == WakeTypeOK /\ WakeInv /\ SynthTypeOK /\ SynthInv

(* Each half leaves the other alone.                                       *)
LEMMA SpeechInductive ==
  ASSUME SpeechIndInv, [SpeechNext]_speechVars PROVE SpeechIndInv'
<1>0. WakeTypeOK /\ WakeInv /\ SynthTypeOK /\ SynthInv BY DEF SpeechIndInv
<1>1. CASE WakeNext
  <2>1. WakeTypeOK' /\ WakeInv'
    BY <1>0, <1>1, ScanInv, SendFrameInv, AnswerInv, ScoreInv DEF WakeNext
  <2>2. UNCHANGED <<synthVars, utterances, transcript>>
    BY <1>1 DEF WakeNext, FeedWake, WakeReturns, ConnectFails, Connect, SendFrame, UseScore,
                LoseConnection, Answer, SidecarDies, SidecarStarts
  <2>3. SynthTypeOK' /\ SynthInv' BY <1>0, <2>2 DEF synthVars, SynthTypeOK, SynthInv
  <2> QED BY <2>1, <2>3 DEF SpeechIndInv
<1>2. CASE SynthNext \/ Recognize
  <2>1. SynthTypeOK' /\ SynthInv'
    <3>1. CASE SynthNext BY <1>0, <3>1, SynthStepInv
    <3>2. CASE Recognize
      <4>1. transcript' \in {"none", "speech"} BY <3>2 DEF Recognize, Recognized
      <4>2. utterances' \in 0..MaxSpoken BY <1>0, <3>2 DEF Recognize, SynthTypeOK
      <4>3. UNCHANGED synthVars BY <3>2 DEF Recognize
      <4> QED BY <1>0, <4>1, <4>2, <4>3 DEF synthVars, SynthTypeOK, SynthInv
    <3> QED BY <1>2, <3>1, <3>2
  <2>2. UNCHANGED wakeVars
    BY <1>2 DEF SynthNext, Synthesize, CreateFiles, WriteText, ChildExits, ReadSamples,
                StoreLine, Recognize
  <2>3. WakeTypeOK' /\ WakeInv' BY <1>0, <2>2 DEF wakeVars, WakeTypeOK, WakeInv
  <2> QED BY <2>1, <2>3 DEF SpeechIndInv
<1>3. CASE UNCHANGED speechVars
  <2>1. UNCHANGED <<wakeVars, synthVars, utterances, transcript>>
    BY <1>3 DEF speechVars, wakeVars, synthVars
  <2>2. WakeTypeOK' /\ WakeInv' BY <1>0, <2>1 DEF wakeVars, WakeTypeOK, WakeInv
  <2>3. SynthTypeOK' /\ SynthInv' BY <1>0, <2>1 DEF synthVars, SynthTypeOK, SynthInv
  <2> QED BY <2>2, <2>3 DEF SpeechIndInv
<1> QED BY <1>1, <1>2, <1>3 DEF SpeechNext

(* The types and the invariant of the engine, in every reachable state.    *)
THEOREM SpeechInvariant == SpeechSpec => [](SpeechTypeOK /\ SpeechInv /\ SpeechIndInv)
<1>1. SpeechInit => SpeechIndInv
  <2> SUFFICES ASSUME SpeechInit PROVE SpeechIndInv
    OBVIOUS
  <2>0. 0 \in 0 .. 3 * FrameUnits + ChunkUnits /\ 0 \in 0 .. MinFrames - 1
        /\ 0 \in 0 .. MaxWakeFrames /\ unanswered \in Seq(1..MaxWakeFrames) /\ answers \in Seq(Score)
    BY EmptySeq DEF SpeechInit, FrameUnits, ChunkUnits
  <2>1. WakeTypeOK BY <2>0, Zenon DEF SpeechInit, WakeTypeOK
  <2>2. WakeInv BY DEF SpeechInit, WakeInv, FrameUnits
  <2>3. SynthTypeOK BY FS_EmptySet DEF SpeechInit, SynthTypeOK
  <2>4. SynthInv BY FS_EmptySet DEF SpeechInit, SynthInv
  <2> QED BY <2>1, <2>2, <2>3, <2>4 DEF SpeechIndInv
<1>2. SpeechIndInv /\ [SpeechNext]_speechVars => SpeechIndInv' BY SpeechInductive
<1>3. SpeechIndInv => SpeechTypeOK /\ SpeechInv
  BY DEF SpeechIndInv, WakeTypeOK, WakeInv, SynthTypeOK, SynthInv, SpeechTypeOK, SpeechInv
<1> QED BY <1>1, <1>2, <1>3, PTL DEF SpeechSpec

(* A score counts for the frame that was just sent, however late answers   *)
(* are and however often the sidecar is restarted.                         *)
THEOREM ScoresArePairedHolds == SpeechSpec => ScoresArePaired
<1>1. SpeechIndInv /\ [SpeechNext]_speechVars => [judged' # judged => judged' = frame]_speechVars
  <2> SUFFICES ASSUME SpeechIndInv, SpeechNext, judged' # judged PROVE judged' = frame
    OBVIOUS
  <2>1. UseScore
    BY DEF SpeechNext, WakeNext, SynthNext, FeedWake, WakeReturns, ConnectFails, Connect,
           SendFrame, LoseConnection, Answer, SidecarDies, SidecarStarts, Synthesize, CreateFiles,
           WriteText, ChildExits, ReadSamples, StoreLine, Recognize, wakeVars
  <2>2. Head(answers).frame = frame BY <2>1, UseScoreReads DEF SpeechIndInv
  <2> QED BY <2>1, <2>2 DEF UseScore
<1> QED BY <1>1, SpeechInvariant, PTL DEF SpeechSpec, ScoresArePaired

-----------------------------------------------------------------------------
(* A transfer fails only on a move of the environment, so the broken reads *)
(* are no more than its moves.                                             *)
BatteryIndInv == BatteryTypeOK /\ BatteryInv /\ brokenReads <= moves

(* A read keeps the types and the bound on vain opens.                     *)
LEMMA ReadGaugeInv ==
  ASSUME BatteryIndInv, NEW ok \in BOOLEAN, ReadGauge(ok)
  PROVE  /\ opened' \in BOOLEAN /\ tried' \in BOOLEAN
         /\ moves' \in 0 .. MaxMoves /\ opens' \in Nat /\ brokenReads' \in 0 .. MaxMoves
         /\ brokenReads' <= moves'
         /\ opens' + (IF tried' THEN 0 ELSE 1) <= 1 + brokenReads'
         /\ opened' => tried'
<1> USE BatteryAssumption DEF BatteryAssumption
<1>1. opened' \in BOOLEAN /\ tried' \in BOOLEAN
  BY Zenon DEF BatteryIndInv, BatteryTypeOK, ReadGauge
<1>2. /\ opened \in BOOLEAN /\ tried \in BOOLEAN /\ moves \in 0 .. MaxMoves /\ opens \in Nat
      /\ brokenReads \in 0 .. MaxMoves /\ brokenReads <= moves
      /\ opens + (IF tried THEN 0 ELSE 1) <= 1 + brokenReads /\ (opened => tried)
  BY DEF BatteryIndInv, BatteryTypeOK, BatteryInv
<1> QED BY <1>1, <1>2 DEF ReadGauge

(* The alerts of a threshold since the charger left are those its flag was *)
(* taken back for, and one more while the flag is set.                     *)
LEMMA TickBatteryInv ==
  ASSUME BatteryIndInv, TickCharging \/ TickOnBattery
  PROVE  /\ said' \subseteq Thresholds /\ alerts' \in [Thresholds -> Nat] /\ cleared' \in Nat
         /\ \A t \in Thresholds : alerts'[t] <= cleared' + (IF t \in said' THEN 1 ELSE 0)
<1>1. /\ said \subseteq Thresholds /\ alerts \in [Thresholds -> Nat] /\ cleared \in Nat
      /\ \A t \in Thresholds : alerts[t] <= cleared + (IF t \in said THEN 1 ELSE 0)
  BY DEF BatteryIndInv, BatteryTypeOK, BatteryInv
<1>2. CASE TickCharging
  <2>1. /\ said' = {} /\ alerts' = alerts
        /\ cleared' = IF said # {} THEN cleared + 1 ELSE cleared
    BY <1>2 DEF TickCharging, Takes
  <2> QED BY <1>1, <2>1
<1>3. CASE TickOnBattery
  <2> DEFINE b == Band(level)
             kept == IF lastLevel >= 0 /\ level > lastLevel + 5 THEN {} ELSE said
  <2>1. /\ said' = kept \cup ({b} \cap Thresholds)
        /\ alerts' = IF b \in Thresholds \ kept THEN [alerts EXCEPT ![b] = @ + 1] ELSE alerts
        /\ cleared' = IF said \ (said \ kept) # said THEN cleared + 1 ELSE cleared
    BY <1>3 DEF TickOnBattery, Takes
  <2>2. kept = {} \/ kept = said OBVIOUS
  <2> HIDE DEF b, kept
  <2>3. cleared' = cleared \/ cleared' = cleared + 1 BY <2>1
  <2>4. cleared' = cleared => kept = said
    <3>1. CASE kept = {}
      <4>1. said \ (said \ kept) = {} BY <3>1
      <4>2. said # {} => cleared' = cleared + 1 BY <2>1, <4>1
      <4> QED BY <1>1, <3>1, <4>2
    <3> QED BY <2>2, <3>1
  <2>5. cleared' \in Nat /\ \A t \in Thresholds : alerts[t] <= cleared' + (IF t \in kept THEN 1 ELSE 0)
    BY <1>1, <2>3, <2>4
  <2>6. CASE b \in Thresholds \ kept
    <3>1. alerts' = [alerts EXCEPT ![b] = @ + 1] /\ said' = kept \cup {b} BY <2>1, <2>6
    <3>2. alerts' \in [Thresholds -> Nat] BY <1>1, <2>6, <3>1
    <3>3. \A t \in Thresholds : alerts'[t] = IF t = b THEN alerts[t] + 1 ELSE alerts[t]
      BY <1>1, <2>6, <3>1
    <3>4. said' \subseteq Thresholds BY <1>1, <2>2, <2>6, <3>1
    <3>5. ASSUME NEW t \in Thresholds PROVE alerts'[t] <= cleared' + (IF t \in said' THEN 1 ELSE 0)
      <4>1. alerts[t] \in Nat /\ alerts[t] <= cleared' + (IF t \in kept THEN 1 ELSE 0) BY <1>1, <2>5
      <4>2. CASE t = b BY <2>5, <2>6, <3>1, <3>3, <4>1, <4>2
      <4>3. CASE t # b BY <2>5, <3>1, <3>3, <4>1, <4>3
      <4> QED BY <4>2, <4>3
    <3> QED BY <2>5, <3>2, <3>4, <3>5
  <2>7. CASE ~(b \in Thresholds \ kept)
    <3>1. alerts' = alerts /\ said' = kept BY <2>1, <2>7
    <3> QED BY <1>1, <2>2, <2>5, <3>1
  <2> QED BY <2>6, <2>7
<1> QED BY <1>2, <1>3

(* The gauge is opened in vain at most once more than transfers broke, and *)
(* no threshold is announced twice unless its flag was taken back, however *)
(* ticks, status reads and moves of the battery interleave.                *)
THEOREM BatteryInvariant == BatterySpec => []BatteryIndInv
<1> USE BatteryAssumption DEF BatteryAssumption
<1>1. BatteryInit => BatteryIndInv
  <2> SUFFICES ASSUME BatteryInit PROVE BatteryIndInv
    OBVIOUS
  <2>1. BatteryTypeOK
    <3>1. plugged \in BOOLEAN /\ opened \in BOOLEAN /\ tried \in BOOLEAN BY Zenon DEF BatteryInit
    <3> QED BY <3>1 DEF BatteryInit, BatteryTypeOK
  <2>2. BatteryInv /\ brokenReads <= moves BY DEF BatteryInit, BatteryInv
  <2> QED BY <2>1, <2>2 DEF BatteryIndInv
<1>2. ASSUME BatteryIndInv, [BatteryNext]_batteryVars PROVE BatteryIndInv'
  <2>1. CASE LevelMoves
    <3>1. /\ level' \in Levels /\ moves' \in 0 .. MaxMoves /\ brokenReads' <= moves'
          /\ UNCHANGED <<plugged, opened, tried, said, lastLevel, opens, brokenReads, alerts, cleared>>
      BY <1>2, <2>1 DEF LevelMoves, BatteryIndInv, BatteryTypeOK
    <3> QED BY <1>2, <3>1 DEF BatteryIndInv, BatteryTypeOK, BatteryInv
  <2>2. CASE ChargerMoves
    <3>1. plugged' \in BOOLEAN BY <2>2, Zenon DEF ChargerMoves
    <3>2. moves' \in 0 .. MaxMoves /\ brokenReads' <= moves'
      BY <1>2, <2>2 DEF ChargerMoves, BatteryIndInv, BatteryTypeOK
    <3>3. /\ alerts' \in [Thresholds -> Nat] /\ cleared' \in Nat
          /\ \A t \in Thresholds : alerts'[t] <= cleared' + (IF t \in said THEN 1 ELSE 0)
      BY <1>2, <2>2 DEF ChargerMoves, BatteryIndInv, BatteryTypeOK, BatteryInv
    <3>4. UNCHANGED <<level, opened, tried, said, lastLevel, opens, brokenReads>>
      BY <2>2 DEF ChargerMoves
    <3> QED BY <1>2, <3>1, <3>2, <3>3, <3>4 DEF BatteryIndInv, BatteryTypeOK, BatteryInv
  <2>3. CASE StatusRead
    <3>1. PICK ok \in BOOLEAN : ReadGauge(ok) BY <2>3 DEF StatusRead
    <3>2. UNCHANGED <<level, plugged, said, lastLevel, alerts, cleared>> BY <2>3 DEF StatusRead
    <3> QED BY <1>2, <3>1, <3>2, ReadGaugeInv DEF BatteryIndInv, BatteryTypeOK, BatteryInv
  <2>4. CASE TickCharging \/ TickOnBattery
    <3>1. PICK ok \in BOOLEAN : ReadGauge(ok) BY <2>4 DEF TickCharging, TickOnBattery
    <3>2. UNCHANGED <<level, plugged>> BY <2>4 DEF TickCharging, TickOnBattery
    <3>3. lastLevel' \in -1 .. 100
      <4>1. lastLevel' = level \/ lastLevel' = 100 BY <2>4 DEF TickCharging, TickOnBattery
      <4>2. level \in 0 .. 100 BY <1>2 DEF BatteryIndInv, BatteryTypeOK
      <4> QED BY <4>1, <4>2
    <3> QED BY <1>2, <2>4, <3>1, <3>2, <3>3, ReadGaugeInv, TickBatteryInv
        DEF BatteryIndInv, BatteryTypeOK, BatteryInv
  <2>5. CASE UNCHANGED batteryVars
    BY <1>2, <2>5 DEF batteryVars, BatteryIndInv, BatteryTypeOK, BatteryInv
  <2> QED BY <1>2, <2>1, <2>2, <2>3, <2>4, <2>5 DEF BatteryNext
<1> QED BY <1>1, <1>2, PTL DEF BatterySpec

-----------------------------------------------------------------------------
(* Each pause before a reopen is at most five seconds.                     *)
LEMMA DelayType == \A n \in 0 .. 4 : Delay(n) \in 0 .. 5000
<1>1. 2 ^ 0 = 1 /\ 2 ^ 1 = 2 /\ 2 ^ 2 = 4 /\ 2 ^ 3 = 8 /\ 2 ^ 4 = 16 OBVIOUS
<1>2. SUFFICES ASSUME NEW n \in 0 .. 4 PROVE Delay(n) \in 0 .. 5000
  OBVIOUS
<1>3. n = 0 \/ n = 1 \/ n = 2 \/ n = 3 \/ n = 4 OBVIOUS
<1>4. 2 ^ n = 1 \/ 2 ^ n = 2 \/ 2 ^ n = 4 \/ 2 ^ n = 8 \/ 2 ^ n = 16 BY <1>1, <1>3, Zenon
<1>5. Delay(n) = IF 250 * (2 ^ n) < 5000 THEN 250 * (2 ^ n) ELSE 5000 BY Zenon DEF Delay
<1> QED BY <1>4, <1>5

(* The card comes and goes: a handle changes only from live to dead.       *)
LEMMA CardInv ==
  ASSUME DevicesTypeOK, DevicesInv, Unplug \/ Plug PROVE DevicesTypeOK' /\ DevicesInv'
<1>1. attached' \in BOOLEAN BY Zenon DEF Unplug, Plug
<1>2. CASE Unplug
  <2>1. \A h \in Handle : Killed(h) \in Handle /\ (Killed(h) = "none" <=> h = "none")
    BY DEF Killed, Handle
  <2>2. /\ micHandle' \in Handle /\ (micHandle' = "none" <=> micHandle = "none")
        /\ playHandle' \in Handle /\ (playHandle' = "none" <=> playHandle = "none")
        /\ streamHandle' \in Handle /\ (streamHandle' = "none" <=> streamHandle = "none")
    BY <1>2, <2>1 DEF DevicesTypeOK, Unplug
  <2>3. unplugs' \in 0 .. MaxUnplugs BY <1>2, DevicesAssumption DEF DevicesAssumption, DevicesTypeOK, Unplug
  <2>4. UNCHANGED <<micOn, micAt, attempts, delay, micStopping, plays, playAt, playLeft, writeLeft>>
    BY <1>2 DEF Unplug
  <2> QED BY <1>1, <2>2, <2>3, <2>4 DEF DevicesTypeOK, DevicesInv
<1>3. CASE Plug
  <2>1. UNCHANGED <<unplugs, micVars, playVars, streamVars>> BY <1>3 DEF Plug
  <2> QED BY <1>1, <2>1 DEF DevicesTypeOK, DevicesInv, micVars, playVars, streamVars
<1> QED BY <1>2, <1>3

(* What the capture thread, and who starts and stops it, leave alone.      *)
MicFrame == UNCHANGED <<attached, unplugs, plays, playAt, playHandle, playLeft, streamHandle, writeLeft>>

LEMMA MicFlagsType ==
  ASSUME DevicesTypeOK, StartMic \/ StopMic \/ StopJoins \/ MicStep
  PROVE  micOn' \in BOOLEAN /\ micStopping' \in BOOLEAN /\ MicFrame
<1>1. MicFrame
  BY DEF MicFrame, StartMic, StopMic, StopJoins, MicStep, MicChecks, MicReopens, MicReads,
         playVars, streamVars
<1>2. micOn \in BOOLEAN /\ micStopping \in BOOLEAN /\ attached \in BOOLEAN BY DEF DevicesTypeOK
<1>3. micOn' \in {TRUE, FALSE, micOn, attached}
  BY DEF StartMic, StopMic, StopJoins, MicStep, MicChecks, MicReopens, MicReads
<1>4. micStopping' \in {TRUE, FALSE, micStopping}
  BY DEF StartMic, StopMic, StopJoins, MicStep, MicChecks, MicReopens, MicReads
<1>5. micOn' \in BOOLEAN BY <1>2, <1>3, Zenon
<1>6. micStopping' \in BOOLEAN BY <1>2, <1>4, Zenon
<1> QED BY <1>1, <1>5, <1>6

(* The capture thread, and who starts and stops it.                        *)
LEMMA MicInv ==
  ASSUME DevicesTypeOK, DevicesInv, StartMic \/ StopMic \/ StopJoins \/ MicStep
  PROVE  DevicesTypeOK' /\ DevicesInv'
<1> DEFINE Typed == /\ micAt' \in {"off", "check", "backoff", "read"} /\ micHandle' \in Handle
                    /\ attempts' \in 0 .. 4 /\ delay' \in 0 .. 5000
           Sound == /\ micOn' => micAt' # "off"
                    /\ micAt' # "off" => micOn' \/ micStopping'
                    /\ micAt' = "off" /\ ~micStopping' => micHandle' = "none"
<1>0. /\ micAt \in {"off", "check", "backoff", "read"} /\ micHandle \in Handle
      /\ attempts \in 0 .. 4 /\ delay \in 0 .. 5000 /\ Delay(attempts) \in 0 .. 5000
      /\ Opened \in {"live", "none"} /\ (Opened = "live" => attached)
      /\ micOn => micAt # "off"
      /\ micAt # "off" => micOn \/ micStopping
      /\ micAt = "off" /\ ~micStopping => micHandle = "none"
  <2>1. attempts \in 0 .. 4 BY DEF DevicesTypeOK
  <2>2. Delay(attempts) \in 0 .. 5000 BY <2>1, DelayType
  <2>3. Opened \in {"live", "none"} /\ (Opened = "live" => attached) BY DEF Opened
  <2> QED BY <2>1, <2>2, <2>3 DEF DevicesTypeOK, DevicesInv
<1>1. ASSUME StartMic PROVE Typed /\ Sound BY <1>0, <1>1 DEF StartMic, Handle
<1>2. ASSUME StopMic PROVE Typed /\ Sound BY <1>0, <1>2 DEF StopMic
<1>3. ASSUME StopJoins PROVE Typed /\ Sound BY <1>0, <1>3 DEF StopJoins, Handle
<1>4. ASSUME MicChecks PROVE Typed /\ Sound BY <1>0, <1>4 DEF MicChecks
<1>5. ASSUME MicReopens PROVE Typed /\ Sound BY <1>0, <1>5 DEF MicReopens, Handle
<1>6. ASSUME MicReads PROVE Typed /\ Sound BY <1>0, <1>6 DEF MicReads, Handle
<1>7. StartMic \/ StopMic \/ StopJoins \/ MicChecks \/ MicReopens \/ MicReads BY DEF MicStep
<1>8. Typed /\ Sound
  <2> HIDE DEF Typed, Sound
  <2> QED BY <1>1, <1>2, <1>3, <1>4, <1>5, <1>6, <1>7, Zenon
<1> QED BY <1>8, MicFlagsType DEF DevicesTypeOK, DevicesInv, MicFrame

(* A line, and the stream of a reply.                                      *)
LEMMA SoundInv ==
  ASSUME DevicesTypeOK, DevicesInv,
         Play \/ PlayStep \/ BeginStream \/ WriteStream \/ WritePiece \/ CloseStream
  PROVE  DevicesTypeOK' /\ DevicesInv'
<1>1. UNCHANGED <<attached, unplugs, micOn, micAt, micHandle, attempts, delay, micStopping>>
  BY DEF Play, PlayStep, PlayChunk, PlayDrains, BeginStream, WriteStream, WritePiece, CloseStream, micVars
<1>2. CASE Play \/ PlayStep
  <2>0. /\ plays \in 0 .. MaxPlays /\ playAt \in {"idle", "write", "drain"} /\ playHandle \in Handle
        /\ playLeft \in 0 .. MaxPieces /\ Opened = (IF attached THEN "live" ELSE "none")
        /\ (playAt = "idle") <=> (playHandle = "none")
        /\ playAt = "write" => playLeft > 0
    BY DEF DevicesTypeOK, DevicesInv, Opened
  <2>1. UNCHANGED <<streamHandle, writeLeft>>
    BY <1>2 DEF Play, PlayStep, PlayChunk, PlayDrains, streamVars
  <2> DEFINE Good == /\ plays' \in 0 .. MaxPlays /\ playAt' \in {"idle", "write", "drain"}
                     /\ playHandle' \in Handle /\ playLeft' \in 0 .. MaxPieces
                     /\ (playAt' = "idle") <=> (playHandle' = "none")
                     /\ playAt' = "write" => playLeft' > 0
  <2>2. ASSUME Play PROVE Good BY <2>0, <2>2, DevicesAssumption DEF DevicesAssumption, Play, Handle
  <2>3. ASSUME PlayChunk PROVE Good
    BY <2>0, <2>3, DevicesAssumption DEF DevicesAssumption, PlayChunk
  <2>4. ASSUME PlayDrains PROVE Good BY <2>0, <2>4 DEF PlayDrains, Handle
  <2>5. Good BY <1>2, <2>2, <2>3, <2>4 DEF PlayStep
  <2> QED BY <1>1, <2>1, <2>5 DEF DevicesTypeOK, DevicesInv
<1>3. CASE BeginStream \/ WriteStream \/ WritePiece \/ CloseStream
  <2>0. streamHandle \in Handle /\ writeLeft \in 0 .. MaxPieces /\ (writeLeft > 0 => streamHandle # "none")
    BY DEF DevicesTypeOK, DevicesInv
  <2>1. UNCHANGED <<plays, playAt, playHandle, playLeft>>
    BY <1>3 DEF BeginStream, WriteStream, WritePiece, CloseStream, playVars
  <2> DEFINE Good == /\ streamHandle' \in Handle /\ writeLeft' \in 0 .. MaxPieces
                     /\ writeLeft' > 0 => streamHandle' # "none"
  <2>2. ASSUME BeginStream PROVE Good BY <2>0, <2>2 DEF BeginStream, StreamFree, Handle, Opened
  <2>3. ASSUME WriteStream PROVE Good BY <2>0, <2>3, DevicesAssumption DEF DevicesAssumption, WriteStream
  <2>4. ASSUME WritePiece PROVE Good BY <2>0, <2>4, DevicesAssumption DEF DevicesAssumption, WritePiece
  <2>5. ASSUME CloseStream PROVE Good BY <2>0, <2>5 DEF CloseStream, StreamFree, Handle
  <2>6. Good BY <1>3, <2>2, <2>3, <2>4, <2>5
  <2> QED BY <1>1, <2>1, <2>6 DEF DevicesTypeOK, DevicesInv
<1> QED BY <1>2, <1>3

(* The capture thread runs while its flag is up and leaves no handle       *)
(* behind, and a line holds one exactly while it plays, wherever the card  *)
(* is unplugged.                                                           *)
THEOREM DevicesInvariant == DevicesSpec => [](DevicesTypeOK /\ DevicesInv)
<1>1. DevicesInit => DevicesTypeOK /\ DevicesInv
  <2> SUFFICES ASSUME DevicesInit PROVE DevicesTypeOK /\ DevicesInv
    OBVIOUS
  <2>1. attached \in BOOLEAN /\ micOn \in BOOLEAN /\ micStopping \in BOOLEAN
    BY Zenon DEF DevicesInit
  <2> QED BY <2>1, DevicesAssumption
      DEF DevicesAssumption, DevicesInit, DevicesTypeOK, DevicesInv, Handle
<1>2. DevicesTypeOK /\ DevicesInv /\ [DevicesNext]_deviceVars => (DevicesTypeOK /\ DevicesInv)'
  <2>1. ASSUME DevicesTypeOK, DevicesInv, UNCHANGED deviceVars PROVE DevicesTypeOK' /\ DevicesInv'
    BY <2>1 DEF deviceVars, DevicesTypeOK, DevicesInv
  <2> QED BY <2>1, CardInv, MicInv, SoundInv DEF DevicesNext
<1> QED BY <1>1, <1>2, PTL DEF DevicesSpec
=============================================================================
