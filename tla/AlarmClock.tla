----------------------------- MODULE AlarmClock -----------------------------
(***************************************************************************)
(* The morning alarm (app/application.cc, the alarm tool) and the notes it *)
(* reads out (TaskStore of agent/tools.cc).  The main loop looks at the    *)
(* clock once a second; tools change the alarm and add notes on threads of *)
(* their own; the process may crash and start again at any step.           *)
(***************************************************************************)
EXTENDS Integers, FiniteSets

CONSTANTS
  MinutesOfDay,  (* bound: 0 .. MinutesOfDay - 1 are the minutes of a day   *)
  MaxAlarmDays,  (* bound: days                                             *)
  MaxNotes,      (* bound: notes added                                      *)
  MaxChanges,    (* bound: changes of the alarm                             *)
  MaxAlarmCrashes

ASSUME AlarmAssumption ==
  /\ MinutesOfDay \in Nat \ {0} /\ MaxAlarmDays \in Nat \ {0}
  /\ MaxNotes \in Nat /\ MaxChanges \in Nat /\ MaxAlarmCrashes \in Nat

VARIABLES
  today, minute,  (* the local time                                         *)
  ticked,         (* the loop has looked at the clock in this minute        *)
  alarm,          (* settings: enabled, time, last_fired_date (0: none)     *)
  setting,        (* the tool has written the time and not yet enabled it   *)
  charging,       (* the charger is connected                               *)
  loop,           (* where TickClock is                                     *)
  notes,          (* TaskStore: the morning notes not marked as spoken      *)
  pending,        (* the notes FireAlarm is about to speak                  *)
  added,          (* notes added so far                                     *)
  changes, alarmCrashes,
  steady,         (* history: no change of the alarm, no crash this minute  *)
  rings,          (* history: per day, how often the alarm rang             *)
  again,          (* history: per day, how often an alarm that had rung and *)
                  (* was lost in a crash, with its date, was set anew       *)
  skipped,        (* history: days whose alarm a crash ended before it rang *)
  spoken,         (* history: per note, how often it was spoken             *)
  dropped         (* history: notes a crash in TaskStore::Save destroyed    *)

historyVars == <<rings, again, skipped, spoken, dropped>>

alarmVars == <<today, minute, ticked, alarm, setting, charging, loop, notes, pending, added,
               changes, alarmCrashes, steady, rings, again, skipped, spoken, dropped>>

Minutes == 0 .. MinutesOfDay - 1
Days == 1 .. MaxAlarmDays
Notes == 1 .. MaxNotes

(* No time is set, or what is there is no time: CheckAlarm returns.        *)
NoTime == -1
AlarmSettings == [enabled : BOOLEAN, time : Minutes \cup {NoTime}, last : 0 .. MaxAlarmDays]
NoAlarm == [enabled |-> FALSE, time |-> NoTime, last |-> 0]

AlarmTypeOK ==
  /\ today \in Days /\ minute \in Minutes
  /\ ticked \in BOOLEAN /\ setting \in BOOLEAN /\ charging \in BOOLEAN /\ steady \in BOOLEAN
  /\ alarm \in AlarmSettings
  /\ loop \in {"idle", "due", "marked", "notes", "speak", "mark"}
  /\ notes \subseteq Notes /\ pending \subseteq Notes /\ dropped \subseteq Notes
  /\ added \in 0 .. MaxNotes /\ changes \in 0 .. MaxChanges
  /\ alarmCrashes \in 0 .. MaxAlarmCrashes
  /\ rings \in [Days -> Nat] /\ again \in [Days -> Nat] /\ skipped \subseteq Days
  /\ spoken \in [Notes -> Nat]

AlarmInit ==
  /\ today = 1 /\ minute = 0 /\ ticked = FALSE
  /\ alarm = NoAlarm
  /\ setting = FALSE /\ charging \in BOOLEAN
  /\ loop = "idle" /\ notes = {} /\ pending = {} /\ added = 0
  /\ changes = 0 /\ alarmCrashes = 0 /\ steady = FALSE
  /\ rings = [d \in Days |-> 0] /\ again = [d \in Days |-> 0] /\ skipped = {}
  /\ spoken = [n \in Notes |-> 0] /\ dropped = {}

-----------------------------------------------------------------------------
(* The loop comes round at least once in a minute, unless FireAlarm, whose *)
(* weather request is bounded by its timeout, holds it.                    *)
TimePasses ==
  /\ loop = "idle" /\ ticked
  /\ IF minute + 1 \in Minutes
       THEN minute' = minute + 1 /\ UNCHANGED today
       ELSE minute' = 0 /\ today < MaxAlarmDays /\ today' = today + 1
  /\ ticked' = FALSE /\ steady' = TRUE
  /\ UNCHANGED <<alarm, setting, charging, loop, notes, pending, added, changes, alarmCrashes,
                 historyVars>>

Charger ==
  /\ charging' = ~charging
  /\ UNCHANGED <<today, minute, ticked, alarm, setting, loop, notes, pending, added, changes,
                 alarmCrashes, steady, historyVars>>

(* AlarmTool::Execute, "set": the time is written, then the switch.        *)
SetAlarmTime ==
  /\ ~setting /\ changes < MaxChanges
  /\ \E t \in Minutes : alarm' = [alarm EXCEPT !.time = t]
  /\ setting' = TRUE /\ changes' = changes + 1 /\ steady' = FALSE
  /\ again' = IF alarm.time = NoTime /\ alarm.last # today /\ rings[today] > 0
                THEN [again EXCEPT ![today] = @ + 1] ELSE again
  /\ UNCHANGED <<today, minute, ticked, charging, loop, notes, pending, added, alarmCrashes,
                 rings, skipped, spoken, dropped>>

EnableAlarm ==
  /\ setting
  /\ alarm' = [alarm EXCEPT !.enabled = TRUE]
  /\ setting' = FALSE /\ steady' = FALSE
  /\ UNCHANGED <<today, minute, ticked, charging, loop, notes, pending, added, changes,
                 alarmCrashes, historyVars>>

CancelAlarm ==
  /\ alarm.enabled /\ changes < MaxChanges
  /\ alarm' = [alarm EXCEPT !.enabled = FALSE]
  /\ changes' = changes + 1 /\ steady' = FALSE
  /\ UNCHANGED <<today, minute, ticked, setting, charging, loop, notes, pending, added,
                 alarmCrashes, historyVars>>

(* TaskStore::AddNote with remind_morning, under the mutex of the store.   *)
AddNote ==
  /\ added < MaxNotes
  /\ added' = added + 1
  /\ notes' = notes \cup {added + 1}
  /\ UNCHANGED <<today, minute, ticked, alarm, setting, charging, loop, pending, changes,
                 alarmCrashes, steady, historyVars>>

-----------------------------------------------------------------------------
Due == alarm.enabled /\ alarm.time = minute /\ alarm.last # today

(* Mutant: the tick ends at the battery while the charger is connected.    *)
TickBatteryFirst ==
  /\ loop = "idle"
  /\ ticked' = TRUE
  /\ loop' = IF Due /\ ~charging THEN "due" ELSE "idle"
  /\ UNCHANGED <<today, minute, alarm, setting, charging, notes, pending, added, changes,
                 alarmCrashes, steady, historyVars>>

(* TickClock begins with CheckAlarm, whatever the battery does.            *)
TickClock ==
  /\ loop = "idle"
  /\ ticked' = TRUE
  /\ loop' = IF Due THEN "due" ELSE "idle"
  /\ UNCHANGED <<today, minute, alarm, setting, charging, notes, pending, added, changes,
                 alarmCrashes, steady, historyVars>>

(* Mutant: the date is kept with the process and not in the settings.      *)
MarkFiredVolatile ==
  /\ loop = "due"
  /\ alarm' \in {alarm, [alarm EXCEPT !.last = today]}
  /\ loop' = "marked"
  /\ UNCHANGED <<today, minute, ticked, setting, charging, notes, pending, added, changes,
                 alarmCrashes, steady, historyVars>>

(* The date is persisted before anything sounds.                           *)
MarkFired ==
  /\ loop = "due"
  /\ alarm' = [alarm EXCEPT !.last = today]
  /\ loop' = "marked"
  /\ UNCHANGED <<today, minute, ticked, setting, charging, notes, pending, added, changes,
                 alarmCrashes, steady, historyVars>>

(* FireAlarm: the ringtone is started in the background, and the weather   *)
(* is asked for and spoken, or its failure.                                *)
RingAlarm ==
  /\ loop = "marked"
  /\ rings' = [rings EXCEPT ![today] = @ + 1]
  /\ loop' = "notes"
  /\ UNCHANGED <<today, minute, ticked, alarm, setting, charging, notes, pending, added, changes,
                 alarmCrashes, steady, again, skipped, spoken, dropped>>

(* PendingMorningNotes returns a copy.                                     *)
TakeNotes ==
  /\ loop = "notes"
  /\ pending' = notes
  /\ loop' = IF notes = {} THEN "idle" ELSE "speak"
  /\ UNCHANGED <<today, minute, ticked, alarm, setting, charging, notes, added, changes,
                 alarmCrashes, steady, historyVars>>

SpeakNotes ==
  /\ loop = "speak"
  /\ spoken' = [n \in Notes |-> IF n \in pending THEN spoken[n] + 1 ELSE spoken[n]]
  /\ pending' = {} /\ loop' = "mark"
  /\ UNCHANGED <<today, minute, ticked, alarm, setting, charging, notes, added, changes,
                 alarmCrashes, steady, rings, again, skipped, dropped>>

(* MarkMorningNotesSpoken marks every note there is by now.                *)
MarkNotes ==
  /\ loop = "mark"
  /\ notes' = {}
  /\ loop' = "idle"
  /\ UNCHANGED <<today, minute, ticked, alarm, setting, charging, pending, added, changes,
                 alarmCrashes, steady, historyVars>>

(* What load() finds of the alarm in a settings.kv cut short.  The file is *)
(* truncated and written in place at every set, of whatever setting, with  *)
(* its keys in order: alarm.enabled, alarm.last_fired_date, alarm.time.    *)
Torn == {NoAlarm, [NoAlarm EXCEPT !.enabled = alarm.enabled], [alarm EXCEPT !.time = NoTime]}

(* The process dies and is started again.  Some thread may be in save() or *)
(* the last save() may have failed, so that the settings come back torn;   *)
(* and a crash that hits TaskStore::Save leaves a file that does not parse,*)
(* which Load takes for an empty store.                                    *)
AlarmCrash ==
  /\ alarmCrashes < MaxAlarmCrashes
  /\ alarmCrashes' = alarmCrashes + 1
  /\ alarm' \in Torn \cup {alarm}
  /\ \/ UNCHANGED <<notes, dropped>>
     \/ notes' = {} /\ dropped' = dropped \cup notes
  /\ loop' = "idle" /\ pending' = {} /\ setting' = FALSE
  /\ ticked' = FALSE /\ steady' = FALSE
  /\ skipped' = IF loop = "marked" THEN skipped \cup {today} ELSE skipped
  /\ UNCHANGED <<today, minute, charging, added, changes, rings, again, spoken>>

AlarmNext ==
  \/ TimePasses \/ Charger \/ SetAlarmTime \/ EnableAlarm \/ CancelAlarm \/ AddNote
  \/ TickClock \/ MarkFired \/ RingAlarm \/ TakeNotes \/ SpeakNotes \/ MarkNotes \/ AlarmCrash

AlarmSpec == AlarmInit /\ [][AlarmNext]_alarmVars

-----------------------------------------------------------------------------
(* The alarm rings at most once on a day, although the process may crash   *)
(* and be started again in the minute ("a reboot the same morning doesn't  *)
(* re-fire", application.cc:275) and the alarm may be changed; once more   *)
(* only if a crash lost the settings after it rang and somebody set the    *)
(* alarm anew on that day.                                                 *)
RingsOncePerDay == \A d \in Days : rings[d] <= 1 + again[d]

(* What the days and the notes rest on: a day that is marked may not ring  *)
(* again, and a day whose mark was lost not before the alarm is set anew,  *)
(* for the time is lost with the mark; a marked day has rung unless a crash*)
(* skipped it; a tick in a steady minute has not passed over an alarm; a   *)
(* note is spoken from a copy of the unmarked ones.                        *)
AlarmInv ==
  /\ alarm.last <= today /\ RingsOncePerDay
  /\ \A d \in Days : d > today => rings[d] = 0
  /\ alarm.last # today /\ alarm.time # NoTime => rings[today] <= again[today]
  /\ loop = "due" => alarm.last # today /\ alarm.time # NoTime
  /\ loop = "marked" => alarm.last = today /\ rings[today] <= again[today]
  /\ alarm.last = today /\ loop # "marked" => rings[today] > 0 \/ today \in skipped
  /\ steady /\ ticked /\ alarm.enabled /\ alarm.time = minute /\ loop # "due" =>
       alarm.last = today
  /\ pending \subseteq notes /\ (loop # "speak" => pending = {})
  /\ \A n \in notes : spoken[n] <= alarmCrashes + (IF loop = "mark" THEN 1 ELSE 0)
  /\ \A n \in notes : n <= added
  /\ \A n \in Notes : n > added => spoken[n] = 0

(* An alarm that stood unchanged for the whole of its minute has rung on   *)
(* that day when the minute ends, on the charger as well as off it, unless *)
(* a crash came between the mark and the ringtone.                         *)
MinuteEnds == minute' # minute \/ today' # today
AlarmIsNotMissed ==
  [][MinuteEnds /\ steady /\ alarm.enabled /\ alarm.time = minute =>
       rings[today] > 0 \/ today \in skipped]_alarmVars

(* A morning note is not read out twice, except that a crash between the   *)
(* reading and the marking repeats it.                                     *)
SpokenOnce == \A n \in Notes : spoken[n] <= 1 + alarmCrashes

(* "each is announced exactly once" (tools.h:66-68): a note that the store *)
(* no longer holds for the morning was read out.                           *)
NotesAnnounced == \A n \in 1 .. added : n \in notes \cup dropped \/ spoken[n] > 0
=============================================================================
