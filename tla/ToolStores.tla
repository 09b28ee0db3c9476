----------------------------- MODULE ToolStores -----------------------------
(***************************************************************************)
(* What the tools keep: the settings (app/settings.cc), a map in memory    *)
(* that is written in full, in place, at every set, with the reminders and *)
(* the calendar as values in it (agent/system_tools.cc), and the memory    *)
(* about the user, a file of its own (agent/assistant_tools.cc).  A set    *)
(* and a get are atomic; a tool that reads, changes and writes a value is  *)
(* not, and only the memory has a mutex for that.                          *)
(***************************************************************************)
EXTENDS Integers, FiniteSets

CONSTANTS
  Writers,    (* threads that run the tools                                 *)
  MaxItems,   (* bound: things asked to be kept                             *)
  MaxReboots  (* bound: times the process ends and is started again         *)

Nobody == "nobody"

ASSUME StoresAssumption == Nobody \notin Writers /\ MaxItems \in Nat /\ MaxReboots \in Nat

VARIABLES
  kv,        (* map_: the reminders, the day of the calendar, its index     *)
  kvFile,    (* the settings file                                           *)
  kvSaver,   (* the writer inside save(), with the mutex held               *)
  facts,     (* the memory file                                             *)
  factsTorn, (* it is truncated and not yet written                         *)
  factsLock, (* the writer that holds the mutex of the memory               *)
  doing,     (* per writer: the step its tool is at                         *)
  edited,    (* per writer: the value it is about to write                  *)
  item,      (* per writer: what it was asked to keep                       *)
  itemsAsked, (* things asked to be kept so far                             *)
  reboots,
  promised,  (* history: reminders and facts whose caller was told so       *)
  overlap,   (* history: two tools that change a setting overlapped         *)
  damaged    (* history: a crash hit a file while it was written            *)

storesVars == <<kv, kvFile, kvSaver, facts, factsTorn, factsLock, doing, edited, item, itemsAsked,
                reboots, promised, overlap, damaged>>

Items == 1 .. MaxItems
Kept == [id : Items, item : Items, done : BOOLEAN]
Settings == [reminders : SUBSET Kept, day : SUBSET Kept, index : BOOLEAN]
NoSettings == [reminders |-> {}, day |-> {}, index |-> FALSE]

StoresTypeOK ==
  /\ kv \in Settings /\ kvFile \in Settings
  /\ kvSaver \in Writers \cup {Nobody} /\ factsLock \in Writers \cup {Nobody}
  /\ facts \subseteq Kept /\ factsTorn \in BOOLEAN
  /\ doing \in [Writers -> {"idle", "remind", "event", "index", "reminded", "noted",
                           "memory", "write"}]
  /\ edited \in [Writers -> SUBSET Kept]
  /\ item \in [Writers -> 0 .. MaxItems]
  /\ itemsAsked \in 0 .. MaxItems /\ reboots \in 0 .. MaxReboots
  /\ promised \subseteq {"reminder", "fact"} \X Items
  /\ overlap \in BOOLEAN /\ damaged \in BOOLEAN

StoresInit ==
  /\ kv = NoSettings /\ kvFile = NoSettings /\ kvSaver = Nobody
  /\ facts = {} /\ factsTorn = FALSE /\ factsLock = Nobody
  /\ doing = [w \in Writers |-> "idle"] /\ edited = [w \in Writers |-> {}]
  /\ item = [w \in Writers |-> 0]
  /\ itemsAsked = 0 /\ reboots = 0
  /\ promised = {} /\ overlap = FALSE /\ damaged = FALSE

(* Reminders and facts are numbered one above the largest id there is; the *)
(* id of an event is the number of its line in the day.                    *)
FreeId(entries) ==
  CHOOSE n \in 1 .. MaxItems + 1 :
    /\ \A e \in entries : e.id < n
    /\ n = 1 \/ \E e \in entries : e.id = n - 1

Added(entries, i) == entries \cup {[id |-> FreeId(entries), item |-> i, done |-> FALSE]}
Completed(entries, id) == {[e EXCEPT !.done = e.done \/ e.id = id] : e \in entries}

(* A call of a tool begins: it is given the next thing to keep.            *)
Begin(w, step, value) ==
  /\ doing[w] = "idle"
  /\ doing' = [doing EXCEPT ![w] = step]
  /\ edited' = [edited EXCEPT ![w] = value]

TakesItem(w) ==
  /\ itemsAsked < MaxItems /\ itemsAsked' = itemsAsked + 1
  /\ item' = [item EXCEPT ![w] = itemsAsked + 1]

Finish(w) ==
  /\ doing' = [doing EXCEPT ![w] = "idle"]
  /\ edited' = [edited EXCEPT ![w] = {}]
  /\ item' = [item EXCEPT ![w] = 0]

Promise(w, kind) == promised' = promised \cup {<<kind, item[w]>>}

-----------------------------------------------------------------------------
(* Two tools that change a setting are between their read and their write. *)
Overlaps == overlap' = (overlap \/ \E w \in Writers : doing[w] \in {"remind", "event", "index"})

(* ReminderTool, "add" and "complete": the list is read and edited.        *)
ReadReminders(w) ==
  /\ kvSaver = Nobody
  /\ \/ TakesItem(w) /\ Begin(w, "remind", Added(kv.reminders, itemsAsked + 1))
     \/ /\ \E e \in kv.reminders : ~e.done /\ Begin(w, "remind", Completed(kv.reminders, e.id))
        /\ UNCHANGED <<itemsAsked, item>>
  /\ Overlaps
  /\ UNCHANGED <<kv, kvFile, kvSaver, facts, factsTorn, factsLock, reboots, promised, damaged>>

(* CalendarTool: the events of a day are lines of one value.               *)
ReadDay(w) ==
  /\ kvSaver = Nobody
  /\ TakesItem(w) /\ Begin(w, "event", Added(kv.day, itemsAsked + 1))
  /\ Overlaps
  /\ UNCHANGED <<kv, kvFile, kvSaver, facts, factsTorn, factsLock, reboots, promised, damaged>>

(* KvStore::set changes the map, and save() truncates the file ...         *)
Set(w, s) == kv' = s /\ kvFile' = NoSettings /\ kvSaver' = w

SetReminders(w) ==
  /\ doing[w] = "remind" /\ kvSaver = Nobody
  /\ Set(w, [kv EXCEPT !.reminders = edited[w]])
  /\ doing' = [doing EXCEPT ![w] = "reminded"]
  /\ UNCHANGED <<facts, factsTorn, factsLock, edited, item, itemsAsked, reboots, promised,
                 overlap, damaged>>

SetDay(w) ==
  /\ doing[w] = "event" /\ kvSaver = Nobody
  /\ Set(w, [kv EXCEPT !.day = edited[w]])
  /\ doing' = [doing EXCEPT ![w] = "index"]
  /\ UNCHANGED <<facts, factsTorn, factsLock, edited, item, itemsAsked, reboots, promised,
                 overlap, damaged>>

(* CalendarIndexAdd: the date is listed unless it is there.                *)
SetIndex(w) ==
  /\ doing[w] = "index" /\ kvSaver = Nobody
  /\ IF kv.index THEN UNCHANGED <<kv, kvFile, kvSaver>> ELSE Set(w, [kv EXCEPT !.index = TRUE])
  /\ doing' = [doing EXCEPT ![w] = "noted"]
  /\ UNCHANGED <<facts, factsTorn, factsLock, edited, item, itemsAsked, reboots, promised,
                 overlap, damaged>>

(* ... and writes all of it before the mutex is free.                      *)
SettingsSaved ==
  /\ kvSaver # Nobody
  /\ kvFile' = kv /\ kvSaver' = Nobody
  /\ UNCHANGED <<kv, facts, factsTorn, factsLock, doing, edited, item, itemsAsked, reboots, promised,
                 overlap, damaged>>

(* The tool answers; of the reminders it said that they are kept.          *)
SettingsReply(w) ==
  /\ doing[w] \in {"reminded", "noted"} /\ kvSaver # w
  /\ IF item[w] # 0 /\ doing[w] = "reminded" THEN Promise(w, "reminder") ELSE UNCHANGED promised
  /\ Finish(w)
  /\ UNCHANGED <<kv, kvFile, kvSaver, facts, factsTorn, factsLock, itemsAsked, reboots, overlap,
                 damaged>>

-----------------------------------------------------------------------------
(* The memory as LoadMemory sees it: one that does not parse is empty.     *)
Remembered == IF factsTorn THEN {} ELSE facts

(* Mutant: the memory is loaded before its mutex is taken.                 *)
LoadMemoryUnlocked(w) ==
  /\ \/ TakesItem(w) /\ Begin(w, "memory", Added(Remembered, itemsAsked + 1)) /\ UNCHANGED promised
     \/ /\ \E e \in Remembered : /\ Begin(w, "memory", Remembered \ {e})
                                 /\ promised' = promised \ {<<"fact", e.item>>}
        /\ UNCHANGED <<itemsAsked, item>>
  /\ UNCHANGED <<kv, kvFile, kvSaver, facts, factsTorn, factsLock, reboots, overlap, damaged>>

(* MemoryTool, "remember" and "forget", under the mutex: load and edit ... *)
LoadMemory(w) ==
  /\ factsLock = Nobody /\ factsLock' = w
  /\ \/ TakesItem(w) /\ Begin(w, "memory", Added(Remembered, itemsAsked + 1)) /\ UNCHANGED promised
     \/ /\ \E e \in Remembered : /\ Begin(w, "memory", Remembered \ {e})
                                 /\ promised' = promised \ {<<"fact", e.item>>}
        /\ UNCHANGED <<itemsAsked, item>>
  /\ UNCHANGED <<kv, kvFile, kvSaver, facts, factsTorn, reboots, overlap, damaged>>

(* ... truncate the file ...                                               *)
TruncateMemory(w) ==
  /\ doing[w] = "memory"
  /\ facts' = {} /\ factsTorn' = TRUE
  /\ doing' = [doing EXCEPT ![w] = "write"]
  /\ UNCHANGED <<kv, kvFile, kvSaver, factsLock, edited, item, itemsAsked, reboots, promised,
                 overlap, damaged>>

(* ... write it, and answer.                                               *)
WriteMemory(w) ==
  /\ doing[w] = "write"
  /\ facts' = edited[w] /\ factsTorn' = FALSE /\ factsLock' = Nobody
  /\ IF item[w] # 0 THEN Promise(w, "fact") ELSE UNCHANGED promised
  /\ Finish(w)
  /\ UNCHANGED <<kv, kvFile, kvSaver, itemsAsked, reboots, overlap, damaged>>

-----------------------------------------------------------------------------
(* load(): a value is read up to its first line break, so the second event *)
(* of a day is not.  The file of a crashed save() is empty: of what it has *)
(* written then, nothing may have left the stream.                         *)
Reloaded(s) == [s EXCEPT !.day = {e \in @ : e.id = 1}]

(* The process ends, by a crash or by a restart, and starts again.         *)
Reboot ==
  /\ reboots < MaxReboots
  /\ reboots' = reboots + 1
  /\ kv' = Reloaded(kvFile)
  /\ damaged' = (damaged \/ kvSaver # Nobody \/ factsTorn)
  /\ kvSaver' = Nobody /\ factsLock' = Nobody
  /\ doing' = [w \in Writers |-> "idle"] /\ edited' = [w \in Writers |-> {}]
  /\ item' = [w \in Writers |-> 0]
  /\ UNCHANGED <<kvFile, facts, factsTorn, itemsAsked, promised, overlap>>

StoresNext ==
  \/ \E w \in Writers :
       \/ ReadReminders(w) \/ ReadDay(w) \/ SetReminders(w) \/ SetDay(w) \/ SetIndex(w)
       \/ SettingsReply(w) \/ LoadMemory(w) \/ TruncateMemory(w) \/ WriteMemory(w)
  \/ SettingsSaved \/ Reboot

StoresSpec == StoresInit /\ [][StoresNext]_storesVars

-----------------------------------------------------------------------------
(* The file follows the map, and the memory is torn only under its mutex   *)
(* or after a crash; ids are unique.                                       *)
UniqueIds(entries) == \A e, f \in entries : e.id = f.id => e = f

StoresInv ==
  /\ kvSaver = Nobody => Reloaded(kvFile) = Reloaded(kv)
  /\ factsTorn => damaged \/ \E w \in Writers : factsLock = w /\ doing[w] = "write"
  /\ UniqueIds(facts) /\ UniqueIds(kv.reminders)

(* A fact whose caller was told that it is remembered is in the memory     *)
(* until it is forgotten, whichever tools run at the same time, unless a   *)
(* crash hit the file while it was written.                                *)
FactsAreKept ==
  damaged \/ factsTorn
  \/ \A i \in Items : <<"fact", i>> \in promised => \E e \in facts : e.item = i

(* A reminder that was confirmed is in the list, unless two tools changed  *)
(* settings at the same time or a crash hit the settings file.             *)
RemindersAreKept ==
  damaged \/ overlap
  \/ \A i \in Items : <<"reminder", i>> \in promised => \E e \in kv.reminders : e.item = i
=============================================================================
