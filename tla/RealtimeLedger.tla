--------------------------- MODULE RealtimeLedger ---------------------------
(***************************************************************************)
(* The daily budget of realtime seconds (audio/realtime_client.cc): a      *)
(* session starts only below the budget, and its seconds are added to a    *)
(* file when it closes.  The file is truncated and written in place, the   *)
(* date is looked up more than once, and midnight or a crash may come      *)
(* between any two steps.                                                  *)
(***************************************************************************)
EXTENDS Naturals

CONSTANTS
  Budget,       (* GEMINI_LIVE_DAILY_MINUTES, in seconds                   *)
  MaxSeconds,   (* bound on a session                                      *)
  MaxDays,      (* bound on midnights                                      *)
  MaxRestarts   (* bound on restarts                                       *)

ASSUME LedgerAssumption ==
  /\ Budget \in Nat \ {0} /\ MaxSeconds \in Nat \ {0}
  /\ MaxDays \in Nat /\ MaxRestarts \in Nat

VARIABLES
  ledger,       (* date and seconds on disk; date 0 when nothing parses    *)
  day,          (* Today()                                                 *)
  stage,        (* where the thread that owns the client is                *)
  elapsed,      (* seconds of the session                                  *)
  entry,        (* the entry RecordSeconds prepares                        *)
  recorded,     (* seconds of the sessions whose entry of today was written*)
  spent,        (* seconds a session was open today                        *)
  restarts

ledgerVars == <<ledger, day, stage, elapsed, entry, recorded, spent, restarts>>

Nothing == [date |-> 0, seconds |-> 0]

LedgerInit ==
  /\ ledger = Nothing /\ day = 1 /\ stage = "closed" /\ elapsed = 0
  /\ entry = Nothing /\ recorded = 0 /\ spent = 0 /\ restarts = 0

(* Mutant: the date in the file is not compared.                           *)
SecondsEver == ledger.seconds

SecondsUsedToday == IF ledger.date = day THEN ledger.seconds ELSE 0

StartSession ==
  /\ stage = "closed" /\ SecondsUsedToday < Budget
  /\ stage' = "open" /\ elapsed' = 0
  /\ UNCHANGED <<ledger, day, entry, recorded, spent, restarts>>

SecondPasses ==
  /\ stage = "open" /\ elapsed < MaxSeconds
  /\ elapsed' = elapsed + 1 /\ spent' = spent + 1
  /\ UNCHANGED <<ledger, day, stage, entry, recorded, restarts>>

(* Stop, then RecordSeconds line by line.                                 *)
CloseSession ==
  /\ stage = "open" /\ stage' = IF elapsed = 0 THEN "closed" ELSE "date"
  /\ UNCHANGED <<ledger, day, elapsed, entry, recorded, spent, restarts>>

LookUpDate ==
  /\ stage = "date" /\ stage' = "sum"
  /\ entry' = [entry EXCEPT !.date = day]
  /\ UNCHANGED <<ledger, day, elapsed, recorded, spent, restarts>>

Sum ==
  /\ stage = "sum" /\ stage' = "truncate"
  /\ entry' = [entry EXCEPT !.seconds = SecondsUsedToday + elapsed]
  /\ UNCHANGED <<ledger, day, elapsed, recorded, spent, restarts>>

Truncate ==
  /\ stage = "truncate" /\ stage' = "write"
  /\ ledger' = Nothing
  /\ UNCHANGED <<day, elapsed, entry, recorded, spent, restarts>>

WriteEntry ==
  /\ stage = "write" /\ stage' = "closed"
  /\ ledger' = entry
  /\ recorded' = IF entry.date = day THEN recorded + elapsed ELSE recorded
  /\ UNCHANGED <<day, elapsed, entry, spent, restarts>>

Midnight ==
  /\ day <= MaxDays /\ day' = day + 1
  /\ recorded' = 0 /\ spent' = 0
  /\ UNCHANGED <<ledger, stage, elapsed, entry, restarts>>

(* A restart at any step; at "truncate" it has the effect of an open that  *)
(* fails, after which RecordSeconds returns with the file as it was.       *)
Restart ==
  /\ restarts < MaxRestarts /\ restarts' = restarts + 1
  /\ stage # "closed" /\ stage' = "closed" /\ elapsed' = 0 /\ entry' = Nothing
  /\ UNCHANGED <<ledger, day, recorded, spent>>

LedgerNext ==
  \/ StartSession \/ SecondPasses \/ CloseSession \/ LookUpDate \/ Sum \/ Truncate \/ WriteEntry
  \/ Midnight \/ Restart

LedgerSpec == LedgerInit /\ [][LedgerNext]_ledgerVars

-----------------------------------------------------------------------------
(* Properties.                                                             *)

LedgerSteps == {"closed", "open", "date", "sum", "truncate", "write"}
Entries == [date : Nat, seconds : 0..(Budget + MaxSeconds - 1)]
InSession == LedgerSteps \ {"closed"}

LedgerTypeOK ==
  /\ ledger \in Entries /\ entry \in Entries
  /\ day \in Nat \ {0} /\ stage \in LedgerSteps
  /\ elapsed \in 0..MaxSeconds
  /\ recorded \in Nat /\ spent \in Nat /\ restarts \in 0..MaxRestarts

(* Nobody is sent to the slower path early: the ledger never charges today *)
(* for more than the sessions recorded today, wherever midnight falls in a *)
(* session or in its recording, and wherever a crash comes.                *)
NeverOvercharged == SecondsUsedToday <= recorded

(* Without restarts a day costs less than the budget and one session, also *)
(* with sessions that run past midnight.                                   *)
DailyOverrun == restarts = 0 => spent < Budget + MaxSeconds

(* "A firmware restart cannot reset the day's total": at rest, the ledger  *)
(* accounts for every session recorded today.                              *)
TotalIsKept == stage = "closed" => SecondsUsedToday >= recorded

-----------------------------------------------------------------------------
(* The inductive invariant.                                                *)

(* Nothing is dated in the future.                                         *)
DatesArePast ==
  /\ ledger.date <= day
  /\ stage \in {"sum", "truncate", "write"} => entry.date <= day

(* An entry of today replaces a total it contains.                         *)
EntryIsBounded ==
  /\ stage \in InSession \ {"write"} => SecondsUsedToday < Budget
  /\ stage = "write" => ledger = Nothing
  /\ stage \in {"truncate", "write"} /\ entry.date = day => entry.seconds <= recorded + elapsed

(* While nothing has crashed, the ledger, or the entry about to replace it,*)
(* accounts for all that was recorded today.                               *)
TotalIsExact ==
  /\ stage # "write" => SecondsUsedToday = recorded
  /\ stage \in {"truncate", "write"} /\ entry.date = day => entry.seconds = recorded + elapsed
  /\ stage \in {"sum", "truncate", "write"} /\ entry.date # day => recorded = 0 /\ spent = 0

(* Every second of today belongs to a recorded session or to the one open. *)
SpentIsAccounted ==
  /\ stage = "closed" => spent <= recorded
  /\ stage \in InSession => recorded < Budget /\ spent <= recorded + elapsed
  /\ spent < Budget + MaxSeconds

LedgerInv ==
  /\ DatesArePast /\ EntryIsBounded /\ NeverOvercharged
  /\ restarts = 0 => TotalIsExact /\ SpentIsAccounted
=============================================================================
