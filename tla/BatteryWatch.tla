---------------------------- MODULE BatteryWatch ----------------------------
(***************************************************************************)
(* The battery: the gauge on the I2C bus (power/ina219.cc), the fall-back  *)
(* of Board::GetBatteryLevel (app/board.cc) and the spoken alerts of       *)
(* Application::TickClock (app/application.cc).  The main loop reads once  *)
(* a second, the device_status tool whenever it is asked; a transfer may   *)
(* fail, and the measured level moves up and down with the load.           *)
(***************************************************************************)
EXTENDS Integers, FiniteSets

CONSTANTS
  Levels,     (* percentages the gauge may measure                          *)
  MaxMoves    (* bound: changes of the level, of the charger and failed     *)
              (* transfers, and per charge the ticks that misread it        *)

ASSUME BatteryAssumption == Levels \subseteq 0 .. 100 /\ MaxMoves \in Nat

VARIABLES
  level, plugged,  (* the battery and the charger                           *)
  moves,
  opened,          (* fd_ >= 0                                              *)
  tried,           (* tried_                                                *)
  said,            (* the thresholds whose flag is set                      *)
  lastLevel,       (* last_battery_level_, -1 before the first tick         *)
  opens,           (* history: opens of the device that failed              *)
  brokenReads,     (* history: transfers that failed on an open device      *)
  alerts,          (* history: alerts per threshold since the charger left  *)
  cleared          (* history: ticks since then that took flags back        *)

batteryVars == <<level, plugged, moves, opened, tried, said, lastLevel, opens, brokenReads,
                 alerts, cleared>>

Thresholds == {50, 30, 10}

BatteryTypeOK ==
  /\ level \in Levels /\ plugged \in BOOLEAN /\ moves \in 0 .. MaxMoves
  /\ opened \in BOOLEAN /\ tried \in BOOLEAN
  /\ said \subseteq Thresholds /\ lastLevel \in -1 .. 100
  /\ opens \in Nat /\ brokenReads \in 0 .. MaxMoves
  /\ alerts \in [Thresholds -> Nat] /\ cleared \in Nat

BatteryInit ==
  /\ level \in Levels /\ plugged \in BOOLEAN /\ moves = 0
  /\ opened = FALSE /\ tried = FALSE
  /\ said = {} /\ lastLevel = -1
  /\ opens = 0 /\ brokenReads = 0
  /\ alerts = [t \in Thresholds |-> 0] /\ cleared = 0

(* The battery drains, charges, or its voltage sags under a load.          *)
LevelMoves ==
  /\ moves < MaxMoves /\ moves' = moves + 1
  /\ level' \in Levels \ {level}
  /\ UNCHANGED <<plugged, opened, tried, said, lastLevel, opens, brokenReads, alerts, cleared>>

ChargerMoves ==
  /\ moves < MaxMoves /\ moves' = moves + 1
  /\ plugged' = ~plugged
  /\ alerts' = IF plugged THEN [t \in Thresholds |-> 0] ELSE alerts
  /\ cleared' = IF plugged THEN 0 ELSE cleared
  /\ UNCHANGED <<level, opened, tried, said, lastLevel, opens, brokenReads>>

-----------------------------------------------------------------------------
(* Ina219::Read, under its mutex.  It opens the device unless it is open   *)
(* or an attempt has failed; a transfer that fails closes it and allows    *)
(* one more attempt.  ok says whether a level is returned.                 *)
ReadGauge(ok) ==
  \/ /\ opened /\ ok /\ UNCHANGED <<opened, tried, opens, brokenReads, moves>>
  \/ /\ opened /\ ~ok /\ moves < MaxMoves
     /\ opened' = FALSE /\ tried' = FALSE
     /\ brokenReads' = brokenReads + 1 /\ moves' = moves + 1 /\ UNCHANGED opens
  \/ /\ ~opened /\ ~tried /\ ok
     /\ opened' = TRUE /\ tried' = TRUE /\ UNCHANGED <<opens, brokenReads, moves>>
  \/ /\ ~opened /\ ~tried /\ ~ok
     /\ tried' = TRUE /\ opens' = opens + 1 /\ UNCHANGED <<opened, brokenReads, moves>>
  \/ /\ ~opened /\ tried /\ ~ok /\ UNCHANGED <<opened, tried, opens, brokenReads, moves>>

(* DeviceStatusTool reads for its answer only.                             *)
StatusRead ==
  \E ok \in BOOLEAN :
    ReadGauge(ok) /\ UNCHANGED <<level, plugged, said, lastLevel, alerts, cleared>>

(* The threshold whose band a level is in, 0 above them all.               *)
Band(l) == CASE l <= 10 -> 10 [] l > 10 /\ l <= 30 -> 30 [] l > 30 /\ l <= 50 -> 50 [] l > 50 -> 0

(* History: a tick took flags back.                                        *)
Takes(back) == cleared' = IF said \ back # said THEN cleared + 1 ELSE cleared

(* The tick sees the charger, or a read that failed, which GetBatteryLevel *)
(* returns as a full battery on the charger: the flags are cleared.        *)
TickCharging ==
  /\ \/ plugged /\ ReadGauge(TRUE) /\ lastLevel' = level
     \/ ReadGauge(FALSE) /\ lastLevel' = 100
  /\ said' = {} /\ Takes(said)
  /\ UNCHANGED <<level, plugged, alerts>>

(* The tick on battery, or (a bounded number of times) on the charger while*)
(* the current is small or cannot be read, which reads as not charging: a  *)
(* rise of more than five clears the flags, and the band of the level is   *)
(* announced unless its flag is set.                                       *)
TickOnBattery ==
  /\ plugged => cleared < MaxMoves
  /\ ReadGauge(TRUE)
  /\ LET rises == lastLevel >= 0 /\ level > lastLevel + 5
         kept == IF rises THEN {} ELSE said
     IN  /\ said' = kept \cup ({Band(level)} \cap Thresholds)
         /\ alerts' = IF Band(level) \in Thresholds \ kept
                        THEN [alerts EXCEPT ![Band(level)] = @ + 1] ELSE alerts
         /\ Takes(said \ kept)
  /\ lastLevel' = level
  /\ UNCHANGED <<level, plugged>>

BatteryNext == LevelMoves \/ ChargerMoves \/ StatusRead \/ TickCharging \/ TickOnBattery

BatterySpec == BatteryInit /\ [][BatteryNext]_batteryVars

-----------------------------------------------------------------------------
(* The gauge is opened in vain at most once for the start and once for     *)
(* each transfer that failed, however often the tick and the tool ask; and *)
(* a threshold is announced again only after a tick took its flag back,    *)
(* for a failed read, a rise of more than five or the charger.             *)
BatteryInv ==
  /\ opens + (IF tried THEN 0 ELSE 1) <= 1 + brokenReads
  /\ opened => tried
  /\ \A t \in Thresholds : alerts[t] <= cleared + (IF t \in said THEN 1 ELSE 0)
=============================================================================
