----------------------------- MODULE Household -----------------------------
(***************************************************************************)
(* The components around the voice loop and the player: the main loop and  *)
(* the mixer, the text turn, the tools and what they keep, the alarm, the  *)
(* battery, the sound card, the speech engine, the catalogue and its       *)
(* covers.  They share no variable; what one sees of another (the clock    *)
(* tick, the tool call, the answer of a server) is an input it takes at    *)
(* any time.  A behaviour therefore picks one component and runs it.       *)
(***************************************************************************)
EXTENDS MainLoop, TimerTool, AgentTurn, AlbumLibrary, ToolStores, AlarmClock, BatteryWatch,
        AudioDevices, SpeechEngine, ZingCatalog, ArtworkCache

VARIABLE part  (* the component that runs *)

vars == <<mainVars, timerVars, turnVars, libraryVars, storesVars, alarmVars, batteryVars,
          deviceVars, speechVars, catalogVars, artVars, part>>

(* The speech engine is two: FeedWake on the capture thread shares nothing *)
(* with what the speaker and the worker call.                              *)
Parts == {"main", "timer", "turn", "library", "stores", "alarm", "battery", "devices",
          "wake", "synth", "catalog", "art"}

Main(A) ==
  /\ part = "main" /\ A
  /\ UNCHANGED <<timerVars, turnVars, libraryVars, storesVars, alarmVars, batteryVars,
                 deviceVars, speechVars, catalogVars, artVars, part>>
Timer(A) ==
  /\ part = "timer" /\ A
  /\ UNCHANGED <<mainVars, turnVars, libraryVars, storesVars, alarmVars, batteryVars, deviceVars,
                 speechVars, catalogVars, artVars, part>>
Turn(A) ==
  /\ part = "turn" /\ A
  /\ UNCHANGED <<mainVars, timerVars, libraryVars, storesVars, alarmVars, batteryVars,
                 deviceVars, speechVars, catalogVars, artVars, part>>
Library(A) ==
  /\ part = "library" /\ A
  /\ UNCHANGED <<mainVars, timerVars, turnVars, storesVars, alarmVars, batteryVars, deviceVars,
                 speechVars, catalogVars, artVars, part>>
Stores(A) ==
  /\ part = "stores" /\ A
  /\ UNCHANGED <<mainVars, timerVars, turnVars, libraryVars, alarmVars, batteryVars, deviceVars,
                 speechVars, catalogVars, artVars, part>>
Alarm(A) ==
  /\ part = "alarm" /\ A
  /\ UNCHANGED <<mainVars, timerVars, turnVars, libraryVars, storesVars, batteryVars, deviceVars,
                 speechVars, catalogVars, artVars, part>>
Battery(A) ==
  /\ part = "battery" /\ A
  /\ UNCHANGED <<mainVars, timerVars, turnVars, libraryVars, storesVars, alarmVars, deviceVars,
                 speechVars, catalogVars, artVars, part>>
Devices(A) ==
  /\ part = "devices" /\ A
  /\ UNCHANGED <<mainVars, timerVars, turnVars, libraryVars, storesVars, alarmVars, batteryVars,
                 speechVars, catalogVars, artVars, part>>
Wake(A) ==
  /\ part = "wake" /\ A
  /\ UNCHANGED <<mainVars, timerVars, turnVars, libraryVars, storesVars, alarmVars, batteryVars,
                 deviceVars, catalogVars, artVars, part>>
Synth(A) ==
  /\ part = "synth" /\ A
  /\ UNCHANGED <<mainVars, timerVars, turnVars, libraryVars, storesVars, alarmVars, batteryVars,
                 deviceVars, catalogVars, artVars, part>>
Catalog(A) ==
  /\ part = "catalog" /\ A
  /\ UNCHANGED <<mainVars, timerVars, turnVars, libraryVars, storesVars, alarmVars, batteryVars,
                 deviceVars, speechVars, artVars, part>>
Art(A) ==
  /\ part = "art" /\ A
  /\ UNCHANGED <<mainVars, timerVars, turnVars, libraryVars, storesVars, alarmVars, batteryVars,
                 deviceVars, speechVars, catalogVars, part>>

-----------------------------------------------------------------------------
(* What a component finds when it starts (the battery, the charger, the    *)
(* sidecar, the old cover ...) is left open for the one that runs only.    *)
Default ==
  /\ part # "alarm" => ~charging
  /\ part # "battery" => ~plugged /\ level = CHOOSE l \in Levels : TRUE
  /\ part # "devices" => attached
  /\ part # "wake" => sidecar
  /\ part # "synth" => line = CHOOSE p \in Phrases : TRUE
  /\ part # "catalog" => ~cookies
  /\ part # "art" => legacy = "none"

Init ==
  /\ part \in Parts
  /\ MainInit /\ TimerInit /\ TurnInit /\ LibraryInit /\ StoresInit /\ AlarmInit /\ BatteryInit
  /\ DevicesInit /\ SpeechInit /\ CatalogInit /\ ArtInit
  /\ Default

Next ==
  \/ Main(MainNext)
  \/ Timer(TimerNext)
  \/ Turn(TurnNext)
  \/ Library(LibraryNext)
  \/ Stores(StoresNext)
  \/ Alarm(AlarmNext)
  \/ Battery(BatteryNext)
  \/ Devices(DevicesNext)
  \/ Wake(WakeNext)
  \/ Synth(SynthNext \/ Recognize)
  \/ Catalog(CatalogNext)
  \/ Art(ArtNext)

Spec == Init /\ [][Next]_vars

(* The fairness of FairMainSpec, FairTimerSpec, FairTurnSpec and, for the  *)
(* capture thread, FairDevicesSpec, asked of the component that runs.      *)
FairSpec ==
  /\ Spec
  /\ WF_mainVars(part = "main" /\ LoopStep)
  /\ WF_mainVars(part = "main" /\ ApplierStep)
  /\ WF_mainVars(part = "main" /\ SignalStop)
  /\ \A c \in Callers : /\ WF_mainVars(part = "main" /\ PushTask(c))
                        /\ WF_mainVars(part = "main" /\ SignalTask(c))
  /\ \A a \in Askers : WF_timerVars(part = "timer" /\ SpawnSleeper(a))
  /\ \A g \in Generations : WF_timerVars(part = "timer" /\ SleeperStep(g))
  /\ WF_turnVars(part = "turn" /\ WorkerTurn)
  /\ WF_turnVars(part = "turn" /\ Callback)
  /\ WF_deviceVars(part = "devices" /\ MicStep)

-----------------------------------------------------------------------------
(* The types and the invariants the components rest on.                    *)
HouseholdInv ==
  /\ MainTypeOK /\ MainInv
  /\ TimerTypeOK /\ TimerInv
  /\ TurnTypeOK /\ FailureLeavesNoTrace
  /\ LibraryTypeOK /\ LibraryInv
  /\ StoresTypeOK /\ StoresInv /\ RemindersAreKept
  /\ AlarmTypeOK /\ AlarmInv /\ SpokenOnce
  /\ BatteryTypeOK /\ BatteryInv
  /\ DevicesTypeOK /\ DevicesInv
  /\ SpeechTypeOK /\ SpeechInv
  /\ CatalogTypeOK /\ CatalogInv
  /\ ArtTypeOK /\ ArtInv
=============================================================================
