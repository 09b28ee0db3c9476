# Verification of Jetsona

TLA+ models of the Jetsona firmware (`src/src/`, C++), the TLC runs that check
them on small instances and TLAPS proofs about them. Paths are relative to the
repository's parent: `src/src/media/player_controller.cc` is the file of that
name in the checkout.

## 1. Inventory

| Component | State it keeps | Operations | Talks to | Modelled in |
|---|---|---|---|---|
| `media/player_controller` | snapshot (queue, index, status, volume), `pause_requested_`, `generation_`, command queue, mpv child | `PlayQueue Toggle Pause Resume Previous Next SeekTo Stop SetVolume SetMuted`, worker loop | mpv over a Unix socket and signals; called by the music tools and the voice loop | `PlayerController`, `PlaybackFocus` |
| `audio/voice_loop` | capture state, latches, awake window, `speaking_`, speech queue, ducked volume | `OnMicChunk`, `RecognizeAndSend`, `Speak`, `NotifyToolStarted`, speaker thread, `Start`/`Stop` | mic capture, engine, realtime client, conversation, player | `VoiceLoop` |
| `agent/conversation`, `agent/llm_client` | history, `busy_` | `Send` (worker thread, tool rounds), requests | chat endpoint, tools, voice loop callback | `AgentTurn`; seen from outside in `VoiceLoop` |
| `audio/realtime_client` | socket, `running_`, echo window, transcripts, daily ledger on disk | `Start`, `Stop`, `SendAudio`, reader thread, detached tool calls | live sidecar, audio output, conversation tools | `RealtimeClient`, `RealtimeLedger` |
| `platform/task_pool` | two lanes of jobs, running prefetch jobs | `Post`, workers | nobody yet: `Instance()` has no caller in this commit | `TaskPool` |
| `platform/perf_governor` | token count, deadline, captured baselines, baseline file | `Init`, `Acquire`, `Release`, watchdog | sysfs, thermal zones; `main` calls `Init`, nobody calls `Acquire` yet | `PerfGovernor` |
| `app/application`, `main` | event group, task queue, stop flag | `Schedule`, `Run`, `RequestStop`, one-second timer | everything | `MainLoop` |
| `app/audio_codec`, `agent/device_bridge` | output state and its revision; display settings | `SetVolume`, detached mixer threads | shell command, settings | `MainLoop` |
| alarm and morning notes (`app/application`, `agent/tools`, `agent/system_tools`) | alarm settings with the last date, `TaskStore` | `CheckAlarm`, `FireAlarm`, alarm tool, `AddNote` | settings, voice loop | `AlarmClock` |
| timer (`agent/assistant_tools`) | one timer with a generation, a sleeping thread per set | set, cancel | voice loop | `TimerTool` |
| reminders, calendar, memory (`agent/system_tools`, `agent/assistant_tools`, `app/settings`) | settings map and file, memory file | read, change and write | disk | `ToolStores` |
| `media/user_library` | albums, next number, file | `CreateAlbum`, `AddTrack`, `SaveLocked` | disk; called by the album tool | `AlbumLibrary`, `DurableStore` |
| `net/zing_music_client` | none between calls; covers on disk | search, stream, artwork | HTTP, music tool, player | `ZingCatalog`, `ArtworkCache` |
| `audio/mic_capture`, `audio/audio_output` | three ALSA handles | read loop with back-off, `Play`, `BeginStream` ... `AbortStream` | sound card, voice loop, realtime client | `AudioDevices` |
| `audio/sherpa_engine` | wake-word socket and buffer, phrase cache | `FeedWake`, `Recognize`, `Synthesize` | sidecar, web service, child process | `SpeechEngine` |
| `power/ina219`, `app/board`, battery alerts | device handle, alert flags | `Read`, `GetBatteryLevel`, `TickClock` | I2C, voice loop | `BatteryWatch` |
| `platform/fan_control`, `platform/shell_command`, `scripts/*` | files and processes of their own | | sockets, MQTT, HTTP | not modelled |

### What is hard here

* Everything runs on its own thread: the microphone, one thread per utterance,
  one speaker, one player worker, a session reader, a thread per tool call, one
  per timer and per mixer command, a main loop. They share flags (`speaking_`,
  `running_`, `busy_`) read without a lock and act on them later.
* Slow work (resolving a stream, recognition, an LLM turn, reading notes out) is
  done between two critical sections; what it was for may be gone when it
  ends. The player answers that with generations, the voice loop with `kBusy`,
  the timer with generations again.
* A second process (mpv, the wake-word sidecar, the synthesis child) is
  steered over a socket or files and may be late or gone.
* Persistence comes in two kinds: files written in place (settings, memory,
  notes, ledger) and files renamed into place (albums, covers).
* The device is used: its sound card is unplugged, its battery sags, its clock
  passes midnight in the middle of things.

PROJECT.json lists each hazard at its line with the properties that cover it.

### What makes each component correct

* **PlayerController**: at rest the process belongs to the newest request and
  plays the track shown, with the last volume; a stopped request never comes
  back; every load is answered; the destructor leaves no process.
* **VoiceLoop**: one turn at a time, nothing but addressed speech becomes a
  command, the device does not take its own voice for one, the loop never gets
  stuck in `kBusy` or with `speaking_` up, ducked music is restored.
* **RealtimeClient**: the model never hears its own reply, a closed session
  leaves nothing behind, a silent one closes. Its ledger charges each day for
  what was recorded on it and survives restarts.
* **PerfGovernor**: raised clocks come down, whatever crashes and whoever
  forgets to release; a baseline is never a raised value.
* **TaskPool**: at most half the workers run prefetch jobs, no wakeup is lost,
  every job is started.
* **Main loop**: no scheduled task waits for a bit that nobody sets; a stop
  wakes a sleeping loop; settings and sound card end with the same volume.
* **Conversation**: every request the endpoint gets is one it accepts, whatever
  failed before; every accepted turn is answered.
* **Timer, alarm**: what was cancelled is not spoken; an alarm rings once on
  its day, unless it is lost in a crash and set anew, and is not passed over.
* **Stores**: a confirmed fact survives other writers; an album survives crashes
  and every failure that the code sees.
* **Devices, engine, catalogue**: capture comes back after the card did; a score
  belongs to its frame; the queue is the playable part of the answer in its
  order; a cover is never torn.

## 2. Plan

All of it is written: first `PlayerController` with its promise `PlaybackFocus`,
`VoiceLoop`, `RealtimeClient`, `RealtimeLedger`, `PerfGovernor`, `TaskPool` and
their composition `Services`; then the components around them, one module each,
and their composition `Household`.

| Composition | Extends | Why together |
|---|---|---|
| `Services` | `PerfGovernor`, `TaskPool`, `RealtimeLedger`, `RealtimeClient` | services under the voice loop that share no variable |
| `Household` | `MainLoop`, `TimerTool`, `AgentTurn`, `AlbumLibrary`, `ToolStores`, `AlarmClock`, `BatteryWatch`, `AudioDevices`, `SpeechEngine`, `ZingCatalog`, `ArtworkCache` | components around the voice loop and the player; what one sees of another is an input it takes at any time |

What is left: the ledger as a refinement of a daily counter, and the clock boost as
a refinement of a scoped boost.

## 3. Modules

### PlayerController, PlaybackFocus

`PlayerController` is `media/player_controller.cc`. A step is one critical
section of `state_mutex_` or `command_mutex_`, or one read of an atomic between
two of them.

* Callers (tool threads, the microphone thread, the main thread) make public
  calls. `PlayQueue(t, q, start)` and its siblings are the section under
  `state_mutex_`, which leaves the command in `hand[t]`; `Enqueue(t)` is
  `Impl::Enqueue`, with its coalescing. `Toggle` and `Previous` take a snapshot
  first: `intent[t]` holds what they decided. `Enqueue` may also drop the
  command once `shutting_down_` is set, as the unlocked test does.
* `commands` is a set of records with arrival tickets: coalescing removes from
  the middle, the worker takes the least ticket.
* The worker's program counter has one value per place between two sections of
  `WorkerLoop`, `HandleCommand`, `HandleLoad`, `ResolveAndLaunch`, `LaunchChild`,
  `ApplyOutput` and `HandleChildExit`; `Publish` is `SetWorkerStatus`/`SetError`
  with its generation test. (`SetError` does not test `has_current`, as `Publish` does
  for both: while the worker's generation is current there is a track.)
* `Shutdown` is the destructor up to its join: the flag, the generation and the
  exchanged queue are one step.
* `child` is the mpv process: the request and track it was launched for, the
  volume it has, paused over IPC, stopped by a signal, IPC socket up or not.
  `ChildReady` and `ChildExits` are mpv's own steps.

Positions, titles, error texts and the revision counter are left out; where the
code tests a position or an exit status either branch may be taken.

`PlaybackFocus` is the promise: requests are numbered, at most one has a
process, and the process only moves forward to a request that was the newest
when it was taken up. `FocusSpec` instantiates it with `latest <- generation`,
`owner <- active.gen`, `sounding <- child.alive`.

### VoiceLoop

`VoiceLoop` is `audio/voice_loop.cc` with the part of `Conversation` and
`RealtimeClient` it depends on.

* Capture thread: `mic` says where `OnMicChunk` is. The session branch is
  `SendToSession`, `CheckIdleTime`, `CloseBegins`, `CloseEnds`; the test of
  `speaking_` is `TakeChunk`; the rest runs under `mtx_` and is one action per
  outcome (`WakeChunk`, `SpeechChunk`, `IgnoredChunk`, `CollectChunk`, `Endpoint`).
* A detached turn thread is a record `turn[t]`. Its steps follow
  `RecognizeAndSend` and the reply callback: recognise, send, raise
  `speaking_`, queue the answer, go idle.
* The speaker thread pops a line, waits for a gap in the session, raises
  `speaking_`, synthesises, plays and lowers it.
* `SpeakNotice` is a line from outside (alarm, timer, battery, notes).
* `Stop` is the sequence of joins on the main thread.

Audio is what a chunk is taken for; the number of chunks of an utterance is
scaled to `MaxCapture`; `speech_` is the number of its lines.

### RealtimeClient

`RealtimeClient` is `audio/realtime_client.cc` as `OnMicChunk` uses it. Three
kinds of threads interleave:

* The capture thread: `Start`, then per chunk `TakeChunk`, `CheckActive`,
  `CheckTail`, `SendAudio`, `CheckIdle` (the flag, the tail and the socket are
  read in separate steps), then `Stop` step by step (`StopBegins`,
  `JoinReader`, `CloseSocket`, `StopDrains`, `StopTails`, `StopLowers`).
* The reader thread: one action per kind of frame; a reply is `ReceiveAudio`,
  `RaiseActive`, `WriteStream`, and its end `ReaderDrains`, `ReaderTails`,
  `ReaderLowers`, which in the same step sets `turn_muted_` (a barge-in) or clears it
  (the end of a turn).
* Detached tool threads, which remember the session they began in.

`PeerCloses` is the sidecar vanishing. What the room does is `RoomQuiets`; time
is `GoesIdle` and `TailPasses`. Timing assumptions, from the constants of
`realtime_client.h` and the latency of the loudspeaker: a tail does not end
while the reply still sounds or while a chunk in which it sounded is at hand;
the idle limit is longer than what the loudspeaker has queued; a wake word is
heard only in a quiet room. A `Start` that fails changes nothing and is no step.

### RealtimeLedger

The file of daily seconds in `audio/realtime_client.cc`: `StartSession` compares
with the budget, `CloseSession` begins `RecordSeconds`, whose lines are
`LookUpDate`, `Sum`, `Truncate` and `WriteEntry`, because the date is looked up
more than once and the file is written in place. `Midnight` and `Restart` may
come between any two; a `Restart` at `Truncate` has the effect of an open that
failed. `spent` and `recorded` are history: seconds a session
was open today, seconds of the sessions recorded today.

### PerfGovernor

`platform/perf_governor.cc`. `mtx` is held from `Acquire`, `Release` or a tick of
the watchdog until `pc` is `"free"` again, with one action per sysfs write and
per file operation in between, so that a crash can fall between any two:
`OpenBaseline`, `WriteBaseline`, `PersistFails`, `RaiseCore`, `RaiseEnds` are
`Apply`, `RestoreCore`, `RestoreEnds` are `Restore`, `Launch`, `ReplayCore`,
`ReplayEnds` are `Init`. `Crash` keeps the nodes and the files; `PowerCut` resets
the nodes, empties `/tmp` and may lose the other file, which is not synced.
A core's node accepts writes or never does; `fclose` is not looked at, so one that
refuses the value at close counts as raised, and a boost may hold that raised nothing.

### TaskPool

`platform/task_pool.cc`. `PostInteractive` and `PostPrefetch` push under the lock
and owe a notification, `Notify` pays it later, to any worker that waits or
to nobody. A worker checks, takes, waits or ends its job. `WakesSpuriously` is
the condition variable's right.

### Services

`Services` extends `PerfGovernor`, `TaskPool`, `RealtimeLedger` and
`RealtimeClient`. They share no variable: `part` picks the one a behaviour runs,
so the states of the four add up instead of multiplying.

### MainLoop

`app/application.cc` and the path of a volume from a tool to the sound card. A
caller reads the settings (`VolumeCall`), pushes its task (`PushTask`) and sets the
bit (`SignalTask`) in separate steps, as `Schedule` does. The main thread is
`LoopCheck`, `LoopWake` (takes all bits at once, as `EventGroup::wait` does),
`LoopTake` (tests `running_` again and swaps the queue), the handlers and
`BatchDone`. `RunVolume` is `SetOutputState`; `SaveVolume` and `SaveMuted` are the two
settings written after it. `appliers` are the detached threads of
`QueueOutputState`: `ApplierWake` compares revisions after 25 ms, `ApplierDone` is the
end of the shell command. `RequestStop` and `SignalStop` run on the signal thread.
`NoticeCall` stands for the other requests of `DeviceBridge`, whose handlers log or
speak. The bodies of the clock tick are in `AlarmClock` and `BatteryWatch`.

### TimerTool

The timer of `agent/assistant_tools.cc`: one record under a mutex, and a detached
thread per accepted `set`, which is started after the mutex was released
(`SpawnSleeper`) and looks after its sleep whether the generation is still its own
(`WakeSleeper`). `Asked` holds lengths, of which `Accepted` refuses nothing and more
than twelve hours. A sleep may end at any time: the lengths are not compared, and the
overflow of minutes times sixty is left out. Arguments that are no integers make the
tool throw, which is `ToolThrows` of `AgentTurn`.

### AgentTurn

One text turn of `agent/conversation.cc` with the request of
`agent/llm_client.cc`. The worker has a copy `hist` of the history; `RequestAnswers`,
`RequestAsks` and `RequestFails` are what a request may bring, `RunTool` is one tool
with its result, `Merge` swaps the copy in when nothing failed, `ReleaseBusy`
and `Callback` are separate, as in the code. A message is its role and a number:
an ask has its number of calls, a result the index of the call it answers.
`ToolThrows` ends the process, for nothing on the worker catches: neither what a tool
throws nor what `dump()` does when a tool's result, cut after so many bytes, is no UTF-8.

### AlbumLibrary, DurableStore

`media/user_library.cc` under the album tool. The tool makes three locked
operations in a row (`SaveCall`, `CreateAlbum`, `AddTrack`); a save is `OpenTemp`,
`WriteTemp`, `RenameTemp`, each of which may be the last before a crash or fail
(`SaveFails`). The stream is tested before its destructor flushes and closes it, so
a failure there goes unseen (`CloseFails`) and `RenameTemp` puts a file that is no
JSON over the store: what is loaded next is `EmptyStore`. `DurableStore` is the
promise: atomic operations on the albums, a commit, a recovery that takes the store
back to the last commit, and a write that is lost without notice (`LoseWrite`), after
which the store is as before or empty (`EndLostWrite`). `AlbumsAreDurable` instantiates
it with `live <- albums`, `next <- nextId`, `durable <- disk`, `write <- LastWrite`, which
is `"lost"` only between the unseen failure and its rename.

### ToolStores

The settings of `app/settings.cc` (a map, written in full and in place at every
set) with reminders and calendar as values in it, and the memory file of
`agent/assistant_tools.cc`. A tool reads a value (`ReadReminders`, `ReadDay`) and
writes it later (`SetReminders`, `SetDay`, `SetIndex`); the memory tool does the same
under a mutex (`LoadMemory`, `TruncateMemory`, `WriteMemory`). `Reboot` reloads:
`Reloaded` cuts the value of a day at its first line break, as `load()` does, and a
torn memory reads as empty.

### AlarmClock

`CheckAlarm`, `FireAlarm` and the notes of `agent/tools.cc`. The tick is `TickClock`,
`MarkFired` (the date is persisted before anything sounds), `RingAlarm`,
`TakeNotes` (a copy), `SpeakNotes`, `MarkNotes`; tools change the alarm in two writes
(`SetAlarmTime`, `EnableAlarm`) and add notes in between. `TimePasses` needs that
the loop came round in the minute, which a one-second tick does. A crash may hit
the notes' file, which then reads as empty (`dropped`), and any save of the settings,
which are written in place with their keys in order (`alarm.enabled`,
`alarm.last_fired_date`, `alarm.time`): the alarm comes back `Torn`, nothing of it,
its switch alone, or all but its time, which is always lost. `again` counts for each
day how often an alarm that had rung and was lost with its date was set anew;
`skipped` are the days whose alarm a crash ended between the mark and the ringtone.

### BatteryWatch

`Ina219::Read` with its one retry per failed transfer (`ReadGauge`), the fall-back of
`Board::GetBatteryLevel` (a failed read is a full battery on the charger) and the
flags of the spoken alerts in `TickClock`: `TickCharging`, `TickOnBattery`, which may also
happen on the charger, for a small or unreadable current reads as not charging.
`StatusRead` is the device status tool.

### AudioDevices

The capture handle with its thread and back-off (`MicChecks`, `MicReopens`,
`MicReads`), the handle of a spoken line (`Play`, `PlayChunk`, `PlayDrains`) and the
stream of a realtime reply (`BeginStream`, `WriteStream`, `WritePiece`, `CloseStream`).
`Unplug` kills all open handles; nothing revives one.

### SpeechEngine

`audio/sherpa_engine.cc`: `FeedWake` over the socket to the wake-word sidecar, with
`LoseConnection` for a score that is late, missing or no number; `Synthesize` with its
two temporary files and a child; `Recognize`. Audio is counted in units of 256
samples, so a chunk is two and a frame five.

### ZingCatalog, ArtworkCache

`net/zing_music_client.cc` as the music tool and the player use it. `RequestApi` is
`Sign`, `AttemptFails`, `Retry`, with the cookies only in the first attempt;
a URL is its form and the kind of its host. `Hits` is the loop of `SearchSongs`,
`Playable` the choice of the music tool. `ArtworkCache` is `DownloadArtwork` for one
address: look, take over the file of an older version, download to a name of
one's own, rename. Temporary files a dead process leaves are never read again,
so `Kill` drops them.

### Household

`Household` extends the eleven modules above. They share no variable: `part` picks
the one a behaviour runs, the engine being two (`wake` and `synth` run on different
threads and share nothing). `Default` fixes what a component that does not run
would leave open. This is not a restriction of the components: whatever one takes
from another (a tick, a tool call, an answer, a crash) it may take at any time.

## 4. Runs

| Run | Shows | Bounds |
|---|---|---|
| `player_safety` | the inductive invariant (with types), `HeardIsShown`, `OutputSettles`, `NoResurrection`, refinement of `PlaybackFocus` | 2 callers, playlists of 1 and 2 tracks, 2 volumes, 3 calls |
| `player_live` | every load is answered, streams run out, shutdown ends | same, 2 calls |
| `player_pause` | pause flag and process agree at rest | 1 caller, 4 calls, socket up, no natural end |
| `voice` | the inductive invariant, one turn, only addressed speech, session and turns exclude each other, volume restored, own voice not captured; turns end, lines are spoken | 2 turn threads, 3 chunks, 2 lines |
| `services` | clocks: a crash is repairable, clocks come down; pool: wakeups, every job starts; ledger: no day overcharged; session: no echo is sent, a silent one closes; `ServicesInv`: types and inductive invariants of the four | 2 cores, 2 boosts, 2 crashes, one failing candidate; 4 workers, 4 jobs; 3 days, 2 restarts, budget 4 s, sessions up to 3 s; 2 sessions, 2 tool threads, 3 frames |
| `household` | `HouseholdInv`: types and invariants of the eleven; `VolumeSettles`, `SilencedIsSilent`, `RequestsWellFormed`, `FactsAreKept`, `RingsOncePerDay`, `QueueIsPlayable`, `CoversAreWhole`, `AlarmIsNotMissed`, `ScoresArePaired`; refinement of `DurableStore`; `LoopAnswers`, `TimersRing`, `TurnsAreAnswered`, `DevicesRecover` | see below |
| `player_playing_bug`, `voice_stop_bug`, `ledger_crash_bug`, `mixer_stale_bug`, `speaker_unplugged_bug`, `note_lost_bug` | *violated*, see findings | one or two of everything |

Why the bounds are enough. Two callers are what it takes for commands to be
enqueued in another order than their requests; three calls are one in flight, one
that supersedes it and one that races both; a playlist of two tracks has a next
track and an end. In the voice loop two turn threads are one more than may
exist, two lines are one playing and one waiting. Two sessions let a
thread of the first meet the second; three frames are a reply, its end or an
interruption, and a tool call. Two cores are a loop cut in the middle; two crashes
interrupt the repair of the first. Four workers are the least with a cap above
one. Three days are a session over midnight with a day before and after.

The bounds of `household`:

| Part | Bound | What it makes happen |
|---|---|---|
| main | 2 callers, 2 calls; a volume above the range and a mute that keeps the level | a task pushed while the bit is cleared; a mixer thread overtaken |
| timer | 2 threads, 3 changes; lengths of nothing, seconds, minutes, too long | set, cancel, set again before the first thread wakes |
| turn | 2 turns, 3 rounds (6 in the code), 2 calls per answer | a failure after tools ran, then a turn on what it left; the rounds used up |
| library | 2 threads, 2 names, 2 tracks, 2 albums, 2 crashes or failures | two calls of one name, a crash in each step of a save, an unseen failure and then a crash |
| stores | 2 threads, 2 things to keep, 1 reboot | two edits that overlap, a crash between truncation and write |
| alarm | 2 minutes a day, 2 days, 2 notes, 2 changes, 1 crash | an alarm before and after its minute, set anew on the day it rang, also after a crash that lost it, a crash at each step |
| battery | levels in each band plus a rise of more than five (8, 14, 25, 45), 3 moves, 3 misread ticks per charge | sag and recovery over a threshold, failed transfers, the charger in and out |
| devices | 2 unplugs, 1 line, 2 pieces | the card gone again during a back-off |
| wake, synth | 3 frames, threshold 2, 3 lines, cache of 1 | a late score, a full cache, a repeated line |
| catalog | 2 ids, 3 entries, 2 hits, 2 queued | a track listed twice with a premium one in between; more hits than places |
| art | 2 threads, 3 calls, 1 death | a cover fetched while another thread renames it |

The theorems remove these bounds for the properties they state.

`PauseAgrees` is checked where the code can keep it: with several callers the
commands of a pause and a resume may be enqueued in the other order than their
sections ran, and before the socket is up pause and resume mix IPC and signals
(that is the finding `player_playing_bug`); a natural end clears the pause
request by design (`AdvanceAfterNaturalEnd`).

All configurations say `CHECK_DEADLOCK FALSE`: calls, sessions, boosts, jobs and
faults are bounded, and the systems may stop for good (after the destructor,
`Stop`, or a tool that throws).

## 5. Fairness

`PlayerController`: the worker thread is weakly fair (it polls every 100 ms at
the latest and its fetches have timeouts), a call that began returns, and a
stream that is heard ends. Nothing is assumed about callers starting calls or
about mpv's socket.

`VoiceLoop`: chunks keep arriving, which the sound card and not the code sees to, and
the capture thread handles them; a turn thread makes progress (recogniser and
LLM client have timeouts); so does the speaker thread, whose play is assumed to
end: `speaker_unplugged_bug` shows the card on which it does not, and there
`LinesAreSpoken` fails with it. A `Stop` that has begun goes on. Nothing is
assumed about wake words, notices, the session's talk or the awake window.

`RealtimeClient`: chunks keep arriving (an assumption about the sound card), the reader makes its own steps (not the
receipt of frames), the idle clock runs, sounds die away. Nothing is assumed
about the sidecar, the tail or the tools.

`PerfGovernor`: the service is restarted after a crash (`Restart=on-failure` in
`scripts/jetson-fw.service`) or a boot, a critical section that began ends, the
watchdog ticks. Nobody need release a token; that the deadline always passes is a
premise of `ClocksRelax`, since new boosts extend it. `TaskPool`: every worker and
every owed notification makes progress, so jobs are finite, as its header
demands; spurious wakeups are not assumed.

`Household` asks fairness of the part that runs, as the `Fair...Spec` of each module
does: the main loop, mixer threads and a call that pushed its task go on, and so
does a stop between its flag and its bit (the clock timer is not assumed, so
`LoopAnswers` does not rest on a tick that happens to wake the loop); a timer's
thread is started and wakes; the worker of a turn and its callback go on (a
request has a time limit); the capture thread runs. Nobody is obliged to call,
cancel, plug or unplug: `DevicesRecover` promises nothing while the card is out.

## 6. Proofs

Every theorem holds for all values of the constants under the named assumption of
its module (`PlayerAssumption`, `VoiceAssumption`, ...); where a property needs more, the
theorem has it as a hypothesis (`PersistWorks`, `Undisturbed`). The assumptions ask that bounds are
numbers and in places a little more: a cap of the pool that leaves half the workers
free, `Nobody` not a writer, volume arguments that are numbers or left out, the short
phrases among the phrases, a wake threshold of 1 to 5. TLC evaluates each on the run
that extends its module.

`PlayerControllerProofs` proves `[]TypeOK`, `[]IndInv`, `[]HeardIsShown`,
`[]OutputSettles`, `[]ShutdownSilences`, `NoResurrection`, `FocusSpec` and, where it
holds, `[]PauseAgrees`. `HeardIsShown` is not
inductive: it speaks of a player at rest. `PlayerInv` says why rest is good. Its parts:
`IdleIsEmpty`; `LaunchesInSilence` (no process while one is prepared);
`GenerationsPast` (no generation from the future); `WorksForActive` (the worker's
locals are the active track's after adoption); `NewestIsCurrent` (whatever
carries the newest generation carries the current track); `StaleWorkEnds` (as
long as the process or the worker is about an old request, a command that ends
it is in the queue or in a caller's hand). At rest nothing is pending, so nothing
is stale, so the process carries the newest generation and the current track.

`OutputSettles` needs `OutputInv`: a volume that the newest process lacks, or that the
worker lacks in the copy it is about to fork with or to send, is in a pending
`ApplyOutput`, or the worker is between its place in `ApplyOutput` and the write. A process
that cannot be reached is relaunched only when the active track has a stream, so
`StreamIsKnown` says that it has one whenever there is a process; and an output
change coalesces with nothing but another one. Both invariants are in `IndInv`,
which `player_safety` checks.

`PauseAgrees` is proved of `Undisturbed` instances, those of `player_pause` with any number
of calls, tracks and lists: one caller at a time, a socket that is up at once, no
natural end. `PauseFollows` has four cases. The caller holds a load or a stop; or it
holds a pause or resume, which replaces every pending one; or a load or stop is
queued and the pauses queued after it ask for what is requested; or all queued pauses do,
and without any the process, and the worker's copy from the moment the stream is known, is
as requested. That pending pauses before the last load do no harm is what the arrival
tickets are for. `SocketIsUp` says that only a process that has exited is signalled.

`VoiceLoopProofs` proves `[]IndInv`, `[]SendAccepted`, `[]BusyIsOneTurn`,
`[]OnlyAddressedSpeech`, `[]SessionExcludesTurns`, `[]MusicRestored` and
`OwnVoiceNotTaken`; `VoiceInv` ties the capture thread's place to
the session, the agent's busy flag to the turn it works for, and the ducked
volume to the session.

`RealtimeClientProofs` proves `[]IndInv`, `[]NeverHearsItself` and
`[]ClosedIsClean`. `NeverHearsItself` speaks of one place of the capture
thread; `EchoIsCovered` says that whatever sounds, in the room or in the chunk at
hand, is covered by the flag or the tail, and by the tail alone where a thread is
about to lower the flag.

`PerfGovernorProofs` proves `[]CrashIsRepairable`, `[]RestIsClean` and
`[]BoostIsHeld` if one candidate file can be written (`PersistWorks`): with no
file at all a crash loses the baselines. The strengthening:
`BaselinesAreReal` (what is captured or on disk is never a raised value),
`BoostIsCovered` (the file of a boost is complete before the first core is
raised) and `LoopsDoTheirWork`.

`ServicesProofs` proves the pool, the ledger and the composition `Services`. The pool,
`[]PrefetchIsCapped` and `[]NoWakeupLost`, is a counting argument: while a worker waits,
the jobs that may be started are at most the workers about to look and the
notifications to come; each step lowers both sides together, and a prefetch job that
ends frees a slot and wakes a worker. The ledger is `[]NeverOvercharged` for any
restarts and `[]DailyOverrun` without any. `ComponentsOfServices`: a step of `Services` is
one of one component and leaves the others alone, so `ServicesInvariant`
(`[]ServicesInv`, if `PersistWorks`) follows from the four.

`DeviceProofs` has the small devices. `SilencedIsSilent` rests on `TimerInv`: what is
sleeping, ringing, spoken or silenced has a generation of the past, and the
current one is in none of the last three. `RingsOncePerDay` and `AlarmIsNotMissed`
rest on `AlarmInv`: a marked day does not ring again; a day that rang and whose mark
is gone has no time either, for a torn file loses the time whenever it loses the date,
so the day can ring again only after `SetAlarmTime`, which counts `again`; a marked day
has rung unless a crash skipped it; and a tick in a minute that stood still has marked
the day. `SpokenOnce` needs a note's count to be bounded by crashes as long as the note is
unmarked. `CoversAreWhole` is inductive with `ArtInv`: who publishes has a whole
file of its own. `ScoresArePaired` needs that the socket holds at most one
answer and only to the frame just sent, which `SpeechInv` says of every state;
its proof is split into the wake part and the synthesis part, which do not share
a variable. `BatteryInv` is inductive once broken reads are bounded by the moves
that allow them, `DevicesInv` with what a stopping capture and an open stream hold.

`StoresProofs` has what is found and what is kept. `QueueIsPlayable`: `Hits` and
`Playable` take the places they want out of a sequence in ascending order, so the
queue's places in the answer ascend, and a place that is passed over is a
repetition, has no id, is premium or comes after the last one taken (`QueueIsOfAnswer`
carries that over the step in between). `FactsAreKept`: whoever edits the memory holds its mutex and has
every promised fact in the list it is about to write (`FactsIndInv`).
`RemindersAreKept`, with `StoresInv`: as long as no two edits overlapped, at most one tool
is changing the settings, and the list it is about to write has every confirmed
reminder and its own (`RemindersInv`, over the shapes of lists and file in `KeptIndInv`). `AlbumsAreDurable`: each
step maps to a step of `DurableStore` or to none (`RenameTemp` is `Commit` or, after
`CloseFails`, which is `LoseWrite`, `EndLostWrite`; `SaveFails` is `EndLostWrite` or a stutter,
`LibraryCrash` is `Recover`, `CreateAlbum` is `NewAlbum`, `AddTrack` is `NewTrack` or a
stutter); `LibraryIndInv` keeps the numbers of memory and file below the next one
and the album a call works on in existence.

`HouseholdProofs` has the main loop, the text turn and the composition. `VolumeSettles`:
`SettingsFollow` says how far the two settings
have followed the codec at each place of the handler; `NoTaskStranded` and
`NewestIsKept` are inductive with it. `RequestsWellFormed`: `Answering` describes the copy
of the history while tools run, an ask followed by the results so far; when
the last one is appended the copy is well formed again, and a failure leaves the old
history with the user's message. `ComponentsOfHousehold`: a step of `Household` is a step of one
component and leaves the others alone, so a behaviour of it is one of each of the
eleven; `HouseholdInvariant` (`[]HouseholdInv`) and `HouseholdIsSafe` collect what follows.

Only model-checked: the liveness properties, which are out of the prover's reach:
`Settles`, `StreamsRunOut`, `ShutdownEnds`, `BusyEnds`, `LinesAreSpoken`, `ClocksRelax`,
`LanesDrain`, `SessionCloses`, `LoopAnswers`, `TimersRing`, `TurnsAreAnswered` and
`DevicesRecover`. Every other property of a passing run has a theorem.

## 7. Findings

* `player_playing_bug`: `ResumeChild` sends only SIGCONT when the IPC socket is
  not up; an mpv launched paused stays silent under a `Playing` status.
* `voice_stop_bug`: the engine is released while a detached turn thread may
  still recognise with it.
* `ledger_crash_bug`: the ledger is truncated before it is written, and a crash in
  between resets the day.
* `mixer_stale_bug`: a mixer thread compares revisions before its shell command and
  not after it; of two that run at the same time the older may end last.
* `speaker_unplugged_bug`: `Play` does not look at what `snd_pcm_recover` returns; when
  the card is unplugged the speaker thread writes to the dead handle for good.
* `note_lost_bug`: a note added after `FireAlarm` took its copy of the notes and before
  it marks them is marked as spoken and never read.

Seen while modelling, and stated as an exception of the property concerned:

* Reminders and the days of the calendar are changed without a lock: of two
  edits that overlap one is lost (`RemindersAreKept` excepts that, and a crash in
  the write of the settings file).
* Only the first event of a day survives a restart, for a value is read back
  up to its first line break.
* A tool that throws, or a request that cannot be serialised, ends the process
  (`TurnsAreAnswered` excepts that).
* An alarm set for a later minute of a day on which it already rang does not
  ring until the next day: the mark is the date alone.
* A crash in a save of the settings, of whatever setting, loses the alarm: it is off or
  without a time until it is set again, and then rings a second time on a day on
  which it had rung (`RingsOncePerDay` counts that with `again`).
* A crash between the mark of the day and the ringtone skips the alarm of that day
  (`AlarmIsNotMissed` excepts it).
* A write of the albums that fails when the file is closed goes unseen, and the store is
  replaced by an empty one (`AlbumsAreDurable` allows that and nothing else).
* During a session the microphone is sent on while a local line plays, and a line
  may begin to play over the model's voice when the wait for a gap ends.
* A boost goes on when no baseline file can be written.
* A tool thread of an ended session writes its result to whatever session is
  open by then.

## 8. Not modelled

* `platform/fan_control`, `platform/shell_command`: two settings written at the start,
  and a fork with a wait; the control loop is a shell script.
* The tools that start one shell command each (camera, Wi-Fi, power, air
  conditioner), listings, the task list, and the formatting of answers.
* `net/zing_discover_cache`, the album pages of the music client, `net/weather_client`,
  `net/ethernet_status`: requests without a state that another part depends on.
* The voice activity detector and the models behind it: numeric code in a library.
* `RemoveTrack` and `RemoveAlbum` of the library, which nobody calls.
* Rendering, HTTP and JSON formatting, the voltage curve of the battery, the
  power relay and the display stubs of `app/board`.
* `scripts/*`: processes of their own; what they send is taken as nondeterministic.
  Build, install and asset scripts.

Assumptions of the models that the code does not enforce: writes of the memory file
succeed unless the process dies; the settings file can be opened whenever it is saved
(that it is cut short is what `Torn` models, and `Reboot` for a crash only); `fclose`
of a cover does not fail on a full disk, and a cover of the older version, of which
the code checks the first bytes only, is whole (JPEG and PNG are one target); a rename
of the albums is durable, for no power cut is modelled there and nothing is synced;
the synthesis child ends in the end (`waitpid` has no time limit); memory is
sequentially consistent, so a data race shows as an order of reads and writes and not
as torn values.
