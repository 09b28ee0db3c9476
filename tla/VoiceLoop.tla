----------------------------- MODULE VoiceLoop ------------------------------
(***************************************************************************)
(* The voice loop (audio/voice_loop.cc) with the turn it hands to the      *)
(* agent (agent/conversation.cc, Send).                                    *)
(*                                                                         *)
(* Threads: the capture thread calls OnMicChunk; a detached turn thread    *)
(* recognises a captured utterance, sends it to the agent and queues the   *)
(* reply; the speaker thread plays queued lines one at a time; any thread  *)
(* may queue a line with Speak (alarms, timers, battery).  When a realtime *)
(* session is open it takes the microphone over.                           *)
(*                                                                         *)
(* Audio is abstracted to what a chunk is taken for (wake word, speech or  *)
(* not); chunk counts are scaled by MaxCapture.  A step is a critical      *)
(* section under mtx_ or speech_mtx_, or one access to an atomic.          *)
(***************************************************************************)
EXTENDS Naturals

CONSTANTS
  Turns,            (* identities of detached turn threads                  *)
  RealtimeEnabled,  (* JETSON_VOICE_REALTIME                                *)
  MaxCapture,       (* kMaxUtterChunks: chunks of the longest utterance     *)
  MaxLines          (* bound on lines waiting to be spoken                  *)

ASSUME VoiceAssumption ==
  /\ RealtimeEnabled \in BOOLEAN
  /\ MaxCapture \in Nat \ {0}
  /\ MaxLines \in Nat \ {0}

VARIABLES
  running,          (* running_                                             *)
  state,            (* state_                                               *)
  wakeLatched,      (* wake_latched_                                        *)
  followupLatched,  (* followup_latched_                                    *)
  onset,            (* onset_chunks_, 0 or 1                                *)
  captured,         (* total_chunks_                                        *)
  awake,            (* now < awake_until_                                   *)
  mic,              (* where the capture thread is                          *)
  session,          (* the realtime session: "off", "live" or "closing"     *)
  assistant,        (* assistant_audio_active_                              *)
  musicVolume, duckedVolume,
  speaking,         (* speaking_                                            *)
  speech,           (* number of lines in speech_                           *)
  speaker,          (* where the speaker thread is                           *)
  turn,             (* the turn threads                                     *)
  convBusy,         (* Conversation::busy_                                  *)
  fillerSpoken,     (* filler_spoken_                                       *)
  stop              (* how far Stop has got                                 *)

captureVars == <<state, wakeLatched, followupLatched, onset, captured, awake>>
sessionVars == <<session, assistant, musicVolume, duckedVolume>>
speechVars  == <<speaking, speech, speaker>>
turnVars    == <<turn, convBusy, fillerSpoken>>
vars == <<running, captureVars, mic, sessionVars, speechVars, turnVars, stop>>

NoTurn == [pc |-> "none", wake |-> FALSE, follow |-> FALSE, window |-> FALSE]

Init ==
  /\ running = TRUE
  /\ state = "Idle" /\ wakeLatched = FALSE /\ followupLatched = FALSE
  /\ onset = 0 /\ captured = 0 /\ awake = FALSE
  /\ mic = "wait"
  /\ session = "off" /\ assistant = FALSE
  /\ musicVolume = "user" /\ duckedVolume = "none"
  /\ speaking = FALSE /\ speech = 0
  /\ speaker = [pc |-> "wait"]
  /\ turn = [t \in Turns |-> NoTurn]
  /\ convBusy = FALSE /\ fillerSpoken = FALSE
  /\ stop = "no"

-----------------------------------------------------------------------------
(* The capture thread: OnMicChunk.                                         *)

Live == session = "live"

(* The unlocked prefix: with a session the chunk goes to it, except while  *)
(* the session itself is heard and for a short tail after; otherwise it is *)
(* dropped while the device speaks.                                        *)
SendToSession ==
  /\ mic = "wait" /\ running /\ Live
  /\ \/ ~assistant /\ mic' = "sent"
     \/ mic' = "held"
  /\ UNCHANGED <<running, captureVars, sessionVars, speechVars, turnVars, stop>>

CheckIdleTime ==
  /\ mic \in {"sent", "held"}
  /\ mic' \in {"wait", "idleClose"}
  /\ UNCHANGED <<running, captureVars, sessionVars, speechVars, turnVars, stop>>

(* Mutant: chunks are captured although the device speaks.                 *)
TakeAnyChunk ==
  /\ mic = "wait" /\ running /\ ~Live
  /\ mic' = "chunk"
  /\ UNCHANGED <<running, captureVars, sessionVars, speechVars, turnVars, stop>>

TakeChunk ==
  /\ mic = "wait" /\ running /\ ~Live
  /\ ~speaking
  /\ mic' = "chunk"
  /\ UNCHANGED <<running, captureVars, sessionVars, speechVars, turnVars, stop>>

(* The session has been quiet for too long: Stop it, give the music its    *)
(* volume back and go idle.                                                *)
CloseBegins ==
  /\ mic = "idleClose"
  /\ session' = "closing" /\ mic' = "closing"
  /\ UNCHANGED <<running, captureVars, assistant, musicVolume, duckedVolume,
                 speechVars, turnVars, stop>>

(* Mutant: the ducked volume is forgotten instead of undone.               *)
CloseForgetsVolume ==
  /\ mic = "closing"
  /\ session' = "off" /\ assistant' = FALSE /\ mic' = "wait"
  /\ duckedVolume' = "none" /\ UNCHANGED musicVolume
  /\ state' = "Idle"
  /\ UNCHANGED <<running, wakeLatched, followupLatched, onset, captured, awake,
                 speechVars, turnVars, stop>>

CloseEnds ==
  /\ mic = "closing"
  /\ session' = "off" /\ assistant' = FALSE /\ mic' = "wait"
  /\ musicVolume' = IF duckedVolume = "none" THEN musicVolume ELSE duckedVolume
  /\ duckedVolume' = "none"
  /\ state' = "Idle"
  /\ UNCHANGED <<running, wakeLatched, followupLatched, onset, captured, awake,
                 speechVars, turnVars, stop>>

ChunkFrame == /\ mic = "chunk" /\ mic' = "wait"
              /\ UNCHANGED <<running, awake, speechVars, convBusy, fillerSpoken, stop>>

BeginCapture ==
  /\ state' = "Collecting"
  /\ captured' = 1
  /\ onset' = 0

(* Mutant: the volume is remembered after it was lowered.                  *)
StartRealtimeDucksFirst ==
  /\ RealtimeEnabled /\ session = "off"
  /\ session' = "live"
  /\ \/ duckedVolume' = "low" /\ musicVolume' = "low"
     \/ UNCHANGED <<duckedVolume, musicVolume>>
  /\ UNCHANGED assistant

(* StartRealtime, with mtx_ held: the sidecar answers and music that is    *)
(* playing is ducked.                                                      *)
StartRealtime ==
  /\ RealtimeEnabled /\ session = "off"
  /\ session' = "live"
  /\ \/ duckedVolume' = musicVolume /\ musicVolume' = "low"
     \/ UNCHANGED <<duckedVolume, musicVolume>>
  /\ UNCHANGED assistant

(* Mutant: the wake word is obeyed while a turn is in flight.              *)
WakeChunkAnytime ==
  /\ ChunkFrame /\ state # "Collecting"
  /\ \/ StartRealtime /\ UNCHANGED <<state, wakeLatched, captured, onset>>
     \/ wakeLatched' = TRUE /\ BeginCapture /\ UNCHANGED sessionVars
  /\ UNCHANGED <<followupLatched, turn>>

WakeChunk ==
  /\ ChunkFrame /\ state = "Idle"
  /\ \/ StartRealtime /\ UNCHANGED <<state, wakeLatched, captured, onset>>
     \/ /\ wakeLatched' = TRUE
        /\ BeginCapture
        /\ UNCHANGED sessionVars
  /\ UNCHANGED <<followupLatched, turn>>

(* Speech without the wake word counts only inside the awake window, and   *)
(* only when it lasts two chunks.                                          *)
SpeechChunk ==
  /\ ChunkFrame /\ state = "Idle" /\ awake
  /\ IF onset = 1
     THEN /\ wakeLatched' = FALSE /\ followupLatched' = TRUE
          /\ BeginCapture
     ELSE onset' = 1 /\ UNCHANGED <<state, wakeLatched, followupLatched, captured>>
  /\ UNCHANGED <<sessionVars, turn>>

(* Ambient sound, a rejected wake candidate, or a turn is in flight.       *)
IgnoredChunk ==
  /\ ChunkFrame
  /\ \/ state = "Idle" /\ awake /\ onset' = 0
     \/ state = "Idle" /\ UNCHANGED onset
     \/ state = "Busy" /\ UNCHANGED onset
  /\ UNCHANGED <<state, wakeLatched, followupLatched, captured, sessionVars, turn>>

CollectChunk ==
  /\ ChunkFrame /\ state = "Collecting"
  /\ captured < MaxCapture
  /\ captured' = captured + 1
  /\ UNCHANGED <<state, wakeLatched, followupLatched, onset, sessionVars, turn>>

(* Mutant: the latch stays set for the next capture.                       *)
EndpointKeepsLatch ==
  /\ ChunkFrame /\ state = "Collecting"
  /\ \E t \in Turns :
       /\ turn[t].pc = "none"
       /\ turn' = [turn EXCEPT ![t] = [NoTurn EXCEPT !.pc = "recognize", !.wake = wakeLatched,
                                                     !.follow = followupLatched]]
  /\ state' = "Busy" /\ captured' = 0
  /\ UNCHANGED <<wakeLatched, followupLatched, onset, sessionVars>>

(* The endpoint (trailing silence or the 12 s cap) starts a turn thread.   *)
Endpoint ==
  /\ ChunkFrame /\ state = "Collecting"
  /\ \E t \in Turns :
       /\ turn[t].pc = "none"
       /\ turn' = [turn EXCEPT ![t] = [NoTurn EXCEPT !.pc = "recognize", !.wake = wakeLatched,
                                                     !.follow = followupLatched]]
  /\ wakeLatched' = FALSE /\ followupLatched' = FALSE
  /\ state' = "Busy"
  /\ captured' = 0
  /\ UNCHANGED <<onset, sessionVars>>

Mic ==
  \/ SendToSession \/ CheckIdleTime \/ TakeChunk \/ CloseBegins \/ CloseEnds
  \/ WakeChunk \/ SpeechChunk \/ IgnoredChunk \/ CollectChunk \/ Endpoint

-----------------------------------------------------------------------------
(* A turn thread: RecognizeAndSend and the agent's reply callback.         *)

TurnFrame == UNCHANGED <<running, mic, sessionVars, speaker, stop>>
Turn(t, pc) == turn' = [turn EXCEPT ![t].pc = pc]

(* A line is to be spoken; the follow-up window opens, or not.             *)
Answer(t, window) == turn' = [turn EXCEPT ![t].pc = "flag", ![t].window = window]

(* What the recogniser and MatchWake make of the utterance.                *)
Recognized(t) ==
  /\ turn[t].pc = "recognize"
  /\ \/ Answer(t, TRUE)                        \* bare wake word
     \/ Turn(t, "rest")                         \* nothing heard, or no wake word
     \/ Answer(t, FALSE)                   \* StopAlarmIfRequested
     \/ Turn(t, "send")
  /\ UNCHANGED <<captureVars, speaking, speech, convBusy, fillerSpoken>> /\ TurnFrame

(* Conversation::Send; its result is ignored, so a rejected turn would     *)
(* never reach the callback.                                               *)
Send(t) ==
  /\ turn[t].pc = "send"
  /\ fillerSpoken' = FALSE
  /\ convBusy' = TRUE
  /\ Turn(t, IF convBusy THEN "lost" ELSE "agent")
  /\ UNCHANGED <<captureVars, speaking, speech>> /\ TurnFrame

(* Speak does nothing once the loop is stopped.  The bounds keep a place   *)
(* for a turn's answer, so that no bound of the model holds a turn up.     *)
SpeakWithin(bound) ==
  IF running THEN speech < bound /\ speech' = speech + 1 ELSE UNCHANGED speech
Speak == SpeakWithin(MaxLines - 1)
SpeakAnswer == SpeakWithin(MaxLines)

(* A tool starts: the first one of a turn has a filler line spoken.        *)
NotifyToolStarted(t) ==
  /\ turn[t].pc = "agent" /\ ~Live /\ ~fillerSpoken
  /\ fillerSpoken' = TRUE
  /\ Speak
  /\ UNCHANGED <<captureVars, speaking, turn, convBusy>> /\ TurnFrame

(* Mutant: the agent stays busy.                                           *)
AgentStaysBusy(t) ==
  /\ turn[t].pc = "agent"
  /\ Answer(t, TRUE)
  /\ UNCHANGED <<captureVars, speaking, speech, convBusy, fillerSpoken>> /\ TurnFrame

AgentDone(t) ==
  /\ turn[t].pc = "agent"
  /\ convBusy' = FALSE
  /\ Answer(t, TRUE)
  /\ UNCHANGED <<captureVars, speaking, speech, fillerSpoken>> /\ TurnFrame

(* speaking_ is raised before the line is queued and the state released.   *)
RaiseSpeaking(t) ==
  /\ turn[t].pc = "flag"
  /\ speaking' = TRUE
  /\ Turn(t, "say")
  /\ UNCHANGED <<captureVars, speech, convBusy, fillerSpoken>> /\ TurnFrame

Say(t) ==
  /\ turn[t].pc = "say"
  /\ SpeakAnswer
  /\ Turn(t, IF turn[t].window THEN "awaken" ELSE "rest")
  /\ UNCHANGED <<captureVars, speaking, convBusy, fillerSpoken>> /\ TurnFrame

(* Mutant: a turn without an answer returns without going idle.            *)
TurnEndsBusy(t) ==
  /\ turn[t].pc \in {"rest", "awaken"}
  /\ awake' = (awake \/ turn[t].pc = "awaken")
  /\ onset' = 0
  /\ state' = IF turn[t].pc = "rest" THEN state ELSE "Idle"
  /\ turn' = [turn EXCEPT ![t] = NoTurn]
  /\ UNCHANGED <<wakeLatched, followupLatched, captured, speaking, speech, convBusy, fillerSpoken>>
  /\ TurnFrame

(* The turn's last critical section: back to idle, with or without a       *)
(* follow-up window.                                                       *)
TurnEnds(t) ==
  /\ turn[t].pc \in {"rest", "awaken"}
  /\ awake' = (awake \/ turn[t].pc = "awaken")
  /\ onset' = 0
  /\ state' = "Idle"
  /\ turn' = [turn EXCEPT ![t] = NoTurn]
  /\ UNCHANGED <<wakeLatched, followupLatched, captured, speaking, speech, convBusy, fillerSpoken>>
  /\ TurnFrame

TurnStep(t) ==
  Recognized(t) \/ Send(t) \/ NotifyToolStarted(t) \/ AgentDone(t)
  \/ RaiseSpeaking(t) \/ Say(t) \/ TurnEnds(t)

-----------------------------------------------------------------------------
(* The speaker thread.                                                     *)

SpeakerFrame == UNCHANGED <<running, captureVars, mic, sessionVars, turnVars, stop>>
Speaker(pc) == speaker' = [speaker EXCEPT !.pc = pc]

SpeakerPop ==
  /\ speaker.pc = "wait"
  /\ \/ running /\ speech > 0
        /\ Speaker("yield")
        /\ speech' = speech - 1
     \/ ~running /\ Speaker("off") /\ UNCHANGED speech
  /\ UNCHANGED speaking /\ SpeakerFrame

(* Wait for a gap in the session's own voice, at most ten seconds.         *)
SpeakerFindsGap ==
  /\ speaker.pc = "yield"
  /\ ~running \/ ~Live \/ ~assistant
  /\ speaking' = TRUE
  /\ Speaker("synth")
  /\ UNCHANGED speech /\ SpeakerFrame

(* Mutant: the speaker waits for a gap however long it takes.              *)
YieldForever == FALSE

YieldCapReached ==
  /\ speaker.pc = "yield"
  /\ running /\ Live /\ assistant
  /\ speaking' = TRUE
  /\ Speaker("synth")
  /\ UNCHANGED speech /\ SpeakerFrame

Synthesize ==
  /\ speaker.pc = "synth"
  /\ \E ok \in BOOLEAN : Speaker(IF ok THEN "play" ELSE "done")
  /\ UNCHANGED <<speaking, speech>> /\ SpeakerFrame

PlayEnds ==
  /\ speaker.pc = "play"
  /\ Speaker("done")
  /\ UNCHANGED <<speaking, speech>> /\ SpeakerFrame

LowerSpeaking ==
  /\ speaker.pc = "done"
  /\ speaking' = FALSE
  /\ Speaker("wait")
  /\ UNCHANGED speech /\ SpeakerFrame

SpeakerStep ==
  SpeakerPop \/ SpeakerFindsGap \/ YieldCapReached \/ Synthesize \/ PlayEnds \/ LowerSpeaking

-----------------------------------------------------------------------------
(* Other threads and the world.                                            *)

(* Speak called from outside a turn: alarm, timer, battery, notes.         *)
SpeakNotice ==
  /\ running
  /\ Speak
  /\ UNCHANGED <<running, captureVars, mic, sessionVars, speaking, speaker, turnVars, stop>>

World == UNCHANGED <<running, mic, speechVars, turnVars, stop>>

AwakeExpires == awake /\ awake' = FALSE /\ World
                /\ UNCHANGED <<state, wakeLatched, followupLatched, onset, captured, sessionVars>>

(* The session's reader thread opens and finishes reply playback.          *)
AssistantSpeaks ==
  /\ Live
  /\ assistant' = ~assistant
  /\ World /\ UNCHANGED <<captureVars, session, musicVolume, duckedVolume>>

(* Stop, on the main thread.  The capture thread is joined between chunks. *)
StopFrame == UNCHANGED <<captureVars, speechVars, turnVars>>

StopBegins ==
  /\ stop = "no"
  /\ running' = FALSE /\ stop' = "mic"
  /\ UNCHANGED <<mic, sessionVars>> /\ StopFrame

JoinMic ==
  /\ stop = "mic" /\ mic = "wait"
  /\ mic' = "joined" /\ stop' = "session"
  /\ UNCHANGED <<running, sessionVars>> /\ StopFrame

StopSession ==
  /\ stop = "session"
  /\ session' = "off" /\ assistant' = FALSE /\ stop' = "speaker"
  /\ UNCHANGED <<running, mic, musicVolume, duckedVolume>> /\ StopFrame

JoinSpeakerAndRelease ==
  /\ stop = "speaker" /\ speaker.pc = "off"
  /\ stop' = "done"
  /\ UNCHANGED <<running, mic, sessionVars>> /\ StopFrame

Stop == StopBegins \/ JoinMic \/ StopSession \/ JoinSpeakerAndRelease

-----------------------------------------------------------------------------
Next ==
  \/ Mic
  \/ \E t \in Turns : TurnStep(t)
  \/ SpeakerStep
  \/ SpeakNotice \/ AwakeExpires \/ AssistantSpeaks
  \/ Stop

Spec == Init /\ [][Next]_vars

(* Chunks keep arriving, every thread runs, and the recogniser, the agent  *)
(* and the synthesiser answer or time out.  A capture ends at the latest   *)
(* at the 12 s cap.  Nothing else need ever happen.                        *)
Capture == SendToSession \/ CheckIdleTime \/ TakeChunk \/ CloseBegins \/ CloseEnds \/ IgnoredChunk \/ CollectChunk \/ Endpoint

TurnProgress(t) == Recognized(t) \/ Send(t) \/ AgentDone(t) \/ RaiseSpeaking(t) \/ Say(t) \/ TurnEnds(t)

Fairness ==
  /\ WF_vars(Capture)
  /\ \A t \in Turns : WF_vars(TurnProgress(t))
  /\ WF_vars(SpeakerStep)
  /\ WF_vars(JoinMic \/ StopSession \/ JoinSpeakerAndRelease)

FairSpec == Spec /\ Fairness

-----------------------------------------------------------------------------
(* Properties.                                                             *)

TurnStates == [pc : {"none", "recognize", "send", "lost", "agent", "flag", "say", "rest", "awaken"},
               wake : BOOLEAN, follow : BOOLEAN, window : BOOLEAN]
Speakers == [pc : {"wait", "yield", "synth", "play", "done", "off"}]

FlagType ==
  /\ running \in BOOLEAN /\ wakeLatched \in BOOLEAN /\ followupLatched \in BOOLEAN
  /\ awake \in BOOLEAN /\ assistant \in BOOLEAN /\ speaking \in BOOLEAN
  /\ convBusy \in BOOLEAN /\ fillerSpoken \in BOOLEAN
CaptureType ==
  /\ state \in {"Idle", "Collecting", "Busy"}
  /\ onset \in 0..1 /\ captured \in 0..MaxCapture
  /\ mic \in {"wait", "chunk", "sent", "held", "idleClose", "closing", "joined"}
  /\ session \in {"off", "live", "closing"}
  /\ musicVolume \in {"user", "low"} /\ duckedVolume \in {"none", "user", "low"}
SpeakerType ==
  /\ speech \in 0..MaxLines /\ speaker \in Speakers
  /\ stop \in {"no", "mic", "session", "speaker", "done"}

TypeOK == FlagType /\ CaptureType /\ SpeakerType /\ turn \in [Turns -> TurnStates]

Active(t) == turn[t].pc # "none"

(* kBusy stands for exactly one turn in flight, from the endpoint that     *)
(* started its thread to the callback that ends it.                        *)
BusyIsOneTurn ==
  /\ state = "Busy" <=> \E t \in Turns : Active(t)
  /\ \A t, u \in Turns : Active(t) /\ Active(u) => t = u

(* Only audio captured after the wake word or inside the awake window is   *)
(* ever recognised: a latch is raised exactly while such a capture is      *)
(* open, so none is left over for ambient speech, and every turn has one.  *)
OnlyAddressedSpeech ==
  /\ state # "Collecting" => ~wakeLatched /\ ~followupLatched
  /\ state = "Collecting" => (wakeLatched # followupLatched)
  /\ \A t \in Turns : Active(t) => (turn[t].wake # turn[t].follow)

(* A realtime session and the capture machine never run side by side: a    *)
(* session opens from idle and closing it cannot cut a turn short.         *)
SessionExcludesTurns == session # "off" => state = "Idle"

(* The agent accepts every turn: Conversation::Send never finds a request  *)
(* in flight (its result is ignored, the loop would stay busy for good).   *)
SendAccepted == \A t \in Turns : turn[t].pc # "lost" /\ (turn[t].pc = "send" => ~convBusy)

(* Outside a session the music has the volume the user gave it.            *)
MusicRestored == session = "off" /\ running => musicVolume = "user" /\ duckedVolume = "none"

(* The device's own voice is not captured: with the session off, the       *)
(* capture thread never takes a chunk while a line is playing.             *)
OwnVoiceNotTaken == [][mic = "wait" /\ mic' = "chunk" => speaker.pc # "play"]_vars

(* A turn always comes to an end, and with it kBusy.                       *)
BusyEnds == state = "Busy" ~> state = "Idle"

(* Whenever a line is queued the speaker goes on to speak one, even behind *)
(* a session that never stops talking.                                     *)
LinesAreSpoken == speech > 0 ~> speaker.pc = "synth" \/ ~running

-----------------------------------------------------------------------------
(* The inductive invariant behind SendAccepted and MusicRestored.          *)

(* The capture thread holds a chunk of the idle machine only without a     *)
(* session, and a chunk of the session only with one.                      *)
MicMatchesSession ==
  /\ mic = "chunk" => session = "off"
  /\ mic \in {"sent", "held", "idleClose"} => session = "live"
  /\ mic = "closing" <=> session = "closing"
  /\ mic = "joined" <=> stop \in {"session", "speaker", "done"}

(* The agent works for exactly the turn that was sent to it.               *)
AgentHasTurn ==
  /\ convBusy <=> \E t \in Turns : turn[t].pc = "agent"
  /\ \A t \in Turns : turn[t].pc # "lost"

(* The volume to restore is remembered as long as the music is ducked.     *)
DuckIsRemembered ==
  /\ running <=> stop = "no"
  /\ \/ musicVolume = "user" /\ duckedVolume = "none"
     \/ musicVolume = "low" /\ duckedVolume = "user" /\ (session # "off" \/ stop \in {"speaker", "done"})

(* speaking_ is up from before a line is synthesised until after it ended. *)
SpeakingCoversLine == speaker.pc \in {"synth", "play", "done"} => speaking

VoiceInv ==
  /\ BusyIsOneTurn /\ OnlyAddressedSpeech /\ SessionExcludesTurns
  /\ MicMatchesSession /\ AgentHasTurn /\ DuckIsRemembered /\ SpeakingCoversLine

(* Types and invariant together are inductive.                              *)
IndInv == TypeOK /\ VoiceInv

(* The engine is released when no thread can still be using it.            *)
EngineUnusedWhenReleased == stop = "done" => \A t \in Turns : turn[t].pc # "recognize"
=============================================================================
