--------------------------- MODULE RealtimeClient ---------------------------
(***************************************************************************)
(* The realtime session (audio/realtime_client.cc) as the voice loop uses  *)
(* it: the capture thread opens it on the wake word, sends microphone      *)
(* chunks and closes it when it has been idle; a reader thread plays what  *)
(* the sidecar sends; detached threads run the tools it calls for.         *)
(*                                                                         *)
(* What is said is abstracted to whether the reply sounds in the room, and *)
(* time to three events: the session has been idle for too long, the tail  *)
(* after a reply has passed, the room has become quiet.                    *)
(***************************************************************************)
EXTENDS Naturals

CONSTANTS
  Calls,        (* identities of tool threads                               *)
  MaxSessions,  (* bound on sessions opened                                 *)
  MaxFrames     (* bound on frames sent by the sidecar, over all sessions   *)

ASSUME RealtimeAssumption == MaxSessions \in Nat /\ MaxFrames \in Nat

VARIABLES
  online,       (* running_                                                 *)
  session,      (* number of sessions opened so far                         *)
  socket,       (* fd_: the session it is connected for, 0 when -1          *)
  peer,         (* can the socket still be read?                            *)
  idle,         (* IdleSeconds() > realtime_idle_sec_                       *)
  playing,      (* playing_                                                 *)
  active,       (* assistant_audio_active_                                  *)
  tail,         (* now < echo_until_                                        *)
  muted,        (* turn_muted_                                              *)
  room,         (* is the reply heard in the room?                          *)
  reader,       (* where the reader thread is                               *)
  capture,      (* where the capture thread is; is its chunk tainted with   *)
                (* the device's own voice?                                  *)
  call,         (* the tool threads and the session each was started in     *)
  frames        (* frames received                                          *)

socketVars == <<online, session, socket, peer>>
soundVars == <<playing, active, tail, muted, room>>
clientVars == <<socketVars, idle, soundVars, reader, capture, call, frames>>

ClientInit ==
  /\ online = FALSE /\ session = 0 /\ socket = 0 /\ peer = FALSE /\ idle = FALSE
  /\ playing = FALSE /\ active = FALSE /\ tail = FALSE /\ muted = FALSE /\ room = FALSE
  /\ reader = [pc |-> "none", mute |-> FALSE]
  /\ capture = [pc |-> "rest", tainted |-> FALSE]
  /\ call = [c \in Calls |-> [pc |-> "none", session |-> 0]]
  /\ frames = 0

Reader(step) == reader' = [reader EXCEPT !.pc = step]
Capture(step) == capture' = [capture EXCEPT !.pc = step]

-----------------------------------------------------------------------------
(* FinishPlayback, by the reader or by Stop: end the stream, start the     *)
(* tail, only then lower the flag.                                         *)

(* Mutant: the flag falls with the stream, before the tail is set.         *)
EndStreamLowers ==
  /\ playing' = FALSE /\ active' = FALSE
  /\ UNCHANGED <<tail, muted, room>>

EndStream ==
  /\ playing' = FALSE
  /\ UNCHANGED <<active, tail, muted, room>>

StartTail == tail' = TRUE /\ UNCHANGED <<playing, active, muted, room>>

LowerActive(mute) ==
  /\ active' = FALSE
  /\ muted' = mute
  /\ UNCHANGED <<playing, tail, room>>

-----------------------------------------------------------------------------
(* The capture thread.                                                     *)

CaptureFrame == UNCHANGED <<reader, call, frames>>

(* Start, for a wake word heard after the room has become quiet.           *)
Start ==
  /\ capture.pc = "rest" /\ ~online /\ ~room
  /\ session < MaxSessions
  /\ session' = session + 1 /\ socket' = session' /\ peer' = TRUE
  /\ active' = FALSE /\ tail' = FALSE /\ playing' = FALSE /\ muted' = FALSE
  /\ idle' = FALSE
  /\ online' = TRUE
  /\ reader' = [pc |-> "recv", mute |-> FALSE]
  /\ UNCHANGED <<room, capture, call, frames>>

TakeChunk ==
  /\ capture.pc = "rest" /\ online
  /\ capture' = [pc |-> "chunk", tainted |-> room]
  /\ UNCHANGED <<socketVars, idle, soundVars>> /\ CaptureFrame

(* EchoActive reads the flag, then the tail.                               *)
CheckActive ==
  /\ capture.pc = "chunk"
  /\ Capture(IF active THEN "idle" ELSE "tail")
  /\ UNCHANGED <<socketVars, idle, soundVars>> /\ CaptureFrame

CheckTail ==
  /\ capture.pc = "tail"
  /\ Capture(IF tail THEN "idle" ELSE "send")
  /\ UNCHANGED <<socketVars, idle, soundVars>> /\ CaptureFrame

SendAudio ==
  /\ capture.pc = "send"
  /\ Capture("idle")
  /\ UNCHANGED <<socketVars, idle, soundVars>> /\ CaptureFrame

(* Mutant: a session is not closed while its reply is being played.        *)
CheckIdleInSilence ==
  /\ capture.pc = "idle"
  /\ Capture(IF idle /\ ~active THEN "stop" ELSE "rest")
  /\ UNCHANGED <<socketVars, idle, soundVars>> /\ CaptureFrame

CheckIdle ==
  /\ capture.pc = "idle"
  /\ Capture(IF idle THEN "stop" ELSE "rest")
  /\ UNCHANGED <<socketVars, idle, soundVars>> /\ CaptureFrame

(* Stop: running_ is lowered and the socket shut down, which unblocks the  *)
(* reader; the reader is joined and the socket closed.                     *)
StopBegins ==
  /\ capture.pc = "stop"
  /\ online' = FALSE /\ peer' = FALSE
  /\ Capture("join")
  /\ UNCHANGED <<session, socket, idle, soundVars>> /\ CaptureFrame

JoinReader ==
  /\ capture.pc = "join" /\ reader.pc = "ended"
  /\ Reader("none")
  /\ Capture("close")
  /\ UNCHANGED <<socketVars, idle, soundVars, call, frames>>

CloseSocket ==
  /\ capture.pc = "close"
  /\ socket' = 0
  /\ Capture(IF playing THEN "drain" ELSE "lower")
  /\ UNCHANGED <<online, session, peer, idle, soundVars>> /\ CaptureFrame

StopDrains ==
  /\ capture.pc = "drain" /\ EndStream /\ Capture("tailing")
  /\ UNCHANGED <<socketVars, idle>> /\ CaptureFrame
StopTails ==
  /\ capture.pc = "tailing" /\ StartTail /\ Capture("lower")
  /\ UNCHANGED <<socketVars, idle>> /\ CaptureFrame
StopLowers ==
  /\ capture.pc = "lower" /\ LowerActive(muted) /\ Capture("rest")
  /\ UNCHANGED <<socketVars, idle>> /\ CaptureFrame

Stop == StopBegins \/ JoinReader \/ CloseSocket \/ StopDrains \/ StopTails \/ StopLowers
CaptureStep == TakeChunk \/ CheckActive \/ CheckTail \/ SendAudio \/ CheckIdle \/ Stop

-----------------------------------------------------------------------------
(* The reader thread.                                                      *)

ReaderFrame == UNCHANGED <<socketVars, capture>>

Receive ==
  /\ reader.pc = "recv" /\ online /\ peer
  /\ frames < MaxFrames /\ frames' = frames + 1

(* Reply audio: swallowed after an interruption; the first frame opens the *)
(* stream, which may fail.                                                 *)
ReceiveAudio ==
  /\ Receive /\ idle' = FALSE
  /\ \/ muted /\ UNCHANGED <<reader, playing>>
     \/ ~muted /\ playing /\ Reader("write") /\ UNCHANGED playing
     \/ ~muted /\ ~playing /\ playing' = TRUE /\ Reader("raise")
     \/ ~muted /\ ~playing /\ UNCHANGED <<reader, playing>>
  /\ UNCHANGED <<active, tail, muted, room, call>> /\ ReaderFrame

RaiseActive ==
  /\ reader.pc = "raise"
  /\ active' = TRUE /\ Reader("write")
  /\ UNCHANGED <<idle, playing, tail, muted, room, call, frames>> /\ ReaderFrame

WriteStream ==
  /\ reader.pc = "write"
  /\ room' = TRUE /\ Reader("recv")
  /\ UNCHANGED <<idle, playing, active, tail, muted, call, frames>> /\ ReaderFrame

(* A barge-in silences the rest of the turn, the end of the turn lifts it. *)
ReceiveTurnEnd(mute) ==
  /\ Receive
  /\ reader' = [pc |-> IF playing THEN "drain" ELSE "lower", mute |-> mute]
  /\ muted' = (mute /\ muted)
  /\ UNCHANGED <<idle, playing, active, tail, room, call>> /\ ReaderFrame

ReceiveInterrupted == ReceiveTurnEnd(TRUE)
ReceiveTurnComplete == ReceiveTurnEnd(FALSE)

ReaderDrains ==
  /\ reader.pc = "drain" /\ EndStream /\ Reader("tailing")
  /\ UNCHANGED <<idle, call, frames>> /\ ReaderFrame
ReaderTails ==
  /\ reader.pc = "tailing" /\ StartTail /\ Reader("lower")
  /\ UNCHANGED <<idle, call, frames>> /\ ReaderFrame
ReaderLowers ==
  /\ reader.pc = "lower" /\ LowerActive(reader.mute) /\ Reader("recv")
  /\ idle' = FALSE
  /\ UNCHANGED <<call, frames>> /\ ReaderFrame

(* A tool call gets a thread of its own; a transcript only counts as life. *)
ReceiveToolCall ==
  /\ Receive /\ idle' = FALSE
  /\ \E c \in Calls : call[c].pc = "none" /\ call' = [call EXCEPT ![c] = [pc |-> "run", session |-> session]]
  /\ UNCHANGED <<soundVars, reader>> /\ ReaderFrame

ReceiveTranscript == Receive /\ idle' = FALSE /\ UNCHANGED <<soundVars, reader, call>> /\ ReaderFrame

(* The loop ends on running_ or when the socket yields nothing any more;   *)
(* running_ is left as it is.                                              *)
ReaderEnds ==
  /\ reader.pc = "recv" /\ (~online \/ ~peer)
  /\ Reader("ended")
  /\ UNCHANGED <<idle, soundVars, call, frames>> /\ ReaderFrame

ReaderStep ==
  \/ ReceiveAudio \/ RaiseActive \/ WriteStream
  \/ ReceiveInterrupted \/ ReceiveTurnComplete \/ ReaderDrains \/ ReaderTails \/ ReaderLowers
  \/ ReceiveToolCall \/ ReceiveTranscript \/ ReaderEnds

-----------------------------------------------------------------------------
(* Tool threads and the world.                                             *)

(* SendFrame writes the result to whatever socket is open by then.         *)
ToolEnds(c) ==
  /\ call[c].pc = "run"
  /\ call' = [call EXCEPT ![c].pc = IF socket = 0 THEN "lost" ELSE "sent"]
  /\ UNCHANGED <<socketVars, idle, soundVars, reader, capture, frames>>

ToolExits(c) ==
  /\ call[c].pc \in {"sent", "lost"}
  /\ call' = [call EXCEPT ![c] = [pc |-> "none", session |-> 0]]
  /\ UNCHANGED <<socketVars, idle, soundVars, reader, capture, frames>>

World == UNCHANGED <<reader, capture, call, frames>>

PeerCloses == peer /\ peer' = FALSE /\ UNCHANGED <<online, session, socket, idle, soundVars>> /\ World

(* The twenty seconds of the idle limit are longer than the queued sound.  *)
GoesIdle ==
  /\ online /\ ~idle /\ ~room /\ reader.pc \notin {"raise", "write"}
  /\ idle' = TRUE
  /\ UNCHANGED <<socketVars, soundVars>> /\ World

Lowering == reader.pc = "lower" \/ capture.pc = "lower"

(* Between frames, or when the stream has been drained, the room gets      *)
(* quiet.  The tail outlasts the echo and the chunk it is heard in.        *)
RoomQuiets == room /\ room' = FALSE /\ UNCHANGED <<socketVars, idle, playing, active, tail, muted>> /\ World

TailPasses ==
  /\ tail /\ (~room \/ active) /\ ~Lowering /\ (capture.tainted => capture.pc \in {"rest", "idle"})
  /\ tail' = FALSE
  /\ UNCHANGED <<socketVars, idle, playing, active, muted, room>> /\ World

-----------------------------------------------------------------------------
ToolStep(c) == ToolEnds(c) \/ ToolExits(c)

ClientNext ==
  \/ Start \/ CaptureStep \/ ReaderStep
  \/ \E c \in Calls : ToolStep(c)
  \/ PeerCloses \/ GoesIdle \/ RoomQuiets \/ TailPasses

ClientSpec == ClientInit /\ [][ClientNext]_clientVars

(* Chunks keep arriving, the reader runs, the clock goes on and sounds die *)
(* away.  The sidecar need neither send nor close anything.                *)
ReaderOwnStep == RaiseActive \/ WriteStream \/ ReaderDrains \/ ReaderTails \/ ReaderLowers \/ ReaderEnds

FairClientSpec ==
  /\ ClientSpec
  /\ WF_clientVars(CaptureStep) /\ WF_clientVars(ReaderOwnStep)
  /\ WF_clientVars(GoesIdle) /\ WF_clientVars(RoomQuiets)

-----------------------------------------------------------------------------
(* Properties.                                                             *)

ReaderSteps == {"none", "recv", "raise", "write", "drain", "tailing", "lower", "ended"}
CaptureSteps == {"rest", "chunk", "tail", "send", "idle", "stop", "join", "close", "drain", "tailing", "lower"}
CallStates == [pc : {"none", "run", "sent", "lost"}, session : 0..MaxSessions]

SocketType ==
  /\ session \in 0..MaxSessions /\ socket \in {0, session} /\ frames \in 0..MaxFrames
  /\ reader.pc \in ReaderSteps /\ capture.pc \in CaptureSteps
FlagType ==
  /\ online \in BOOLEAN /\ peer \in BOOLEAN /\ idle \in BOOLEAN
  /\ playing \in BOOLEAN /\ active \in BOOLEAN /\ tail \in BOOLEAN
  /\ muted \in BOOLEAN /\ room \in BOOLEAN
RecordType ==
  /\ reader \in [pc : ReaderSteps, mute : BOOLEAN]
  /\ capture \in [pc : CaptureSteps, tainted : BOOLEAN]
  /\ call \in [Calls -> CallStates]

ClientTypeOK == SocketType /\ FlagType /\ RecordType

(* Nova never hears herself: no chunk is sent in which the reply sounds,   *)
(* although flag, tail and socket are used one after the other and the     *)
(* reply may begin, end or be cut off between any two of them.             *)
NeverHearsItself == capture.pc = "send" => ~capture.tainted

(* A closed session leaves nothing behind: no socket, no reader thread to  *)
(* overwrite, no stream, and no flag that local lines would wait for.      *)
ClosedIsClean ==
  ~online /\ capture.pc = "rest" => socket = 0 /\ reader.pc = "none" /\ ~playing /\ ~active

(* No session stays open, and billed, once the model has fallen silent,    *)
(* be it that the sidecar is gone in the middle of a reply.                *)
SessionCloses == online ~> ~online

-----------------------------------------------------------------------------
(* The inductive invariant.                                                *)

SessionSteps == {"chunk", "tail", "send", "idle", "stop"}
Closing == {"join", "close", "drain", "tailing", "lower"}

(* The threads and the socket of a session come and go together.           *)
SessionStages ==
  /\ online => socket = session /\ reader.pc # "none"
  /\ capture.pc \in SessionSteps => online
  /\ capture.pc \in Closing => ~online
  /\ capture.pc = "join" => reader.pc # "none"
  /\ capture.pc \in Closing \ {"join"} => reader.pc = "none"
  /\ capture.pc \in {"drain", "tailing", "lower"} => socket = 0

(* The flag is up from before the first sample until after the tail began. *)
ActiveCoversPlaying ==
  /\ reader.pc \in {"write", "tailing"} => active
  /\ reader.pc \in {"raise", "write", "drain"} => playing
  /\ capture.pc = "drain" => playing
  /\ active => \/ playing
               \/ reader.pc \in {"tailing", "lower"}
               \/ capture.pc \in {"tailing", "lower"}
  /\ playing => active \/ reader.pc = "raise"
  /\ reader.pc \in {"tailing", "lower"} \/ capture.pc \in {"tailing", "lower"} => ~playing

(* Whatever sounds, or is in the chunk at hand, is covered by flag or tail. *)
EchoIsCovered ==
  /\ room => active \/ tail
  /\ room /\ Lowering => tail
  /\ capture.tainted /\ capture.pc = "chunk" => active \/ tail
  /\ capture.tainted /\ capture.pc = "chunk" /\ Lowering => tail
  /\ capture.tainted /\ capture.pc = "tail" => tail

RealtimeInv ==
  /\ SessionStages /\ ActiveCoversPlaying /\ EchoIsCovered
  /\ NeverHearsItself /\ ClosedIsClean

(* Types and invariant together are inductive.                              *)
ClientInv == ClientTypeOK /\ RealtimeInv
=============================================================================
