---------------------------- MODULE AudioDevices ----------------------------
(***************************************************************************)
(* The three ALSA handles of the firmware on one USB sound card            *)
(* (audio/mic_capture.cc, audio/audio_output.cc): the capture handle,      *)
(* which its thread reopens with a back-off, the handle of a spoken line,  *)
(* and the stream of a realtime reply.  Unplugging the card kills every    *)
(* open handle; plugging it in again revives none of them.                 *)
(***************************************************************************)
EXTENDS Integers

CONSTANTS
  MaxUnplugs,  (* bound: times the card is unplugged                        *)
  MaxPlays,    (* bound: lines that are played                              *)
  MaxPieces    (* bound: pieces of a line or of a stream's write            *)

ASSUME DevicesAssumption == MaxUnplugs \in Nat /\ MaxPlays \in Nat /\ MaxPieces \in Nat

VARIABLES
  attached,    (* the card is plugged in                                    *)
  unplugs,
  micOn,       (* running_ of MicCapture                                    *)
  micAt,       (* where the capture thread is                               *)
  micHandle,   (* pcm_ of MicCapture                                        *)
  attempts,    (* reopen_attempts, up to where the delay stops growing      *)
  delay,       (* the pause before the next attempt, in milliseconds        *)
  micStopping, (* a thread waits in Stop for the capture thread             *)
  plays,
  playAt,      (* where the speaker thread is in Play                       *)
  playHandle,
  playLeft,    (* n - i, in chunks                                          *)
  streamHandle,(* stream_pcm_                                               *)
  writeLeft    (* what WriteStream, which holds stream_mtx_, has to write   *)

micVars == <<micOn, micAt, micHandle, attempts, delay, micStopping>>
playVars == <<plays, playAt, playHandle, playLeft>>
streamVars == <<streamHandle, writeLeft>>
deviceVars == <<attached, unplugs, micOn, micAt, micHandle, attempts, delay, micStopping,
                plays, playAt, playHandle, playLeft, streamHandle, writeLeft>>

Handle == {"none", "live", "dead"}

DevicesTypeOK ==
  /\ attached \in BOOLEAN /\ micOn \in BOOLEAN /\ micStopping \in BOOLEAN
  /\ unplugs \in 0..MaxUnplugs /\ plays \in 0..MaxPlays
  /\ micAt \in {"off", "check", "backoff", "read"}
  /\ micHandle \in Handle /\ playHandle \in Handle /\ streamHandle \in Handle
  /\ attempts \in 0..4 /\ delay \in 0..5000
  /\ playAt \in {"idle", "write", "drain"}
  /\ playLeft \in 0..MaxPieces /\ writeLeft \in 0..MaxPieces

DevicesInit ==
  /\ attached \in BOOLEAN /\ unplugs = 0
  /\ micOn = FALSE /\ micAt = "off" /\ micHandle = "none"
  /\ attempts = 0 /\ delay = 0 /\ micStopping = FALSE
  /\ plays = 0 /\ playAt = "idle" /\ playHandle = "none" /\ playLeft = 0
  /\ streamHandle = "none" /\ writeLeft = 0

Killed(handle) == IF handle = "live" THEN "dead" ELSE handle

(* snd_pcm_open and the hardware parameters: all fail without the card.    *)
Opened == IF attached THEN "live" ELSE "none"

Unplug ==
  /\ attached /\ unplugs < MaxUnplugs
  /\ attached' = FALSE /\ unplugs' = unplugs + 1
  /\ micHandle' = Killed(micHandle)
  /\ playHandle' = Killed(playHandle)
  /\ streamHandle' = Killed(streamHandle)
  /\ UNCHANGED <<micOn, micAt, attempts, delay, micStopping, plays, playAt, playLeft, writeLeft>>

Plug ==
  /\ ~attached
  /\ attached' = TRUE
  /\ UNCHANGED <<unplugs, micVars, playVars, streamVars>>

-----------------------------------------------------------------------------
(* MicCapture::Start: without the card there is no capture thread.         *)
StartMic ==
  /\ ~micOn /\ micAt = "off" /\ ~micStopping
  /\ micHandle' = Opened
  /\ micOn' = attached
  /\ micAt' = IF attached THEN "check" ELSE "off"
  /\ attempts' = 0
  /\ UNCHANGED <<attached, unplugs, delay, micStopping, playVars, streamVars>>

(* The flag falls; the thread is waited for, then the handle is closed.    *)
StopMic ==
  /\ micOn
  /\ micOn' = FALSE /\ micStopping' = TRUE
  /\ UNCHANGED <<attached, unplugs, micAt, micHandle, attempts, delay, playVars, streamVars>>

StopJoins ==
  /\ micStopping /\ micAt = "off"
  /\ micHandle' = "none" /\ micStopping' = FALSE
  /\ UNCHANGED <<attached, unplugs, micOn, micAt, attempts, delay, playVars, streamVars>>

(* 250 * (1 << min(4, reopen_attempts)), at most 5000.                     *)
Delay(n) == IF 250 * 2 ^ n < 5000 THEN 250 * 2 ^ n ELSE 5000

(* The head of the loop in Run: stop, sleep for lack of a handle, or read. *)
MicChecks ==
  /\ micAt = "check"
  /\ micAt' = IF ~micOn THEN "off" ELSE IF micHandle = "none" THEN "backoff" ELSE "read"
  /\ delay' = IF micOn /\ micHandle = "none" THEN Delay(attempts) ELSE delay
  /\ UNCHANGED <<attached, unplugs, micOn, micHandle, attempts, micStopping, playVars, streamVars>>

MicReopens ==
  /\ micAt = "backoff"
  /\ \/ /\ ~micOn
        /\ micAt' = "off"
        /\ UNCHANGED <<micHandle, attempts>>
     \/ /\ micOn
        /\ micHandle' = Opened
        /\ attempts' = IF attached THEN 0 ELSE IF attempts < 4 THEN attempts + 1 ELSE 4
        /\ micAt' = "check"
  /\ UNCHANGED <<attached, unplugs, micOn, delay, micStopping, playVars, streamVars>>

(* Mutant: every failed read is tried again on the same handle.            *)
MicReadsOn ==
  /\ micAt = "read"
  /\ micAt' = "check"
  /\ attempts' = IF micHandle = "live" THEN 0 ELSE attempts
  /\ UNCHANGED <<attached, unplugs, micOn, micHandle, delay, micStopping, playVars, streamVars>>

(* snd_pcm_readi: a chunk for the callback or a failure that prepare or    *)
(* recover repairs, else the handle is dropped.                            *)
MicReads ==
  /\ micAt = "read"
  /\ micAt' = "check"
  /\ \/ micHandle = "live" /\ attempts' \in {0, attempts} /\ UNCHANGED micHandle
     \/ micHandle = "dead" /\ micHandle' = "none" /\ UNCHANGED attempts
  /\ UNCHANGED <<attached, unplugs, micOn, delay, micStopping, playVars, streamVars>>

MicStep == MicChecks \/ MicReopens \/ MicReads

-----------------------------------------------------------------------------
(* AudioOutput::Play, on the speaker thread: false without the card.       *)
Play ==
  /\ playAt = "idle" /\ plays < MaxPlays
  /\ plays' = plays + 1
  /\ playHandle' = Opened
  /\ playAt' = IF attached THEN "write" ELSE "idle"
  /\ playLeft' \in IF attached THEN 1..MaxPieces ELSE {playLeft}
  /\ UNCHANGED <<attached, unplugs, micVars, streamVars>>

(* The loop over the chunks: what snd_pcm_recover returns is not looked    *)
(* at, so a dead handle is written to again.  Nobody but the destructor    *)
(* sets stop_.                                                             *)
PlayChunk ==
  /\ playAt = "write"
  /\ playLeft' = IF playHandle = "live" THEN playLeft - 1 ELSE playLeft
  /\ playAt' = IF playLeft' = 0 THEN "drain" ELSE "write"
  /\ UNCHANGED <<attached, unplugs, plays, playHandle, micVars, streamVars>>

PlayDrains ==
  /\ playAt = "drain"
  /\ playAt' = "idle" /\ playHandle' = "none"
  /\ UNCHANGED <<attached, unplugs, plays, playLeft, micVars, streamVars>>

PlayStep == PlayChunk \/ PlayDrains

-----------------------------------------------------------------------------
(* The stream of a reply: each operation takes stream_mtx_, which          *)
(* WriteStream keeps while it writes.                                      *)
StreamFree == writeLeft = 0

BeginStream ==
  /\ StreamFree
  /\ streamHandle' = Opened
  /\ UNCHANGED <<attached, unplugs, writeLeft, micVars, playVars>>

WriteStream ==
  /\ StreamFree /\ streamHandle # "none"
  /\ writeLeft' \in 1..MaxPieces
  /\ UNCHANGED <<attached, unplugs, streamHandle, micVars, playVars>>

(* A dead handle ends the write; the stream stays open for who closes it.  *)
WritePiece ==
  /\ writeLeft > 0
  /\ writeLeft' = IF streamHandle = "live" THEN writeLeft - 1 ELSE 0
  /\ UNCHANGED <<attached, unplugs, streamHandle, micVars, playVars>>

(* EndStream drains and closes, AbortStream drops and closes.              *)
CloseStream ==
  /\ StreamFree
  /\ streamHandle' = "none"
  /\ UNCHANGED <<attached, unplugs, writeLeft, micVars, playVars>>

-----------------------------------------------------------------------------
DevicesNext ==
  \/ Unplug \/ Plug
  \/ StartMic \/ StopMic \/ StopJoins \/ MicStep
  \/ Play \/ PlayStep
  \/ BeginStream \/ WriteStream \/ WritePiece \/ CloseStream

DevicesSpec == DevicesInit /\ [][DevicesNext]_deviceVars

(* The threads run; nobody is obliged to speak, to stop or to plug.        *)
FairDevicesSpec ==
  /\ DevicesSpec
  /\ WF_deviceVars(MicStep) /\ WF_deviceVars(PlayStep) /\ WF_deviceVars(WritePiece)

-----------------------------------------------------------------------------
(* The capture thread runs while the flag is up and holds no handle once   *)
(* it has been waited for; a line holds a handle exactly while it plays,   *)
(* and writes only what is left of it.                                     *)
DevicesInv ==
  /\ micOn => micAt # "off"
  /\ micAt # "off" => micOn \/ micStopping
  /\ micAt = "off" /\ ~micStopping => micHandle = "none"
  /\ (playAt = "idle") <=> (playHandle = "none")
  /\ playAt = "write" => playLeft > 0
  /\ writeLeft > 0 => streamHandle # "none"

(* "the capture thread reopens the device instead of spinning on a dead    *)
(* handle" (mic_capture.h:23-24): with the card plugged in, a capture that *)
(* lost its handle gets a live one.                                        *)
DevicesRecover == micOn /\ micHandle # "live" ~> micHandle = "live" \/ ~attached \/ ~micOn

(* "opens the device, plays all samples, closes" (audio_output.h:26): a    *)
(* call of Play returns.                                                   *)
PlayEnds == playAt # "idle" ~> playAt = "idle"
=============================================================================
