---------------------------- MODULE SpeechEngine ----------------------------
(***************************************************************************)
(* The speech engine (audio/sherpa_engine.cc): wake-word scores from a     *)
(* sidecar behind a socket with time limits, transcription by one web      *)
(* request, and synthesis by a child process that reads and writes         *)
(* temporary files, with a cache for the short lines.                      *)
(***************************************************************************)
EXTENDS Integers, Sequences, FiniteSets

CONSTANTS
  Phrases,        (* what can be spoken                                     *)
  ShortPhrases,   (* those of at most kMaxCachedTextBytes                   *)
  MaxCached,      (* kMaxCachedPhrases                                      *)
  MinFrames,      (* OPENWAKEWORD_MIN_FRAMES                                *)
  MaxWakeFrames,  (* bound: frames that are sent to the sidecar             *)
  MaxSpoken       (* bound: lines and utterances                            *)

ASSUME SpeechAssumption ==
  /\ ShortPhrases \subseteq Phrases
  /\ MaxCached \in Nat \ {0} /\ MinFrames \in 1..5
  /\ MaxWakeFrames \in Nat /\ MaxSpoken \in Nat

VARIABLES
  sidecar,        (* the scoring process runs                               *)
  connection,     (* oww_fd_: none, open, or broken by the other side       *)
  unanswered,     (* frames the sidecar has still to score                  *)
  answers,        (* scores in the socket, with the frame they are for      *)
  audio,          (* oww_audio_, in units of 256 samples                    *)
  scoreFrames,    (* oww_score_frames_                                      *)
  wakeAt,         (* where the capture thread is in FeedWake                *)
  frame,          (* the frames sent so far                                 *)
  judged,         (* history: the frame whose score was used last           *)
  detected,       (* what the last FeedWake returned                        *)
  synthAt,        (* where the speaker thread is in Synthesize              *)
  line,           (* the text it renders                                    *)
  tempFiles,      (* the temporary files there are                          *)
  cache,          (* tts_cache_                                             *)
  utterances,
  transcript      (* what the last Recognize returned                       *)

wakeVars == <<sidecar, connection, unanswered, answers, audio, scoreFrames, wakeAt, frame,
              judged, detected>>
synthVars == <<synthAt, line, tempFiles, cache>>
speechVars == <<sidecar, connection, unanswered, answers, audio, scoreFrames, wakeAt, frame,
                judged, detected, synthAt, line, tempFiles, cache, utterances, transcript>>

Score == [frame : 1..MaxWakeFrames, value : {"low", "high", "nan"}]

ChunkUnits == 2   (* 512 samples from the microphone                        *)
FrameUnits == 5   (* kFrameSamples                                          *)

SpeechTypeOK ==
  /\ sidecar \in BOOLEAN /\ connection \in {"none", "open", "broken"} /\ detected \in BOOLEAN
  /\ unanswered \in Seq(1..MaxWakeFrames) /\ answers \in Seq(Score)
  /\ audio \in 0 .. 3 * FrameUnits + ChunkUnits
  /\ scoreFrames \in 0 .. MinFrames - 1
  /\ wakeAt \in {"idle", "scan", "sent"}
  /\ frame \in 0..MaxWakeFrames /\ judged \in 0..MaxWakeFrames
  /\ synthAt \in {"idle", "lookup", "create", "write", "child", "read", "store"}
  /\ line \in Phrases /\ tempFiles \subseteq {"text", "pcm"}
  /\ cache \subseteq ShortPhrases /\ Cardinality(cache) <= MaxCached
  /\ utterances \in 0..MaxSpoken
  /\ transcript \in {"none", "speech"}

SpeechInit ==
  /\ sidecar \in BOOLEAN /\ connection = "none"
  /\ unanswered = <<>> /\ answers = <<>>
  /\ audio = 0 /\ scoreFrames = 0 /\ wakeAt = "idle"
  /\ frame = 0 /\ judged = 0 /\ detected = FALSE
  /\ synthAt = "idle" /\ line \in Phrases /\ tempFiles = {} /\ cache = {}
  /\ utterances = 0 /\ transcript = "none"

-----------------------------------------------------------------------------
(* The sidecar scores a frame, in its own time; a closed socket takes the  *)
(* rest with it.                                                           *)
Answer ==
  /\ sidecar /\ unanswered # <<>>
  /\ \E v \in {"low", "high", "nan"} :
       answers' = Append(answers, [frame |-> Head(unanswered), value |-> v])
  /\ unanswered' = Tail(unanswered)
  /\ UNCHANGED <<sidecar, connection, audio, scoreFrames, wakeAt, frame, judged, detected,
                 synthVars, utterances, transcript>>

SidecarDies ==
  /\ sidecar
  /\ sidecar' = FALSE /\ unanswered' = <<>>
  /\ connection' = IF connection = "open" THEN "broken" ELSE connection
  /\ UNCHANGED <<answers, audio, scoreFrames, wakeAt, frame, judged, detected,
                 synthVars, utterances, transcript>>

SidecarStarts ==
  /\ ~sidecar
  /\ sidecar' = TRUE
  /\ UNCHANGED <<connection, unanswered, answers, audio, scoreFrames, wakeAt, frame, judged,
                 detected, synthVars, utterances, transcript>>

(* FeedWake: the chunk is appended.                                        *)
FeedWake ==
  /\ wakeAt = "idle" /\ frame < MaxWakeFrames
  /\ audio' = audio + ChunkUnits
  /\ wakeAt' = "scan" /\ detected' = FALSE
  /\ UNCHANGED <<sidecar, connection, unanswered, answers, scoreFrames, frame, judged,
                 synthVars, utterances, transcript>>

WakeReturns ==
  /\ wakeAt = "scan" /\ audio < FrameUnits
  /\ wakeAt' = "idle"
  /\ UNCHANGED <<sidecar, connection, unanswered, answers, audio, scoreFrames, frame, judged,
                 detected, synthVars, utterances, transcript>>

(* EnsureKws fails: the newest three frames are kept for the next call.    *)
ConnectFails ==
  /\ wakeAt = "scan" /\ audio >= FrameUnits /\ connection = "none" /\ ~sidecar
  /\ audio' = IF audio > 3 * FrameUnits THEN 3 * FrameUnits ELSE audio
  /\ wakeAt' = "idle"
  /\ UNCHANGED <<sidecar, connection, unanswered, answers, scoreFrames, frame, judged, detected,
                 synthVars, utterances, transcript>>

Connect ==
  /\ wakeAt = "scan" /\ audio >= FrameUnits /\ connection = "none" /\ sidecar
  /\ connection' = "open" /\ unanswered' = <<>> /\ answers' = <<>>
  /\ UNCHANGED <<sidecar, audio, scoreFrames, wakeAt, frame, judged, detected,
                 synthVars, utterances, transcript>>

(* SendAll; on a broken socket the frame gets no answer.                   *)
SendFrame ==
  /\ wakeAt = "scan" /\ audio >= FrameUnits /\ connection # "none" /\ frame < MaxWakeFrames
  /\ frame' = frame + 1
  /\ unanswered' = IF connection = "open" THEN Append(unanswered, frame') ELSE unanswered
  /\ wakeAt' = "sent"
  /\ UNCHANGED <<sidecar, connection, answers, audio, scoreFrames, judged, detected,
                 synthVars, utterances, transcript>>

(* RecvAll returned a number: enough of them in a row end the call.        *)
UseScore ==
  /\ wakeAt = "sent" /\ answers # <<>> /\ Head(answers).value # "nan"
  /\ answers' = Tail(answers)
  /\ audio' = audio - FrameUnits
  /\ judged' = Head(answers).frame
  /\ LET high == Head(answers).value = "high"
         n == IF high THEN scoreFrames + 1 ELSE IF scoreFrames > 0 THEN scoreFrames - 1 ELSE 0
     IN  /\ detected' = (n >= MinFrames)
         /\ scoreFrames' = IF n >= MinFrames THEN 0 ELSE n
         /\ wakeAt' = IF n >= MinFrames THEN "idle" ELSE "scan"
  /\ UNCHANGED <<sidecar, connection, unanswered, frame, synthVars, utterances, transcript>>

(* Mutant: the socket is kept when the answer does not come in time.       *)
LoseConnectionNot ==
  /\ wakeAt = "sent" /\ (answers # <<>> => Head(answers).value = "nan")
  /\ UNCHANGED <<connection, unanswered, answers>>
  /\ audio' = audio - FrameUnits
  /\ scoreFrames' = 0 /\ wakeAt' = "scan"
  /\ UNCHANGED <<sidecar, frame, judged, detected, synthVars, utterances, transcript>>

(* No answer within 250 ms, an end of file, or no number: the socket is    *)
(* closed, and what was still to come is never read.                       *)
LoseConnection ==
  /\ wakeAt = "sent" /\ (answers # <<>> => Head(answers).value = "nan")
  /\ connection' = "none" /\ unanswered' = <<>> /\ answers' = <<>>
  /\ audio' = audio - FrameUnits
  /\ scoreFrames' = 0 /\ wakeAt' = "scan"
  /\ UNCHANGED <<sidecar, frame, judged, detected, synthVars, utterances, transcript>>

(* The capture thread and the sidecar.                                     *)
WakeNext ==
  \/ FeedWake \/ WakeReturns \/ ConnectFails \/ Connect \/ SendFrame \/ UseScore \/ LoseConnection
  \/ Answer \/ SidecarDies \/ SidecarStarts

-----------------------------------------------------------------------------
(* Synthesize: a cached line is returned at once.                          *)
Synthesize(text) ==
  /\ synthAt = "idle" /\ utterances < MaxSpoken
  /\ utterances' = utterances + 1
  /\ line' = text
  /\ synthAt' = IF text \in cache THEN "idle" ELSE "create"
  /\ UNCHANGED <<wakeVars, tempFiles, cache, transcript>>

(* The two mkstemp: when one fails, the other's file is removed.           *)
CreateFiles ==
  /\ synthAt = "create"
  /\ \/ tempFiles' = {"text", "pcm"} /\ synthAt' = "write"
     \/ tempFiles' = {} /\ synthAt' = "idle"
  /\ UNCHANGED <<wakeVars, line, cache, utterances, transcript>>

WriteText ==
  /\ synthAt = "write"
  /\ \/ synthAt' = "child" /\ UNCHANGED tempFiles
     \/ tempFiles' = {} /\ synthAt' = "idle"
  /\ UNCHANGED <<wakeVars, line, cache, utterances, transcript>>

(* fork and waitpid, without a time limit: the child exits well or not.    *)
ChildExits ==
  /\ synthAt = "child"
  /\ \/ tempFiles' = {"pcm"} /\ synthAt' = "read"
     \/ tempFiles' = {} /\ synthAt' = "idle"
  /\ UNCHANGED <<wakeVars, line, cache, utterances, transcript>>

(* The samples are read; a file without any is a failure.                  *)
ReadSamples ==
  /\ synthAt = "read"
  /\ tempFiles' = {}
  /\ synthAt' \in {"idle"} \cup (IF line \in ShortPhrases THEN {"store"} ELSE {})
  /\ UNCHANGED <<wakeVars, line, cache, utterances, transcript>>

(* A full cache is emptied before the line is kept.                        *)
StoreLine ==
  /\ synthAt = "store"
  /\ cache' = (IF Cardinality(cache) >= MaxCached THEN {} ELSE cache) \cup {line}
  /\ synthAt' = "idle"
  /\ UNCHANGED <<wakeVars, line, tempFiles, utterances, transcript>>

SynthNext ==
  \/ \E text \in Phrases : Synthesize(text)
  \/ CreateFiles \/ WriteText \/ ChildExits \/ ReadSamples \/ StoreLine

-----------------------------------------------------------------------------
(* Recognize: only the text of a good answer that is neither blank nor the *)
(* prompt handed back is a transcript.                                     *)
Reply == [transport : BOOLEAN, status : {200, 401}, text : {"missing", "blank", "prompt", "speech"}]

Recognized(reply) ==
  IF reply.transport /\ reply.status \in 200..299 /\ reply.text = "speech" THEN "speech" ELSE "none"

Recognize ==
  /\ utterances < MaxSpoken
  /\ utterances' = utterances + 1
  /\ \E reply \in Reply : transcript' = Recognized(reply)
  /\ UNCHANGED <<wakeVars, synthVars>>

SpeechNext == WakeNext \/ SynthNext \/ Recognize

SpeechSpec == SpeechInit /\ [][SpeechNext]_speechVars

-----------------------------------------------------------------------------
(* A socket holds at most the answer to the frame just sent, no file       *)
(* outlives its line, and only a short line is about to be kept.           *)
SpeechInv ==
  /\ connection # "open" => unanswered = <<>>
  /\ connection = "none" => answers = <<>>
  /\ Len(unanswered) + Len(answers) <= (IF wakeAt = "sent" THEN 1 ELSE 0)
  /\ \A i \in 1..Len(unanswered) : unanswered[i] = frame
  /\ \A i \in 1..Len(answers) : answers[i].frame = frame
  /\ wakeAt = "sent" => connection # "none" /\ audio >= FrameUnits
  /\ wakeAt = "idle" => audio <= 3 * FrameUnits
  /\ synthAt = "store" => line \in ShortPhrases
  /\ tempFiles = (CASE synthAt \in {"write", "child"} -> {"text", "pcm"}
                    [] synthAt = "read" -> {"pcm"}
                    [] OTHER -> {})

(* A score counts for the frame that was just sent, however late the       *)
(* sidecar answers and however often it is restarted.                      *)
ScoresArePaired == [][judged' # judged => judged' = frame]_speechVars
=============================================================================
