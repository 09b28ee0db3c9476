------------------------ MODULE RealtimeClientProofs ------------------------
(***************************************************************************)
(* Proofs about RealtimeClient for any number of tool threads, sessions    *)
(* and frames: the type invariant, the inductive invariant RealtimeInv,    *)
(* and from it NeverHearsItself and ClosedIsClean.                         *)
(***************************************************************************)
EXTENDS RealtimeClient, TLAPS

USE DEF socketVars, soundVars, CaptureFrame, ReaderFrame, World

(* A client that has not been started is well-typed and clean.             *)
LEMMA ClientInitInv == ClientInit => ClientTypeOK /\ RealtimeInv
<1> SUFFICES ASSUME ClientInit PROVE ClientTypeOK /\ RealtimeInv
  OBVIOUS
<1> USE DEF ClientInit
<1>1. SocketType BY RealtimeAssumption DEF RealtimeAssumption, SocketType, ReaderSteps, CaptureSteps
<1>2. FlagType BY Zenon DEF FlagType
<1>3. RecordType
  <2>1. [pc |-> "none", session |-> 0] \in CallStates
    BY RealtimeAssumption DEF RealtimeAssumption, CallStates
  <2>2. reader \in [pc : ReaderSteps, mute : BOOLEAN] BY Zenon DEF ReaderSteps
  <2>3. capture \in [pc : CaptureSteps, tainted : BOOLEAN] BY Zenon DEF CaptureSteps
  <2> QED BY <2>1, <2>2, <2>3 DEF RecordType
<1>4. RealtimeInv
  BY DEF RealtimeInv, SessionStages, ActiveCoversPlaying, EchoIsCovered, NeverHearsItself, ClosedIsClean,
     SessionSteps, Closing, Lowering
<1> QED BY <1>1, <1>2, <1>3, <1>4 DEF ClientTypeOK

(* Moving a thread's program counter keeps its record well-typed and its   *)
(* other field as it was.                                                  *)
LEMMA MoveReader ==
  ASSUME RecordType, NEW pc \in ReaderSteps, Reader(pc)
  PROVE  /\ reader' \in [pc : ReaderSteps, mute : BOOLEAN]
         /\ reader'.pc = pc /\ reader'.mute = reader.mute
BY DEF RecordType, Reader

LEMMA MoveCapture ==
  ASSUME RecordType, NEW pc \in CaptureSteps, Capture(pc)
  PROVE  /\ capture' \in [pc : CaptureSteps, tainted : BOOLEAN]
         /\ capture'.pc = pc /\ capture'.tainted = capture.tainted
BY DEF RecordType, Capture

(* A started session is well-typed, and nothing sounds in it yet.          *)
LEMMA StartInv ==
  ASSUME ClientTypeOK, RealtimeInv, Start PROVE ClientTypeOK' /\ RealtimeInv'
<1> USE DEF Start
<1>1. reader'.pc = "recv" /\ reader' \in [pc : ReaderSteps, mute : BOOLEAN]
  <2>1. reader' = [pc |-> "recv", mute |-> FALSE] BY Zenon
  <2>2. [pc |-> "recv", mute |-> FALSE] \in [pc : ReaderSteps, mute : BOOLEAN] BY Zenon DEF ReaderSteps
  <2> QED BY <2>1, <2>2
<1>2. SocketType' BY <1>1, RealtimeAssumption DEF RealtimeAssumption, ClientTypeOK, SocketType, ReaderSteps
<1>3. FlagType' BY Zenon DEF ClientTypeOK, FlagType
<1>4. RecordType' BY <1>1 DEF ClientTypeOK, RecordType
<1>5. RealtimeInv'
  BY <1>1 DEF RealtimeInv, SessionStages, ActiveCoversPlaying, EchoIsCovered, NeverHearsItself, ClosedIsClean,
     SessionSteps, Closing, Lowering
<1> QED BY <1>2, <1>3, <1>4, <1>5 DEF ClientTypeOK

(* A chunk taken, checked, sent or dropped: only the capture thread moves. *)
LEMMA ChunkInv ==
  ASSUME ClientTypeOK, RealtimeInv, TakeChunk \/ CheckActive \/ CheckTail \/ SendAudio \/ CheckIdle
  PROVE  ClientTypeOK' /\ RealtimeInv'
<1> USE DEF TakeChunk, CheckActive, CheckTail, SendAudio, CheckIdle
<1>1. capture' \in [pc : CaptureSteps, tainted : BOOLEAN]
  <2>1. capture \in [pc : CaptureSteps, tainted : BOOLEAN] BY Zenon DEF ClientTypeOK, RecordType
  <2>2. CASE TakeChunk
    <3>1. [pc |-> "chunk", tainted |-> room] \in [pc : CaptureSteps, tainted : BOOLEAN]
      BY Zenon DEF ClientTypeOK, FlagType, CaptureSteps
    <3> QED BY <2>2, <3>1
  <2>3. CASE CheckActive \/ CheckTail \/ SendAudio \/ CheckIdle
    BY <2>1, <2>3 DEF Capture, CaptureSteps
  <2> QED BY <2>2, <2>3
<1>2. SocketType'
  <2>1. capture'.pc \in CaptureSteps BY <1>1
  <2> QED BY <2>1 DEF ClientTypeOK, SocketType
<1>3. FlagType' BY Zenon DEF ClientTypeOK, FlagType
<1>4. RecordType'
  <2>1. reader' = reader /\ call' = call OBVIOUS
  <2> QED BY <1>1, <2>1 DEF ClientTypeOK, RecordType
<1>5. RealtimeInv'
  <2>1. capture \in [pc : CaptureSteps, tainted : BOOLEAN] BY Zenon DEF ClientTypeOK, RecordType
  <2>2. CASE TakeChunk
    <3>1. capture'.pc = "chunk" /\ capture'.tainted = room BY <2>2
    <3>2. UNCHANGED <<socketVars, soundVars, reader>> BY <2>2
    <3> QED BY <2>2, <3>1, <3>2 DEF RealtimeInv, SessionStages, ActiveCoversPlaying, EchoIsCovered, NeverHearsItself, ClosedIsClean,
     SessionSteps, Closing, Lowering
  <2>3. CASE CheckActive \/ CheckTail \/ SendAudio \/ CheckIdle
    <3>1. UNCHANGED <<socketVars, soundVars, reader>> BY <2>3
    <3>2. /\ capture'.tainted = capture.tainted
          /\ \/ capture.pc = "chunk" /\ active /\ capture'.pc = "idle"
             \/ capture.pc = "chunk" /\ ~active /\ capture'.pc = "tail"
             \/ capture.pc = "tail" /\ tail /\ capture'.pc = "idle"
             \/ capture.pc = "tail" /\ ~tail /\ capture'.pc = "send"
             \/ capture.pc = "send" /\ capture'.pc = "idle"
             \/ capture.pc = "idle" /\ capture'.pc \in {"stop", "rest"}
      BY <2>1, <2>3 DEF Capture
    <3> QED BY <3>1, <3>2 DEF RealtimeInv, SessionStages, ActiveCoversPlaying, EchoIsCovered, NeverHearsItself, ClosedIsClean,
     SessionSteps, Closing, Lowering
  <2> QED BY <2>2, <2>3
<1> QED BY <1>2, <1>3, <1>4, <1>5 DEF ClientTypeOK

(* Stop leaves, stage by stage, a clean client behind.                     *)
LEMMA StopInv ==
  ASSUME ClientTypeOK, RealtimeInv, Stop PROVE ClientTypeOK' /\ RealtimeInv'
<1> USE DEF StopBegins, JoinReader, CloseSocket, StopDrains, StopTails, StopLowers
<1>0. RecordType BY DEF ClientTypeOK
<1>1. CASE StopBegins
  <2>1. Capture("join") /\ reader' = reader /\ call' = call BY <1>1
  <2>2. "join" \in CaptureSteps BY DEF CaptureSteps
  <2>3. /\ capture' \in [pc : CaptureSteps, tainted : BOOLEAN]
        /\ capture'.pc = "join" /\ capture'.tainted = capture.tainted
    BY <1>0, <2>1, <2>2, MoveCapture
  <2>4. SocketType' BY <1>1, <2>1, <2>2, <2>3 DEF ClientTypeOK, SocketType
  <2>5. FlagType' BY <1>1, Zenon DEF ClientTypeOK, FlagType
  <2>6. RecordType' BY <1>0, <2>1, <2>3 DEF RecordType
  <2>7. RealtimeInv' BY <1>1, <2>1, <2>3 DEF RealtimeInv, SessionStages, ActiveCoversPlaying, EchoIsCovered, NeverHearsItself, ClosedIsClean,
     SessionSteps, Closing, Lowering
  <2> QED BY <2>4, <2>5, <2>6, <2>7 DEF ClientTypeOK
<1>2. CASE JoinReader
  <2>1. Capture("close") /\ Reader("none") /\ call' = call BY <1>2
  <2>2. "close" \in CaptureSteps /\ "none" \in ReaderSteps BY DEF CaptureSteps, ReaderSteps
  <2>3. /\ capture' \in [pc : CaptureSteps, tainted : BOOLEAN]
        /\ capture'.pc = "close" /\ capture'.tainted = capture.tainted
    BY <1>0, <2>1, <2>2, MoveCapture
  <2>4. reader' \in [pc : ReaderSteps, mute : BOOLEAN] /\ reader'.pc = "none"
    BY <1>0, <2>1, <2>2, MoveReader
  <2>5. SocketType' BY <1>2, <2>2, <2>3, <2>4 DEF ClientTypeOK, SocketType
  <2>6. FlagType' BY <1>2, Zenon DEF ClientTypeOK, FlagType
  <2>7. RecordType' BY <1>0, <2>1, <2>3, <2>4 DEF RecordType
  <2>8. RealtimeInv' BY <1>2, <2>3, <2>4 DEF RealtimeInv, SessionStages, ActiveCoversPlaying, EchoIsCovered, NeverHearsItself, ClosedIsClean,
     SessionSteps, Closing, Lowering
  <2> QED BY <2>5, <2>6, <2>7, <2>8 DEF ClientTypeOK
<1>3. CASE CloseSocket \/ StopDrains \/ StopTails \/ StopLowers
  <2>1. reader' = reader /\ call' = call BY <1>3
  <2>2. PICK pc \in {"drain", "lower", "tailing", "rest"} :
          /\ Capture(pc)
          /\ \/ CloseSocket /\ pc = IF playing THEN "drain" ELSE "lower"
             \/ StopDrains /\ pc = "tailing"
             \/ StopTails /\ pc = "lower"
             \/ StopLowers /\ pc = "rest"
    BY <1>3
  <2>3. pc \in CaptureSteps BY DEF CaptureSteps
  <2>4. /\ capture' \in [pc : CaptureSteps, tainted : BOOLEAN]
        /\ capture'.pc = pc /\ capture'.tainted = capture.tainted
    BY <1>0, <2>2, <2>3, MoveCapture
  <2>5. SocketType' BY <1>3, <2>1, <2>3, <2>4 DEF ClientTypeOK, SocketType
  <2>6. FlagType' BY <1>3, Zenon DEF ClientTypeOK, FlagType, EndStream, StartTail, LowerActive
  <2>7. RecordType' BY <1>0, <2>1, <2>4 DEF RecordType
  <2>8. RealtimeInv'
    <3>1. CASE CloseSocket /\ pc = IF playing THEN "drain" ELSE "lower"
      BY <2>1, <2>4, <3>1 DEF RealtimeInv, SessionStages, ActiveCoversPlaying, EchoIsCovered, NeverHearsItself, ClosedIsClean,
     SessionSteps, Closing, Lowering
    <3>2. CASE StopDrains /\ pc = "tailing"
      BY <2>1, <2>4, <3>2 DEF RealtimeInv, SessionStages, ActiveCoversPlaying, EchoIsCovered, NeverHearsItself, ClosedIsClean,
     SessionSteps, Closing, Lowering, EndStream
    <3>3. CASE StopTails /\ pc = "lower"
      BY <2>1, <2>4, <3>3 DEF RealtimeInv, SessionStages, ActiveCoversPlaying, EchoIsCovered, NeverHearsItself, ClosedIsClean,
     SessionSteps, Closing, Lowering, StartTail
    <3>4. CASE StopLowers /\ pc = "rest"
      BY <2>1, <2>4, <3>4 DEF RealtimeInv, SessionStages, ActiveCoversPlaying, EchoIsCovered, NeverHearsItself, ClosedIsClean,
     SessionSteps, Closing, Lowering, LowerActive
    <3> QED BY <2>2, <3>1, <3>2, <3>3, <3>4
  <2> QED BY <2>5, <2>6, <2>7, <2>8 DEF ClientTypeOK
<1> QED BY <1>1, <1>2, <1>3 DEF Stop

(* The reader raises the flag before it plays and lowers it after the tail *)
(* has begun; it ends only in a session that is over or broken.            *)
LEMMA ReaderMovesInv ==
  ASSUME ClientTypeOK, RealtimeInv,
         RaiseActive \/ WriteStream \/ ReaderDrains \/ ReaderTails \/ ReaderLowers \/ ReaderEnds
  PROVE  ClientTypeOK' /\ RealtimeInv'
<1> USE DEF RaiseActive, WriteStream, ReaderDrains, ReaderTails, ReaderLowers, ReaderEnds
<1>0. RecordType BY DEF ClientTypeOK
<1>1. CASE RaiseActive
  <2>1. Reader("write") /\ UNCHANGED <<capture, call, socketVars>> BY <1>1
  <2>2. "write" \in ReaderSteps BY DEF ReaderSteps
  <2>3. /\ reader' \in [pc : ReaderSteps, mute : BOOLEAN]
        /\ reader'.pc = "write" /\ reader'.mute = reader.mute
    BY <1>0, <2>1, <2>2, MoveReader
  <2>4. SocketType' BY <1>1, <2>1, <2>2, <2>3 DEF ClientTypeOK, SocketType
  <2>5. FlagType'
    <3>1. reader.mute \in BOOLEAN BY <1>0 DEF RecordType
    <3> QED BY <1>1, <3>1, Zenon DEF ClientTypeOK, FlagType
  <2>6. RecordType' BY <1>0, <2>1, <2>3 DEF RecordType
  <2>7. RealtimeInv' BY <1>1, <2>1, <2>3 DEF RealtimeInv, SessionStages, ActiveCoversPlaying, EchoIsCovered, NeverHearsItself, ClosedIsClean,
     SessionSteps, Closing, Lowering
  <2> QED BY <2>4, <2>5, <2>6, <2>7 DEF ClientTypeOK
<1>2. CASE WriteStream
  <2>1. Reader("recv") /\ UNCHANGED <<capture, call, socketVars>> BY <1>2
  <2>2. "recv" \in ReaderSteps BY DEF ReaderSteps
  <2>3. /\ reader' \in [pc : ReaderSteps, mute : BOOLEAN]
        /\ reader'.pc = "recv" /\ reader'.mute = reader.mute
    BY <1>0, <2>1, <2>2, MoveReader
  <2>4. SocketType' BY <1>2, <2>1, <2>2, <2>3 DEF ClientTypeOK, SocketType
  <2>5. FlagType'
    <3>1. reader.mute \in BOOLEAN BY <1>0 DEF RecordType
    <3> QED BY <1>2, <3>1, Zenon DEF ClientTypeOK, FlagType
  <2>6. RecordType' BY <1>0, <2>1, <2>3 DEF RecordType
  <2>7. RealtimeInv' BY <1>2, <2>1, <2>3 DEF RealtimeInv, SessionStages, ActiveCoversPlaying, EchoIsCovered, NeverHearsItself, ClosedIsClean,
     SessionSteps, Closing, Lowering
  <2> QED BY <2>4, <2>5, <2>6, <2>7 DEF ClientTypeOK
<1>3. CASE ReaderDrains
  <2>1. Reader("tailing") /\ UNCHANGED <<capture, call, socketVars>> BY <1>3
  <2>2. "tailing" \in ReaderSteps BY DEF ReaderSteps
  <2>3. /\ reader' \in [pc : ReaderSteps, mute : BOOLEAN]
        /\ reader'.pc = "tailing" /\ reader'.mute = reader.mute
    BY <1>0, <2>1, <2>2, MoveReader
  <2>4. SocketType' BY <1>3, <2>1, <2>2, <2>3 DEF ClientTypeOK, SocketType
  <2>5. FlagType'
    <3>1. reader.mute \in BOOLEAN BY <1>0 DEF RecordType
    <3> QED BY <1>3, <3>1, Zenon DEF ClientTypeOK, FlagType, EndStream
  <2>6. RecordType' BY <1>0, <2>1, <2>3 DEF RecordType
  <2>7. RealtimeInv' BY <1>3, <2>1, <2>3 DEF RealtimeInv, SessionStages, ActiveCoversPlaying, EchoIsCovered, NeverHearsItself, ClosedIsClean,
     SessionSteps, Closing, Lowering, EndStream
  <2> QED BY <2>4, <2>5, <2>6, <2>7 DEF ClientTypeOK
<1>4. CASE ReaderTails
  <2>1. Reader("lower") /\ UNCHANGED <<capture, call, socketVars>> BY <1>4
  <2>2. "lower" \in ReaderSteps BY DEF ReaderSteps
  <2>3. /\ reader' \in [pc : ReaderSteps, mute : BOOLEAN]
        /\ reader'.pc = "lower" /\ reader'.mute = reader.mute
    BY <1>0, <2>1, <2>2, MoveReader
  <2>4. SocketType' BY <1>4, <2>1, <2>2, <2>3 DEF ClientTypeOK, SocketType
  <2>5. FlagType'
    <3>1. reader.mute \in BOOLEAN BY <1>0 DEF RecordType
    <3> QED BY <1>4, <3>1, Zenon DEF ClientTypeOK, FlagType, StartTail
  <2>6. RecordType' BY <1>0, <2>1, <2>3 DEF RecordType
  <2>7. RealtimeInv' BY <1>4, <2>1, <2>3 DEF RealtimeInv, SessionStages, ActiveCoversPlaying, EchoIsCovered, NeverHearsItself, ClosedIsClean,
     SessionSteps, Closing, Lowering, StartTail
  <2> QED BY <2>4, <2>5, <2>6, <2>7 DEF ClientTypeOK
<1>5. CASE ReaderLowers
  <2>1. Reader("recv") /\ UNCHANGED <<capture, call, socketVars>> BY <1>5
  <2>2. "recv" \in ReaderSteps BY DEF ReaderSteps
  <2>3. /\ reader' \in [pc : ReaderSteps, mute : BOOLEAN]
        /\ reader'.pc = "recv" /\ reader'.mute = reader.mute
    BY <1>0, <2>1, <2>2, MoveReader
  <2>4. SocketType' BY <1>5, <2>1, <2>2, <2>3 DEF ClientTypeOK, SocketType
  <2>5. FlagType'
    <3>1. reader.mute \in BOOLEAN BY <1>0 DEF RecordType
    <3> QED BY <1>5, <3>1, Zenon DEF ClientTypeOK, FlagType, LowerActive
  <2>6. RecordType' BY <1>0, <2>1, <2>3 DEF RecordType
  <2>7. RealtimeInv' BY <1>5, <2>1, <2>3 DEF RealtimeInv, SessionStages, ActiveCoversPlaying, EchoIsCovered, NeverHearsItself, ClosedIsClean,
     SessionSteps, Closing, Lowering, LowerActive
  <2> QED BY <2>4, <2>5, <2>6, <2>7 DEF ClientTypeOK
<1>6. CASE ReaderEnds
  <2>1. Reader("ended") /\ UNCHANGED <<capture, call, socketVars>> BY <1>6
  <2>2. "ended" \in ReaderSteps BY DEF ReaderSteps
  <2>3. /\ reader' \in [pc : ReaderSteps, mute : BOOLEAN]
        /\ reader'.pc = "ended" /\ reader'.mute = reader.mute
    BY <1>0, <2>1, <2>2, MoveReader
  <2>4. SocketType' BY <1>6, <2>1, <2>2, <2>3 DEF ClientTypeOK, SocketType
  <2>5. FlagType'
    <3>1. reader.mute \in BOOLEAN BY <1>0 DEF RecordType
    <3> QED BY <1>6, <3>1, Zenon DEF ClientTypeOK, FlagType
  <2>6. RecordType' BY <1>0, <2>1, <2>3 DEF RecordType
  <2>7. RealtimeInv' BY <1>6, <2>1, <2>3 DEF RealtimeInv, SessionStages, ActiveCoversPlaying, EchoIsCovered, NeverHearsItself, ClosedIsClean,
     SessionSteps, Closing, Lowering
  <2> QED BY <2>4, <2>5, <2>6, <2>7 DEF ClientTypeOK
<1> QED BY <1>1, <1>2, <1>3, <1>4, <1>5, <1>6

(* A frame received starts the work it calls for, whatever the state of    *)
(* the playback.                                                           *)
LEMMA ReceiveInv ==
  ASSUME ClientTypeOK, RealtimeInv,
         \/ ReceiveAudio \/ ReceiveInterrupted \/ ReceiveTurnComplete
         \/ ReceiveToolCall \/ ReceiveTranscript
  PROVE  ClientTypeOK' /\ RealtimeInv'
<1>0. /\ RecordType /\ Receive
      /\ UNCHANGED <<socketVars, active, tail, room, capture>>
  BY DEF ClientTypeOK, ReceiveAudio, ReceiveInterrupted, ReceiveTurnComplete, ReceiveTurnEnd,
     ReceiveToolCall, ReceiveTranscript
<1>1. frames' \in 0..MaxFrames BY <1>0, RealtimeAssumption DEF RealtimeAssumption, ClientTypeOK, SocketType, Receive
<1>2. reader.pc = "recv" BY <1>0 DEF Receive
<1>3. FlagType'
  <2>1. CASE ReceiveAudio BY <2>1, <1>0, Zenon DEF ClientTypeOK, FlagType, ReceiveAudio
  <2>2. CASE ReceiveInterrupted BY <2>2, <1>0, Zenon DEF ClientTypeOK, FlagType, ReceiveInterrupted, ReceiveTurnEnd
  <2>3. CASE ReceiveTurnComplete BY <2>3, <1>0, Zenon DEF ClientTypeOK, FlagType, ReceiveTurnComplete, ReceiveTurnEnd
  <2>4. CASE ReceiveToolCall BY <2>4, <1>0, Zenon DEF ClientTypeOK, FlagType, ReceiveToolCall
  <2>5. CASE ReceiveTranscript BY <2>5, <1>0, Zenon DEF ClientTypeOK, FlagType, ReceiveTranscript
  <2> QED BY <2>1, <2>2, <2>3, <2>4, <2>5
<1>4. /\ reader' \in [pc : ReaderSteps, mute : BOOLEAN]
      /\ \/ reader' = reader /\ playing' = playing
         \/ reader'.pc = "write" /\ playing /\ playing' = playing
         \/ reader'.pc = "raise" /\ playing'
         \/ reader'.pc = (IF playing THEN "drain" ELSE "lower") /\ playing' = playing
  <2>1. CASE ReceiveAudio
    <3>1. "write" \in ReaderSteps /\ "raise" \in ReaderSteps BY DEF ReaderSteps
    <3>2. CASE Reader("write") BY <1>0, <3>1, <3>2, <2>1, <1>2, MoveReader DEF ReceiveAudio
    <3>3. CASE Reader("raise") BY <1>0, <3>1, <3>3, <2>1, MoveReader DEF ReceiveAudio
    <3>4. CASE reader' = reader /\ playing' = playing BY <1>0, <3>4 DEF RecordType
    <3>5. \/ Reader("write") /\ playing /\ playing' = playing
          \/ Reader("raise") /\ playing'
          \/ reader' = reader /\ playing' = playing
      BY <2>1 DEF ReceiveAudio
    <3>6. CASE Reader("write") /\ playing /\ playing' = playing
      BY <3>1, <3>6, <1>0, MoveReader
    <3>7. CASE Reader("raise") /\ playing'
      BY <3>1, <3>7, <1>0, MoveReader
    <3> QED BY <3>4, <3>5, <3>6, <3>7
  <2>2. ASSUME NEW mute \in BOOLEAN, ReceiveTurnEnd(mute)
        PROVE  /\ reader' \in [pc : ReaderSteps, mute : BOOLEAN]
               /\ reader'.pc = (IF playing THEN "drain" ELSE "lower") /\ playing' = playing
    <3>1. reader' = [pc |-> IF playing THEN "drain" ELSE "lower", mute |-> mute] /\ playing' = playing
      BY <2>2, Zenon DEF ReceiveTurnEnd
    <3>2. (IF playing THEN "drain" ELSE "lower") \in ReaderSteps BY DEF ReaderSteps
    <3> QED BY <3>1, <3>2
  <2>3. CASE ReceiveInterrupted BY <2>2, <2>3 DEF ReceiveInterrupted
  <2>4. CASE ReceiveTurnComplete BY <2>2, <2>4 DEF ReceiveTurnComplete
  <2>5. CASE ReceiveToolCall \/ ReceiveTranscript
    BY <1>0, <2>5 DEF ReceiveToolCall, ReceiveTranscript, RecordType
  <2> QED BY <2>1, <2>3, <2>4, <2>5
<1>5. SocketType'
  <2>1. reader'.pc \in ReaderSteps BY <1>4
  <2> QED BY <1>0, <1>1, <2>1 DEF ClientTypeOK, SocketType
<1>6. call' \in [Calls -> CallStates]
  <2>1. CASE ReceiveToolCall
    <3>1. PICK c \in Calls : call' = [call EXCEPT ![c] = [pc |-> "run", session |-> session]]
      BY <2>1 DEF ReceiveToolCall
    <3>2. [pc |-> "run", session |-> session] \in CallStates
      BY DEF ClientTypeOK, SocketType, CallStates
    <3>3. call \in [Calls -> CallStates] BY Zenon, <1>0 DEF RecordType
    <3> QED BY <3>1, <3>2, <3>3
  <2>2. CASE ~ReceiveToolCall
    <3>1. call' = call
      BY <2>2 DEF ReceiveAudio, ReceiveInterrupted, ReceiveTurnComplete, ReceiveTurnEnd, ReceiveTranscript
    <3> QED BY <3>1, <1>0 DEF RecordType
  <2> QED BY <2>1, <2>2
<1>7. RecordType' BY <1>0, <1>4, <1>6 DEF RecordType
<1>8. RealtimeInv' BY <1>0, <1>2, <1>4 DEF RealtimeInv, SessionStages, ActiveCoversPlaying, EchoIsCovered, NeverHearsItself, ClosedIsClean,
     SessionSteps, Closing, Lowering
<1> QED BY <1>3, <1>5, <1>7, <1>8 DEF ClientTypeOK

(* Tool threads touch nothing the invariant speaks of.                     *)
LEMMA ToolInv ==
  ASSUME ClientTypeOK, RealtimeInv, NEW c \in Calls, ToolStep(c) PROVE ClientTypeOK' /\ RealtimeInv'
<1>1. UNCHANGED <<socketVars, idle, soundVars, reader, capture, frames>>
  BY DEF ToolStep, ToolEnds, ToolExits
<1>2. call' \in [Calls -> CallStates]
  <2>1. call \in [Calls -> CallStates] BY Zenon DEF ClientTypeOK, RecordType
  <2>2. CASE ToolEnds(c) BY <2>1, <2>2 DEF ToolEnds, CallStates
  <2>3. CASE ToolExits(c)
    <3>1. [pc |-> "none", session |-> 0] \in CallStates
      BY RealtimeAssumption DEF RealtimeAssumption, CallStates
    <3> QED BY <2>1, <2>3, <3>1 DEF ToolExits
  <2> QED BY <2>2, <2>3 DEF ToolStep
<1>3. SocketType' BY <1>1 DEF ClientTypeOK, SocketType
<1>4. FlagType' BY <1>1, Zenon DEF ClientTypeOK, FlagType
<1>5. RecordType' BY <1>1, <1>2 DEF ClientTypeOK, RecordType
<1>6. RealtimeInv' BY <1>1 DEF RealtimeInv, SessionStages, ActiveCoversPlaying, EchoIsCovered, NeverHearsItself, ClosedIsClean,
     SessionSteps, Closing, Lowering
<1> QED BY <1>3, <1>4, <1>5, <1>6 DEF ClientTypeOK

(* The sidecar may go, the clock run and the room become quiet at any time.*)
LEMMA ClientWorldInv ==
  ASSUME ClientTypeOK, RealtimeInv, PeerCloses \/ GoesIdle \/ RoomQuiets \/ TailPasses
  PROVE  ClientTypeOK' /\ RealtimeInv'
<1> USE DEF PeerCloses, GoesIdle, RoomQuiets, TailPasses
<1>1. UNCHANGED <<online, session, socket, playing, active, muted, reader, capture, call, frames>>
  OBVIOUS
<1>2. SocketType' BY <1>1 DEF ClientTypeOK, SocketType
<1>3. FlagType' BY Zenon DEF ClientTypeOK, FlagType
<1>4. RecordType' BY <1>1 DEF ClientTypeOK, RecordType
<1>5. RealtimeInv'
  <2>1. CASE PeerCloses \/ GoesIdle BY <1>1, <2>1 DEF RealtimeInv, SessionStages, ActiveCoversPlaying, EchoIsCovered, NeverHearsItself, ClosedIsClean,
     SessionSteps, Closing, Lowering
  <2>2. CASE RoomQuiets BY <1>1, <2>2 DEF RealtimeInv, SessionStages, ActiveCoversPlaying, EchoIsCovered, NeverHearsItself, ClosedIsClean,
     SessionSteps, Closing, Lowering
  <2>3. CASE TailPasses BY <1>1, <2>3 DEF RealtimeInv, SessionStages, ActiveCoversPlaying, EchoIsCovered, NeverHearsItself, ClosedIsClean,
     SessionSteps, Closing, Lowering
  <2> QED BY <2>1, <2>2, <2>3
<1> QED BY <1>2, <1>3, <1>4, <1>5 DEF ClientTypeOK

-----------------------------------------------------------------------------
(* The inductive invariant holds in every reachable state, however the     *)
(* capture thread, the reader, the tools and the sidecar interleave.       *)
LEMMA ClientInductive == ClientSpec => [](ClientTypeOK /\ RealtimeInv)
<1>1. ClientInit => ClientTypeOK /\ RealtimeInv BY ClientInitInv
<1>2. ClientTypeOK /\ RealtimeInv /\ [ClientNext]_clientVars => (ClientTypeOK /\ RealtimeInv)'
  <2> SUFFICES ASSUME ClientTypeOK, RealtimeInv, [ClientNext]_clientVars PROVE ClientTypeOK' /\ RealtimeInv'
    OBVIOUS
  <2>1. CASE Start BY <2>1, StartInv
  <2>2. CASE CaptureStep BY <2>2, ChunkInv, StopInv DEF CaptureStep
  <2>3. CASE ReaderStep BY <2>3, ReaderMovesInv, ReceiveInv DEF ReaderStep
  <2>4. CASE \E c \in Calls : ToolStep(c) BY <2>4, ToolInv
  <2>5. CASE PeerCloses \/ GoesIdle \/ RoomQuiets \/ TailPasses BY <2>5, ClientWorldInv
  <2>6. CASE UNCHANGED clientVars
    <3>1. SocketType' BY <2>6 DEF clientVars, ClientTypeOK, SocketType
    <3>2. FlagType' BY <2>6, Zenon DEF clientVars, ClientTypeOK, FlagType
    <3>3. RecordType' BY <2>6 DEF clientVars, ClientTypeOK, RecordType
    <3>4. RealtimeInv' BY <2>6 DEF RealtimeInv, SessionStages, ActiveCoversPlaying, EchoIsCovered, NeverHearsItself, ClosedIsClean,
     SessionSteps, Closing, Lowering, clientVars
    <3> QED BY <3>1, <3>2, <3>3, <3>4 DEF ClientTypeOK
  <2> QED BY <2>1, <2>2, <2>3, <2>4, <2>5, <2>6 DEF ClientNext
<1> QED BY <1>1, <1>2, PTL DEF ClientSpec

(* The session's state is well-typed in every reachable state.             *)
THEOREM ClientTypeSafety == ClientSpec => []ClientTypeOK
BY ClientInductive, PTL

(* No chunk in which the reply sounds is ever sent to the model.           *)
THEOREM NeverHearsItselfHolds == ClientSpec => []NeverHearsItself
<1>1. RealtimeInv => NeverHearsItself BY DEF RealtimeInv
<1> QED BY <1>1, ClientInductive, PTL

(* A closed session leaves no socket, reader, stream or raised flag.       *)
THEOREM ClosedIsCleanHolds == ClientSpec => []ClosedIsClean
<1>1. RealtimeInv => ClosedIsClean BY DEF RealtimeInv
<1> QED BY <1>1, ClientInductive, PTL

(* The inductive invariant that the run checks holds for every value of    *)
(* the constants.                                                          *)
THEOREM ClientInvariant == ClientSpec => []ClientInv
<1>1. ClientTypeOK /\ RealtimeInv => ClientInv BY DEF ClientInv
<1> QED BY <1>1, ClientInductive, PTL

HIDE DEF socketVars, soundVars, CaptureFrame, ReaderFrame, World
=============================================================================
