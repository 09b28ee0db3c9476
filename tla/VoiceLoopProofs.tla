--------------------------- MODULE VoiceLoopProofs ---------------------------
(***************************************************************************)
(* Proofs about VoiceLoop for any number of turn threads and any bounds:   *)
(* the type invariant, the inductive invariant VoiceInv and the safety     *)
(* properties that follow from it.                                         *)
(***************************************************************************)
EXTENDS VoiceLoop, TLAPS

USE DEF captureVars, sessionVars, speechVars, turnVars

(* A loop that has just started is well-typed and satisfies the invariant. *)
LEMMA InitInv == Init => TypeOK /\ VoiceInv
<1> SUFFICES ASSUME Init PROVE TypeOK /\ VoiceInv
  OBVIOUS
<1> USE DEF Init
<1>1. FlagType BY Zenon DEF FlagType
<1>2. CaptureType BY VoiceAssumption DEF VoiceAssumption, CaptureType
<1>3. SpeakerType
  <2>1. speaker \in Speakers BY Zenon DEF Speakers
  <2> QED BY <2>1, VoiceAssumption DEF VoiceAssumption, SpeakerType
<1>4. turn \in [Turns -> TurnStates]
  <2>1. NoTurn \in TurnStates BY DEF NoTurn, TurnStates
  <2> QED BY <2>1
<1>5. \A t \in Turns : turn[t].pc = "none"
  BY DEF NoTurn
<1>6. VoiceInv
  BY <1>5 DEF VoiceInv, BusyIsOneTurn, OnlyAddressedSpeech, SessionExcludesTurns, MicMatchesSession, AgentHasTurn,
          DuckIsRemembered, SpeakingCoversLine, Active
<1> QED BY <1>1, <1>2, <1>3, <1>4, <1>6 DEF TypeOK

(* The capture thread keeps the types.                                     *)
LEMMA MicType ==
  ASSUME TypeOK, Mic PROVE TypeOK'
<1> USE VoiceAssumption DEF VoiceAssumption, TypeOK
<1>1. FlagType'
  <2> USE DEF FlagType
  <2>1. CASE SendToSession \/ CheckIdleTime \/ TakeChunk
    BY <2>1, Zenon DEF SendToSession, CheckIdleTime, TakeChunk
  <2>6. CASE CloseBegins \/ CloseEnds BY <2>6, Zenon DEF CloseBegins, CloseEnds
  <2>2. CASE WakeChunk BY <2>2, Zenon DEF WakeChunk, ChunkFrame, StartRealtime
  <2>3. CASE SpeechChunk BY <2>3, Zenon DEF SpeechChunk, ChunkFrame
  <2>4. CASE IgnoredChunk \/ CollectChunk BY <2>4, Zenon DEF IgnoredChunk, CollectChunk, ChunkFrame
  <2>5. CASE Endpoint BY <2>5, Zenon DEF Endpoint, ChunkFrame
  <2> QED BY <2>1, <2>2, <2>3, <2>4, <2>5, <2>6, Zenon DEF Mic
<1>2. SpeakerType' BY Zenon DEF SpeakerType, Mic, SendToSession, CheckIdleTime, TakeChunk, CloseBegins, CloseEnds,
    WakeChunk, SpeechChunk, IgnoredChunk, CollectChunk, Endpoint, ChunkFrame
<1>3. CaptureType'
  <2> USE DEF CaptureType, ChunkFrame
  <2>1. CASE SendToSession \/ CheckIdleTime \/ TakeChunk
    BY <2>1 DEF SendToSession, CheckIdleTime, TakeChunk
  <2>2. CASE CloseBegins \/ CloseEnds BY <2>2 DEF CloseBegins, CloseEnds
  <2>3. CASE WakeChunk BY <2>3 DEF WakeChunk, StartRealtime, BeginCapture
  <2>4. CASE SpeechChunk BY <2>4 DEF SpeechChunk, BeginCapture
  <2>5. CASE IgnoredChunk \/ CollectChunk \/ Endpoint BY <2>5 DEF IgnoredChunk, CollectChunk, Endpoint
  <2> QED BY <2>1, <2>2, <2>3, <2>4, <2>5 DEF Mic
<1>4. turn' \in [Turns -> TurnStates]
  <2>1. CASE Endpoint
    <3>1. \A b, c \in BOOLEAN : [NoTurn EXCEPT !.pc = "recognize", !.wake = b, !.follow = c] \in TurnStates
      BY DEF NoTurn, TurnStates
    <3> QED BY <2>1, <3>1, Zenon DEF Endpoint, FlagType
  <2>2. CASE UNCHANGED turn BY <2>2
  <2> QED BY <2>1, <2>2, Zenon DEF Mic, SendToSession, CheckIdleTime, TakeChunk, CloseBegins, CloseEnds,
    WakeChunk, SpeechChunk, IgnoredChunk, CollectChunk, ChunkFrame
<1> QED BY <1>1, <1>2, <1>3, <1>4

(* What a turn thread may assign to its record has the type of turns.      *)
LEMMA TurnValues ==
  ASSUME turn \in [Turns -> TurnStates], NEW t \in Turns
  PROVE  /\ \A pc \in {"none", "send", "lost", "agent", "flag", "say", "rest", "awaken"} :
              Turn(t, pc) => turn' \in [Turns -> TurnStates]
         /\ \A w \in BOOLEAN : Answer(t, w) => turn' \in [Turns -> TurnStates]
         /\ turn' = [turn EXCEPT ![t] = NoTurn] => turn' \in [Turns -> TurnStates]
<1>1. ASSUME NEW pc \in {"none", "send", "lost", "agent", "flag", "say", "rest", "awaken"}, Turn(t, pc)
      PROVE  turn' \in [Turns -> TurnStates]
  BY <1>1 DEF Turn, TurnStates
<1>2. ASSUME NEW w \in BOOLEAN, Answer(t, w) PROVE turn' \in [Turns -> TurnStates]
  BY <1>2 DEF Answer, TurnStates
<1>3. NoTurn \in TurnStates BY DEF NoTurn, TurnStates
<1> QED BY <1>1, <1>2, <1>3

(* Queueing a line keeps the number of lines within its bound.             *)
LEMMA SpeakValues ==
  ASSUME SpeakerType, Speak \/ SpeakAnswer PROVE speech' \in 0..MaxLines
BY VoiceAssumption DEF VoiceAssumption, SpeakerType, Speak, SpeakAnswer, SpeakWithin

(* A turn thread keeps the types.                                          *)
LEMMA TurnType ==
  ASSUME TypeOK, NEW t \in Turns, TurnStep(t) PROVE TypeOK'
<1> USE DEF TypeOK, TurnStep, TurnFrame
<1>1. FlagType'
  <2> USE DEF FlagType
  <2>1. CASE Recognized(t) BY <2>1, Zenon DEF Recognized
  <2>2. CASE Send(t) BY <2>2, Zenon DEF Send
  <2>3. CASE NotifyToolStarted(t) BY <2>3, Zenon DEF NotifyToolStarted
  <2>4. CASE AgentDone(t) BY <2>4, Zenon DEF AgentDone
  <2>5. CASE RaiseSpeaking(t) \/ Say(t) BY <2>5, Zenon DEF RaiseSpeaking, Say
  <2>6. CASE TurnEnds(t) BY <2>6, Zenon DEF TurnEnds
  <2> QED BY <2>1, <2>2, <2>3, <2>4, <2>5, <2>6, Zenon
<1>2. CaptureType'
  <2>1. CASE TurnEnds(t) BY <2>1 DEF CaptureType, TurnEnds
  <2>2. CASE ~TurnEnds(t)
    <3>1. UNCHANGED <<state, onset, captured, mic, session, musicVolume, duckedVolume>>
      BY <2>2, Zenon DEF Recognized, Send, NotifyToolStarted, AgentDone, RaiseSpeaking, Say
    <3> QED BY <3>1 DEF CaptureType
  <2> QED BY <2>1, <2>2
<1>3. SpeakerType'
  BY SpeakValues DEF SpeakerType, Recognized, Send, NotifyToolStarted, AgentDone, RaiseSpeaking, Say, TurnEnds
<1>4. turn' \in [Turns -> TurnStates]
  BY TurnValues, Zenon DEF Recognized, Send, NotifyToolStarted, AgentDone, RaiseSpeaking, Say, TurnEnds
<1> QED BY <1>1, <1>2, <1>3, <1>4

(* The speaker thread, notices, the clock, the session and Stop keep the   *)
(* types.                                                                  *)
LEMMA OtherType ==
  ASSUME TypeOK, SpeakerStep \/ SpeakNotice \/ AwakeExpires \/ AssistantSpeaks \/ Stop \/ UNCHANGED vars
  PROVE  TypeOK'
<1> USE DEF TypeOK, SpeakerStep, SpeakerFrame, World, StopFrame, Stop, vars
<1>1. FlagType'
  <2> USE DEF FlagType
  <2>1. CASE SpeakerStep
    <3>1. CASE SpeakerPop BY <3>1, Zenon DEF SpeakerPop
    <3>2. CASE SpeakerFindsGap \/ YieldCapReached BY <3>2, Zenon DEF SpeakerFindsGap, YieldCapReached
    <3>3. CASE Synthesize \/ PlayEnds BY <3>3, Zenon DEF Synthesize, PlayEnds
    <3>4. CASE LowerSpeaking BY <3>4, Zenon DEF LowerSpeaking
    <3> QED BY <2>1, <3>1, <3>2, <3>3, <3>4, Zenon
  <2>2. CASE SpeakNotice \/ AwakeExpires \/ UNCHANGED vars
    BY <2>2, Zenon DEF SpeakNotice, AwakeExpires
  <2>3. CASE AssistantSpeaks
    <3>1. (~assistant) \in BOOLEAN BY Zenon
    <3> QED BY <2>3, <3>1, Zenon DEF AssistantSpeaks
  <2>4. CASE Stop
    <3>1. CASE StopBegins \/ JoinMic BY <3>1, Zenon DEF StopBegins, JoinMic
    <3>2. CASE StopSession \/ JoinSpeakerAndRelease BY <3>2, Zenon DEF StopSession, JoinSpeakerAndRelease
    <3> QED BY <2>4, <3>1, <3>2, Zenon
  <2> QED BY <2>1, <2>2, <2>3, <2>4
<1>2. CaptureType'
  BY DEF CaptureType, SpeakerPop, SpeakerFindsGap, YieldCapReached, Synthesize, PlayEnds, LowerSpeaking,
     SpeakNotice, AwakeExpires, AssistantSpeaks, StopBegins, JoinMic, StopSession, JoinSpeakerAndRelease
<1>3. SpeakerType'
  <2>1. CASE SpeakerStep
    <3>1. speaker' \in Speakers
      <4>1. ASSUME NEW pc \in {"wait", "yield", "synth", "play", "done", "off"}, Speaker(pc) PROVE speaker' \in Speakers
        BY <4>1 DEF Speaker, SpeakerType, Speakers
      <4>2. CASE SpeakerPop
        BY <4>1, <4>2, Zenon DEF SpeakerPop
      <4> QED BY <2>1, <4>1, <4>2, Zenon DEF SpeakerFindsGap, YieldCapReached, Synthesize, PlayEnds,
                 LowerSpeaking
    <3>2. UNCHANGED stop BY <2>1, Zenon DEF SpeakerPop, SpeakerFindsGap, YieldCapReached, Synthesize, PlayEnds,
            LowerSpeaking
    <3>3. UNCHANGED speech \/ (speech > 0 /\ speech' = speech - 1)
      <4>1. CASE SpeakerPop
        <5>1. UNCHANGED speech \/ (speech > 0 /\ speech' = speech - 1)
          BY <4>1, Zenon DEF SpeakerPop
        <5> QED BY <5>1
      <4>2. CASE ~SpeakerPop
        BY <2>1, <4>2, Zenon DEF SpeakerFindsGap, YieldCapReached, Synthesize, PlayEnds, LowerSpeaking
      <4> QED BY <4>1, <4>2
    <3> QED BY <3>1, <3>2, <3>3, VoiceAssumption DEF SpeakerType, VoiceAssumption
  <2>2. CASE SpeakNotice
    BY <2>2, SpeakValues DEF SpeakNotice, SpeakerType
  <2>3. CASE AwakeExpires \/ AssistantSpeaks \/ Stop \/ UNCHANGED vars
    BY <2>3 DEF AwakeExpires, AssistantSpeaks, StopBegins, JoinMic, StopSession, JoinSpeakerAndRelease, SpeakerType
  <2> QED BY <2>1, <2>2, <2>3
<1>4. UNCHANGED turn
  BY Zenon DEF SpeakerPop, SpeakerFindsGap, YieldCapReached, Synthesize, PlayEnds, LowerSpeaking,
     SpeakNotice, AwakeExpires, AssistantSpeaks, StopBegins, JoinMic, StopSession, JoinSpeakerAndRelease
<1> QED BY <1>1, <1>2, <1>3, <1>4

(* The capture thread preserves the invariant: only the endpoint makes a turn *)
(* active, and only the closing of a session moves the volume back.           *)
LEMMA MicInv ==
  ASSUME TypeOK, VoiceInv, Mic PROVE VoiceInv'
<1> USE DEF VoiceInv
<1>0. SpeakingCoversLine'
  BY Zenon DEF SpeakingCoversLine, Mic, SendToSession, CheckIdleTime, TakeChunk, CloseBegins, CloseEnds, WakeChunk,
     SpeechChunk, IgnoredChunk, CollectChunk, Endpoint, ChunkFrame
<1>1. CASE UNCHANGED <<running, captureVars, sessionVars, speechVars, turnVars, stop>>
           /\ (SendToSession \/ CheckIdleTime \/ TakeChunk)
  <2>1. BusyIsOneTurn' /\ OnlyAddressedSpeech' /\ SessionExcludesTurns' /\ AgentHasTurn' /\ DuckIsRemembered'
    BY <1>1 DEF BusyIsOneTurn, OnlyAddressedSpeech, SessionExcludesTurns, AgentHasTurn, DuckIsRemembered, Active
  <2>2. MicMatchesSession'
    BY <1>1 DEF MicMatchesSession, SendToSession, CheckIdleTime, TakeChunk, Live, TypeOK, CaptureType
  <2> QED BY <1>0, <2>1, <2>2
<1>2. CASE CloseBegins
  BY <1>0, <1>2 DEF CloseBegins, BusyIsOneTurn, OnlyAddressedSpeech, SessionExcludesTurns, AgentHasTurn, DuckIsRemembered,
              MicMatchesSession, Active
<1>3. CASE CloseEnds
  BY <1>0, <1>3 DEF CloseEnds, BusyIsOneTurn, OnlyAddressedSpeech, SessionExcludesTurns, AgentHasTurn, DuckIsRemembered,
              MicMatchesSession, Active
<1>4. CASE WakeChunk
  <2>1. /\ state = "Idle" /\ mic = "chunk" /\ mic' = "wait"
        /\ UNCHANGED <<running, stop, turn, convBusy, followupLatched>>
    BY <1>4, Zenon DEF WakeChunk, ChunkFrame
  <2>2. CASE StartRealtime /\ UNCHANGED <<state, wakeLatched>>
    <3>1. session = "off" /\ session' = "live" BY <2>2 DEF StartRealtime
    <3>2. BusyIsOneTurn' /\ OnlyAddressedSpeech' /\ SessionExcludesTurns' /\ AgentHasTurn'
      BY <2>1, <2>2, <3>1 DEF BusyIsOneTurn, OnlyAddressedSpeech, SessionExcludesTurns, AgentHasTurn, Active
    <3>3. MicMatchesSession' BY <2>1, <3>1 DEF MicMatchesSession
    <3>4. DuckIsRemembered' BY <2>1, <2>2, <3>1 DEF DuckIsRemembered, StartRealtime, MicMatchesSession
    <3> QED BY <1>0, <3>2, <3>3, <3>4
  <2>3. CASE wakeLatched' = TRUE /\ state' = "Collecting" /\ UNCHANGED sessionVars
    BY <1>0, <2>1, <2>3 DEF BusyIsOneTurn, OnlyAddressedSpeech, SessionExcludesTurns, AgentHasTurn,
       DuckIsRemembered, MicMatchesSession, Active
  <2> QED BY <1>4, <2>2, <2>3, Zenon DEF WakeChunk, BeginCapture
<1>5. CASE SpeechChunk
  BY <1>0, <1>5 DEF SpeechChunk, ChunkFrame, BeginCapture, BusyIsOneTurn, OnlyAddressedSpeech,
              SessionExcludesTurns, AgentHasTurn, DuckIsRemembered, MicMatchesSession, Active
<1>6. CASE IgnoredChunk \/ CollectChunk
  BY <1>0, <1>6 DEF IgnoredChunk, CollectChunk, ChunkFrame, BusyIsOneTurn, OnlyAddressedSpeech,
              SessionExcludesTurns, AgentHasTurn, DuckIsRemembered, MicMatchesSession, Active
<1>7. CASE Endpoint
  <2>1. PICK t \in Turns :
          /\ turn[t].pc = "none"
          /\ turn' = [turn EXCEPT ![t] = [NoTurn EXCEPT !.pc = "recognize", !.wake = wakeLatched,
                                                        !.follow = followupLatched]]
    BY <1>7, Zenon DEF Endpoint
  <2>2. /\ turn'[t].pc = "recognize" /\ turn'[t].wake = wakeLatched /\ turn'[t].follow = followupLatched
        /\ \A u \in Turns \ {t} : turn'[u] = turn[u]
    BY <2>1 DEF TypeOK, NoTurn
  <2>3. UNCHANGED <<running, convBusy, stop, session, musicVolume, duckedVolume>> /\ mic' = "wait" /\ mic = "chunk"
        /\ state = "Collecting" /\ state' = "Busy" /\ ~wakeLatched' /\ ~followupLatched'
    BY <1>7, Zenon DEF Endpoint, ChunkFrame
  <2>4. BusyIsOneTurn' BY <2>2, <2>3 DEF BusyIsOneTurn, Active
  <2>5. OnlyAddressedSpeech' BY <2>2, <2>3 DEF OnlyAddressedSpeech, BusyIsOneTurn, Active
  <2>6. AgentHasTurn' BY <2>1, <2>2, <2>3 DEF AgentHasTurn
  <2>7. SessionExcludesTurns' /\ MicMatchesSession' /\ DuckIsRemembered'
    BY <2>3 DEF SessionExcludesTurns, MicMatchesSession, DuckIsRemembered
  <2> QED BY <1>0, <2>4, <2>5, <2>6, <2>7
<1> QED
  BY <1>1, <1>2, <1>3, <1>4, <1>5, <1>6, <1>7, Zenon DEF Mic, SendToSession, CheckIdleTime, TakeChunk

(* A turn thread preserves it: there is one such thread, it alone calls the *)
(* agent, and it frees the state machine only when it has ended.            *)
LEMMA TurnInv ==
  ASSUME TypeOK, VoiceInv, NEW t \in Turns, TurnStep(t) PROVE VoiceInv'
<1> USE DEF VoiceInv
<1>1. Active(t)
  BY DEF TurnStep, Recognized, Send, NotifyToolStarted, AgentDone, RaiseSpeaking, Say, TurnEnds, Active
<1>2. UNCHANGED <<running, mic, session, musicVolume, duckedVolume, stop, wakeLatched, followupLatched>>
  BY Zenon DEF TurnStep, TurnFrame, Recognized, Send, NotifyToolStarted, AgentDone, RaiseSpeaking, Say, TurnEnds
<1>3. /\ state' = IF TurnEnds(t) THEN "Idle" ELSE state
      /\ \A u \in Turns \ {t} : turn'[u] = turn[u]
      /\ ~TurnEnds(t) => turn'[t].pc # "none" /\ turn'[t].wake = turn[t].wake /\ turn'[t].follow = turn[t].follow
      /\ TurnEnds(t) => turn'[t].pc = "none"
  <2> turn \in [Turns -> TurnStates] BY DEF TypeOK
  <2>1. CASE TurnEnds(t)
    BY <2>1 DEF TurnEnds, NoTurn
  <2>2. CASE ~TurnEnds(t)
    <3>1. UNCHANGED state
      BY <2>2, Zenon DEF TurnStep, Recognized, Send, NotifyToolStarted, AgentDone, RaiseSpeaking, Say
    <3>2. \/ \E pc \in {"send", "lost", "agent", "say", "rest", "awaken"} : Turn(t, pc)
          \/ \E w \in BOOLEAN : Answer(t, w)
          \/ UNCHANGED turn
      BY <2>2, Zenon DEF TurnStep, Recognized, Send, NotifyToolStarted, AgentDone, RaiseSpeaking, Say
    <3> QED BY <1>1, <2>2, <3>1, <3>2 DEF Turn, Answer, TurnStates, Active
  <2> QED BY <2>1, <2>2
<1>4. BusyIsOneTurn' /\ OnlyAddressedSpeech'
  BY <1>1, <1>2, <1>3 DEF BusyIsOneTurn, OnlyAddressedSpeech, Active
<1>5. SessionExcludesTurns' /\ MicMatchesSession' /\ DuckIsRemembered'
  BY <1>2, <1>3 DEF SessionExcludesTurns, MicMatchesSession, DuckIsRemembered
<1>6. AgentHasTurn'
  <2> turn \in [Turns -> TurnStates] BY DEF TypeOK
  <2>1. CASE Send(t)
    <3>1. ~convBusy BY <2>1, <1>1 DEF Send, AgentHasTurn, BusyIsOneTurn, Active
    <3>2. convBusy' = TRUE /\ Turn(t, "agent") BY <2>1, <3>1, Zenon DEF Send
    <3>3. turn'[t].pc = "agent" BY <3>2 DEF Turn, TurnStates
    <3> QED BY <1>3, <3>2, <3>3, <2>1 DEF AgentHasTurn
  <2>2. CASE AgentDone(t)
    <3>1. convBusy' = FALSE /\ turn[t].pc = "agent" /\ Answer(t, TRUE) BY <2>2, Zenon DEF AgentDone
    <3>2. turn'[t].pc = "flag" BY <3>1 DEF Answer, TurnStates
    <3> QED BY <1>1, <1>3, <3>1, <3>2 DEF AgentHasTurn, BusyIsOneTurn, Active
  <2>3. CASE ~Send(t) /\ ~AgentDone(t)
    <3>1. UNCHANGED convBusy
      BY <2>3, Zenon DEF TurnStep, Recognized, NotifyToolStarted, RaiseSpeaking, Say, TurnEnds
    <3>2. turn'[t].pc = turn[t].pc \/ (turn[t].pc # "agent" /\ turn'[t].pc \notin {"agent", "lost"})
      <4>1. CASE TurnEnds(t) BY <4>1 DEF TurnEnds, NoTurn
      <4>2. CASE ~TurnEnds(t)
        <5>1. \/ turn[t].pc # "agent" /\ \E pc \in {"send", "say", "rest", "awaken"} : Turn(t, pc)
              \/ turn[t].pc # "agent" /\ \E w \in BOOLEAN : Answer(t, w)
              \/ UNCHANGED turn
          <6>1. CASE Recognized(t)
            BY <6>1 DEF Recognized, Turn, Answer
          <6> QED BY <2>3, <4>2, <6>1 DEF TurnStep, NotifyToolStarted, RaiseSpeaking, Say, Turn, Answer
        <5> QED BY <5>1 DEF Turn, Answer, TurnStates
      <4> QED BY <4>1, <4>2
    <3> QED BY <1>1, <1>3, <3>1, <3>2 DEF AgentHasTurn
  <2> QED BY <2>1, <2>2, <2>3
<1>7. SpeakingCoversLine'
  BY Zenon DEF SpeakingCoversLine, TurnStep, TurnFrame, Recognized, Send, NotifyToolStarted, AgentDone, RaiseSpeaking,
     Say, TurnEnds
<1> QED BY <1>4, <1>5, <1>6, <1>7

(* The speaker thread, notices, the clock, the session and Stop preserve   *)
(* the invariant: they touch neither the turns nor the latches.            *)
LEMMA OtherInv ==
  ASSUME TypeOK, VoiceInv, SpeakerStep \/ SpeakNotice \/ AwakeExpires \/ AssistantSpeaks \/ Stop \/ UNCHANGED vars
  PROVE  VoiceInv'
<1> USE DEF VoiceInv
<1>1. UNCHANGED <<state, wakeLatched, followupLatched, musicVolume, duckedVolume, turn, convBusy>>
  BY Zenon DEF vars, SpeakerStep, SpeakerFrame, SpeakerPop, SpeakerFindsGap, YieldCapReached, Synthesize, PlayEnds,
     LowerSpeaking, SpeakNotice, World, AwakeExpires, AssistantSpeaks, Stop, StopFrame, StopBegins, JoinMic,
     StopSession, JoinSpeakerAndRelease
<1>2. BusyIsOneTurn' /\ OnlyAddressedSpeech' /\ AgentHasTurn'
  BY <1>1 DEF BusyIsOneTurn, OnlyAddressedSpeech, AgentHasTurn, Active
<1>6. SpeakingCoversLine'
  <2>1. CASE SpeakerStep
    <3> speaker \in Speakers BY DEF TypeOK, SpeakerType
    <3>1. speaking' = TRUE \/ (UNCHANGED speaking /\ speaker.pc \in {"synth", "play", "done"})
          \/ speaker'.pc \notin {"synth", "play", "done"}
      <4>1. CASE SpeakerPop \/ LowerSpeaking
        BY <4>1 DEF SpeakerPop, LowerSpeaking, Speaker, Speakers
      <4>2. CASE ~(SpeakerPop \/ LowerSpeaking)
        BY <2>1, <4>2, Zenon DEF SpeakerStep, SpeakerFindsGap, YieldCapReached, Synthesize, PlayEnds
      <4> QED BY <4>1, <4>2
    <3> QED BY <3>1 DEF SpeakingCoversLine, Speakers
  <2>2. CASE UNCHANGED <<speaking, speaker>> BY <2>2 DEF SpeakingCoversLine
  <2> QED
    BY <2>1, <2>2, Zenon DEF vars, SpeakNotice, World, AwakeExpires, AssistantSpeaks, Stop, StopFrame, StopBegins,
       JoinMic, StopSession, JoinSpeakerAndRelease
<1>3. CASE Stop
  BY <1>1, <1>2, <1>3, <1>6 DEF Stop, StopFrame, StopBegins, JoinMic, StopSession, JoinSpeakerAndRelease, SessionExcludesTurns,
     MicMatchesSession, DuckIsRemembered
<1>4. CASE UNCHANGED <<running, mic, session, stop>>
  BY <1>1, <1>2, <1>4, <1>6 DEF SessionExcludesTurns, MicMatchesSession, DuckIsRemembered
<1>5. Stop \/ UNCHANGED <<running, mic, session, stop>>
  BY Zenon DEF vars, SpeakerStep, SpeakerFrame, SpeakerPop, SpeakerFindsGap, YieldCapReached, Synthesize, PlayEnds,
     LowerSpeaking, SpeakNotice, World, AwakeExpires, AssistantSpeaks
<1> QED BY <1>2, <1>3, <1>4, <1>5

(* The types and the inductive invariant hold in every reachable state.    *)
LEMMA Inductive == Spec => [](TypeOK /\ VoiceInv)
<1>1. ASSUME TypeOK, VoiceInv, [Next]_vars PROVE (TypeOK /\ VoiceInv)'
  <2>1. CASE Mic BY <1>1, <2>1, MicType, MicInv
  <2>2. CASE \E t \in Turns : TurnStep(t) BY <1>1, <2>2, TurnType, TurnInv
  <2>3. CASE SpeakerStep \/ SpeakNotice \/ AwakeExpires \/ AssistantSpeaks \/ Stop \/ UNCHANGED vars
    BY <1>1, <2>3, OtherType, OtherInv
  <2> QED BY <1>1, <2>1, <2>2, <2>3 DEF Next
<1> QED BY InitInv, <1>1, PTL DEF Spec

(* Every variable of the voice loop keeps its type.                        *)
THEOREM TypeSafety == Spec => []TypeOK
BY Inductive, PTL

(* Conversation::Send never finds another request in flight, so the reply  *)
(* callback always runs and kBusy is always left.                          *)
THEOREM SendAcceptedHolds == Spec => []SendAccepted
<1>1. TypeOK /\ VoiceInv => SendAccepted
  BY DEF VoiceInv, AgentHasTurn, BusyIsOneTurn, Active, SendAccepted
<1> QED BY <1>1, Inductive, PTL

(* kBusy stands for exactly one turn thread.                               *)
THEOREM BusyIsOneTurnHolds == Spec => []BusyIsOneTurn
<1>1. TypeOK /\ VoiceInv => BusyIsOneTurn BY DEF VoiceInv
<1> QED BY <1>1, Inductive, PTL

(* No audio is recognised that was not captured after the wake word or     *)
(* inside the awake window.                                                *)
THEOREM OnlyAddressedSpeechHolds == Spec => []OnlyAddressedSpeech
<1>1. TypeOK /\ VoiceInv => OnlyAddressedSpeech BY DEF VoiceInv
<1> QED BY <1>1, Inductive, PTL

(* Closing a realtime session cannot cut a turn short.                     *)
THEOREM SessionExcludesTurnsHolds == Spec => []SessionExcludesTurns
<1>1. TypeOK /\ VoiceInv => SessionExcludesTurns BY DEF VoiceInv
<1> QED BY <1>1, Inductive, PTL

(* Without a session, no chunk is captured while a line plays.             *)
THEOREM OwnVoiceNotTakenHolds == Spec => OwnVoiceNotTaken
<1>1. TypeOK /\ VoiceInv /\ [Next]_vars => [mic = "wait" /\ mic' = "chunk" => speaker.pc # "play"]_vars
  <2> SUFFICES ASSUME TypeOK, VoiceInv, Next, mic = "wait", mic' = "chunk"
               PROVE  speaker.pc # "play"
    BY DEF vars
  <2>1. TakeChunk
    <3>1. CASE Mic
      BY <3>1 DEF Mic, SendToSession, CheckIdleTime, CloseBegins, CloseEnds, WakeChunk, SpeechChunk, IgnoredChunk,
         CollectChunk, Endpoint, ChunkFrame
    <3>2. ASSUME ~Mic PROVE mic' = mic \/ mic' = "joined"
      BY <3>2, Zenon DEF Next, TurnStep, TurnFrame, Recognized, Send, NotifyToolStarted, AgentDone, RaiseSpeaking, Say,
         TurnEnds, SpeakerStep, SpeakerFrame, SpeakerPop, SpeakerFindsGap, YieldCapReached, Synthesize, PlayEnds,
         LowerSpeaking, SpeakNotice, World, AwakeExpires, AssistantSpeaks, Stop, StopBegins, JoinMic, StopSession,
         JoinSpeakerAndRelease
    <3> QED BY <3>1, <3>2
  <2> QED BY <2>1 DEF TakeChunk, VoiceInv, SpeakingCoversLine
<1> QED BY <1>1, Inductive, PTL DEF Spec, OwnVoiceNotTaken

(* Outside a session the music has the volume the user gave it.            *)
THEOREM MusicRestoredHolds == Spec => []MusicRestored
<1>1. TypeOK /\ VoiceInv => MusicRestored
  BY DEF VoiceInv, DuckIsRemembered, MusicRestored
<1> QED BY <1>1, Inductive, PTL

(* The inductive invariant that the run checks holds for every value of    *)
(* the constants.                                                          *)
THEOREM InvariantHolds == Spec => []IndInv
<1>1. TypeOK /\ VoiceInv => IndInv BY DEF IndInv
<1> QED BY <1>1, Inductive, PTL
=============================================================================
