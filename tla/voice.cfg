SPECIFICATION FairSpec
CONSTANTS
  u1 = u1
  u2 = u2
  Turns <- TwoTurns
  RealtimeEnabled = TRUE
  MaxCapture = 3
  MaxLines = 2
INVARIANTS
  IndInv
  OnlyAddressedSpeech
  SessionExcludesTurns
  SendAccepted
  MusicRestored
PROPERTIES
  OwnVoiceNotTaken
  BusyEnds
  LinesAreSpoken
CHECK_DEADLOCK FALSE
