SPECIFICATION Spec
CONSTANTS
  u1 = u1
  u2 = u2
  Turns <- TwoTurns
  RealtimeEnabled = TRUE
  MaxCapture = 2
  MaxLines = 2
INVARIANT EngineUnusedWhenReleased
CHECK_DEADLOCK FALSE
