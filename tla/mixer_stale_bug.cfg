SPECIFICATION MainSpec
CONSTANTS
  t1 = t1
  t2 = t2
  NoArg = NoArg
  Callers <- TwoCallers
  VolumeArgs <- TwoArgs
  MaxCalls = 2
INVARIANT NewestWins
CHECK_DEADLOCK FALSE
