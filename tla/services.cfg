SPECIFICATION FairSpec
CONSTANTS
  c1 = c1
  c2 = c2
  w1 = w1
  w2 = w2
  w3 = w3
  w4 = w4
  k1 = k1
  k2 = k2
  Cores <- TwoCores
  Failing <- MainFails
  MaxAcquires = 2
  MaxCrashes = 2
  Workers <- FourWorkers
  MaxPrefetch = 2
  MaxPosts = 4
  Budget = 4
  MaxSeconds = 3
  MaxDays = 2
  MaxRestarts = 2
  Calls <- TwoCalls
  MaxSessions = 2
  MaxFrames = 3
INVARIANTS
  ServicesInv
  CrashIsRepairable
  NoWakeupLost
  NeverHearsItself
  NeverOvercharged
PROPERTIES
  ClocksRelax
  LanesDrain
  SessionCloses
CHECK_DEADLOCK FALSE
