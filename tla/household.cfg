SPECIFICATION FairSpec
CONSTANTS
  t1 = t1
  t2 = t2
  NoArg = NoArg
  NoId = NoId
  Callers <- TwoThreads
  VolumeArgs <- TwoArgs
  MaxCalls = 2
  Askers <- TwoThreads
  Asked <- FourLengths
  MaxTimers = 3
  kMaxToolRounds = 3
  MaxAsked = 2
  MaxSends = 2
  Savers <- TwoThreads
  Names = {n1, n2}
  Tracks = {s1, s2}
  MaxAlbums = 2
  MaxFaults = 2
  Writers <- TwoThreads
  MaxItems = 2
  MaxReboots = 1
  MinutesOfDay = 2
  MaxAlarmDays = 2
  MaxNotes = 2
  MaxChanges = 2
  MaxAlarmCrashes = 1
  Levels = {8, 14, 25, 45}
  MaxMoves = 3
  MaxUnplugs = 2
  MaxPlays = 1
  MaxPieces = 2
  Phrases = {p1, p2, p3}
  ShortPhrases = {p1, p2}
  MaxCached = 1
  MinFrames = 2
  MaxWakeFrames = 3
  MaxSpoken = 3
  SongIds = {i1, i2}
  MaxEntries = 3
  Limit = 2
  MaxQueue = 2
  Downloaders <- TwoThreads
  MaxFetches = 3
  MaxKills = 1
INVARIANTS
  HouseholdInv
  VolumeSettles
  SilencedIsSilent
  RequestsWellFormed
  FactsAreKept
  RingsOncePerDay
  QueueIsPlayable
  CoversAreWhole
PROPERTIES
  LoopAnswers
  TimersRing
  TurnsAreAnswered
  AlbumsAreDurable
  AlarmIsNotMissed
  DevicesRecover
  ScoresArePaired
CHECK_DEADLOCK FALSE
