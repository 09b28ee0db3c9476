SPECIFICATION FairSpec
CONSTANTS
  c1 = c1
  c2 = c2
  t1 = t1
  t2 = t2
  Callers <- TwoCallers
  Tracks <- BothTracks
  Playlists <- TwoPlaylists
  Outputs = {"normal", "ducked"}
  InitOutput = "normal"
  Endings = {"natural", "broken"}
  BootStates = {FALSE, TRUE}
  MaxRequests = 2
  NoTrack = NoTrack
PROPERTIES
  Settles
  StreamsRunOut
  ShutdownEnds
CHECK_DEADLOCK FALSE
