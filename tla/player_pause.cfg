SPECIFICATION Spec
CONSTANTS
  c1 = c1
  c2 = c2
  t1 = t1
  t2 = t2
  Callers <- OneCaller
  Tracks <- BothTracks
  Playlists <- TwoPlaylists
  Outputs = {"normal", "ducked"}
  InitOutput = "normal"
  Endings = {"broken"}
  BootStates = {TRUE}
  MaxRequests = 4
  NoTrack = NoTrack
INVARIANT PauseAgrees
CHECK_DEADLOCK FALSE
