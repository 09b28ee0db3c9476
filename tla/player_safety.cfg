SPECIFICATION Spec
CONSTANTS
  c1 = c1
  c2 = c2
  t1 = t1
  t2 = t2
  Callers <- TwoCallers
  Tracks <- BothTracks
  Playlists <- TwoPlaylists
  Outputs = {"normal", "ducked"}
  InitOutput = "normal"
  Endings = {"natural", "broken"}
  BootStates = {FALSE, TRUE}
  MaxRequests = 3
  NoTrack = NoTrack
INVARIANTS
  IndInv
  HeardIsShown
  OutputSettles
PROPERTIES
  NoResurrection
  FocusSpec
CHECK_DEADLOCK FALSE
