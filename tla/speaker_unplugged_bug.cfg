SPECIFICATION FairDevicesSpec
CONSTANTS
  MaxUnplugs = 1
  MaxPlays = 1
  MaxPieces = 2
PROPERTY PlayEnds
CHECK_DEADLOCK FALSE
