SPECIFICATION FairSpec
CONSTANTS
  x = x
  y = y
  Hashes = {x}
  Large = {x}
  Chunks = 2
  MaxMirrorAttempts = 1
  Rows <- MCOneRow
  StreamConc = 1
  StreamLimit = 1
  HeadConc = 1
  HeadLimit = 1
  Prior = {}
PROPERTY OneFailureStopsTheOthers
CHECK_DEADLOCK FALSE
