SPECIFICATION FairSpec
CONSTANTS
  x = x
  y = y
  Objects = {x, y}
  Initial = {x}
  Archivable = {x}
  MaxVersions = 3
  MaxFaults = 2
INVARIANT PointerIsCommitted
PROPERTIES SyncKeepsComplete CatchupIsHonest RestorableStays MirrorCatchesUp
