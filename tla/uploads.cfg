SPECIFICATION FairSpec
CONSTANTS
  x = x
  y = y
  Hashes = {x, y}
  Large = {x}
  Chunks = 2
  MaxMirrorAttempts = 2
  Rows <- MCRows
  StreamConc = 1
  StreamLimit = 1
  HeadConc = 1
  HeadLimit = 1
  Prior = {x}
INVARIANTS CommittedIsStored CleanSyncIsMirrored SourceFailureIsPerRow IgnoredMirrorIsAGap
PROPERTIES SinksPublishAll LedgerSpec CallEnds
CHECK_DEADLOCK FALSE
