SPECIFICATION Spec
CONSTANTS
  f = f
  g = g
  c = c
  d = d
  None = None
  Paths = {f, g}
  Contents = {c, d}
  MaxStamps = 4
  MaxEdits = 1
  MaxOthers = 2
  MaxFaults = 1
SYMMETRY Symmetry
INVARIANTS RowsAreHistory SkippedIsUnchanged SyncedMeansEqual ReplacesOnlySeen
PROPERTIES PendingIsKept
