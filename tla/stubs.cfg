SPECIFICATION StubSpec
CONSTANTS
  f = f
  one = one
  two = two
  None = None
  Paths = {f}
  Contents = {one, two}
  MaxStamps = 3
  MaxEdits = 2
  MaxOthers = 1
  MaxFaults = 2
SYMMETRY Symmetry
PROPERTIES NeverNeither ContentIsKept OnlyCommittedIsStubbed
