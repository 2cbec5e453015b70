SPECIFICATION Spec
CONSTANTS
  a = a
  b = b
  x = x
  y = y
  Machines = {a, b}
  Commands <- Syncing
  Hashes = {}
  MaxStamps = 4
  MaxAttempts = 2
  MaxFaults = 2
SYMMETRY Symmetry
INVARIANTS AckedSurvives BaselineMatches LocalOnTrunk DivergedMeansMoved
PROPERTIES NoLostUpdate StateDbAdvances LinearVaultSpec
