SPECIFICATION Spec
CONSTANTS
  a = a
  b = b
  x = x
  y = y
  Machines = {a, b}
  Commands <- Colliding
  Hashes = {x}
  MaxStamps = 3
  MaxAttempts = 2
  MaxFaults = 0
SYMMETRY Symmetry
INVARIANTS ListedIsStored
