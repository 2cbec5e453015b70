SPECIFICATION FairSpec
CONSTANTS
  a = a
  b = b
  x = x
  y = y
  Machines = {a, b}
  Commands <- Collecting
  Hashes = {x}
  MaxStamps = 3
  MaxAttempts = 2
  MaxFaults = 1
INVARIANTS ListedIsStored
PROPERTIES CommandsEnd
