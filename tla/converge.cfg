SPECIFICATION FairSpec
CONSTANTS
  a = a
  p = p
  q = q
  r = r
  x = x
  y = y
  Machines = {a}
  Objects = {x, y}
  Paths = {p, q, r}
  Tables <- MCTables
  Filters <- MCFilters
  FirstClasses = {"STANDARD", "GLACIER"}
  Large = {y}
  PoolSlots = 1
  QueueLimit = 1
  MaxCommits = 1
  MaxOthers = 1
  MaxFaults = 2
PROPERTIES NeverColderThanImplied RunsEnd Converges
