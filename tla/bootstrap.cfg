SPECIFICATION FairSpec
CONSTANTS
  r = r
  s = s
  here = here
  there = there
  Roots = {r, s}
  Keen = {r}
  Locations = {here, there}
  Pids <- MCPids
  MaxStamps = 2
  MaxFaults = 2
INVARIANTS CurrentIsReadable RootIsOfOneVault
PROPERTIES LeftoversDoNotBlock
