SPECIFICATION Spec
CONSTANTS
  ch1 = ch1
  ch2 = ch2
  Ids <- MCIds
  UnhealthyThreshold = 3
  CooldownPolls = 2
  MaxChanges = 2
  MaxRuns = 2
  MaxFaults = 2
INVARIANTS
  FileFollowsList
PROPERTIES
  ShieldHolds
  RelayServes
CHECK_DEADLOCK FALSE
