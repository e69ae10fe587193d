SPECIFICATION LoopSpec
CONSTANTS
  N = 1
  StallTimeout = 2
  JoinTime = 1
  MaxCommands = 0
INVARIANTS
  ManagerOutlivesTicks
