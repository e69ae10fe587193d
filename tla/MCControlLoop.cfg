SPECIFICATION FairSpec
CONSTANTS
  N = 2
  StallTimeout = 2
  JoinTime = 2
  MaxCommands = 1
INVARIANTS
  DrainLeavesNothing
PROPERTIES
  TicksBeginHeard
  TeardownEnds
