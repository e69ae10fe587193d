\* Two closes of one unit in one tick are as long as the stall timeout.
SPECIFICATION LoopSpec
CONSTANTS
  N = 3
  StallTimeout = 2
  JoinTime = 1
  MaxCommands = 0
PROPERTIES
  FailuresStayApart
