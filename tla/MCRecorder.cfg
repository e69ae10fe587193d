SPECIFICATION FairSpec
CONSTANTS
  MaxQueue = 2
  MaxPackets = 6
  MaxStarts = 2
INVARIANTS
  NothingIsLost
  ContainerIsNotShared
  FileBeginsWithKeyframe
PROPERTY StopReturns
CHECK_DEADLOCK FALSE
