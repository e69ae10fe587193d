SPECIFICATION FairSpec
CONSTANTS
  Paths <- MCPaths
  Closings <- MCClosings
  ReconcileGrace = 1
  HealthyWindow = 1
  MaxDuration = 1
  MaxStartFailures = 1
  MaxDiskErrors = 2
  ErrorsSurface = TRUE
INVARIANTS
  RequestFollowsEntry
  OpenFilesAreOwned
PROPERTIES
  StopStops
  FullDiskGivesUp
