SPECIFICATION Spec
CONSTANTS
  Paths <- MCPaths
  Closings <- MCClosings
  ReconcileGrace = 1
  HealthyWindow = 2
  MaxDuration = 3
  MaxStartFailures = 2
  MaxDiskErrors = 2
  ErrorsSurface = FALSE
INVARIANT
  SegmentsAreKept
