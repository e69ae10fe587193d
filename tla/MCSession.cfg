SPECIFICATION FairSpec
CONSTANTS
  MaxAttempts = 1
  RetryDelay = 1
  SlowRetryDelay = 1
  StreamingStableReset = 1
  DataConfirmTimeout = 1
  StallTimeout = 1
  OpenErrors <- MCOpenErrors
  MaxQueue = 2
  MaxCommands = 1
INVARIANTS
  OnlyThisSessionIsHeard
  NoGhostSession
  HealthExplainsState
PROPERTIES
  ImplementsConnection
  AttemptsEnd
  ClosingEnds
  WaitsEnd
