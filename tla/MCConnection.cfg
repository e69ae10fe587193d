SPECIFICATION FairSpec
CONSTANTS
  MaxAttempts = 30
  RetryDelay = 5
  SlowRetryDelay = 60
  StreamingStableReset = 3
  DataConfirmTimeout = 5
  StallTimeout = 10
  SourceErrors <- MCSourceErrors
INVARIANTS
  TimersFollowState
  SourceFollowsState
PROPERTIES
  ImplementsPolicy
  SilenceIsNoticed
  FakeSessionsWearOut
