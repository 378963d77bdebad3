SPECIFICATION Spec
CONSTANTS
  MaxReplies = 1
  MaxReplays = 2
  NoTask = NoTask
  AtOnce = 2
  MaxAttempts = 2
  Retryable = TRUE
  MaxEntries = 1
  ReplayLimit = 1
  MaxFailures = 0
  MaxCrashes = 0
INVARIANTS DeliveredOnce
CHECK_DEADLOCK FALSE
