SPECIFICATION FairSpec
CONSTANTS
  MaxReplies = 2
  MaxReplays = 1
  NoTask = NoTask
  AtOnce = 1
  MaxAttempts = 2
  Retryable = TRUE
  MaxEntries = 1
  ReplayLimit = 1
  MaxFailures = 1
  MaxCrashes = 1
INVARIANTS NothingDropped DeliveredOnce
PROPERTIES EverySendEnds
CHECK_DEADLOCK FALSE
