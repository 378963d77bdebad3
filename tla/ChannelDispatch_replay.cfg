SPECIFICATION MCSpec
CONSTANTS
  s1 = s1
  s2 = s2
  Sessions <- MCSessions
  MaxConcurrency = 2
  PerSession = 1
  MaxEntries = 1
  ReplayLimit = 1
  MaxMessages = 3
  MaxStops = 1
  MaxReplays = 1
  MaxCrashes = 1
CHECK_DEADLOCK FALSE
INVARIANTS
  NothingLost
PROPERTIES
  InOrder
  StopHolds
  EveryMessageRuns
