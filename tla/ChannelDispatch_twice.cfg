SPECIFICATION Spec
CONSTANTS
  s1 = s1
  s2 = s2
  Sessions <- MCSessions
  MaxConcurrency = 2
  PerSession = 1
  MaxEntries = 1
  ReplayLimit = 3
  MaxMessages = 3
  MaxStops = 0
  MaxReplays = 0
  MaxCrashes = 0
SYMMETRY SessionSymmetry
CHECK_DEADLOCK FALSE
INVARIANTS
  AnsweredOnce
