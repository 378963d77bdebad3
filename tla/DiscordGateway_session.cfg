SPECIFICATION FairSpec
CONSTANTS
  MaxMessages = 2
  MaxFaults = 2
  MaxOps = 1
  FromWithin = FALSE
  HostLasts = TRUE
INVARIANTS OneReader ReadOnce
PROPERTIES Recovers
CHECK_DEADLOCK FALSE
