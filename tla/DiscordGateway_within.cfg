SPECIFICATION FairSpec
CONSTANTS
  MaxMessages = 2
  MaxFaults = 2
  MaxOps = 1
  FromWithin = TRUE
  HostLasts = TRUE
INVARIANTS OneReader
CHECK_DEADLOCK FALSE
