SPECIFICATION FairSpec
CONSTANTS
  j1 = j1
  j2 = j2
  w1 = w1
  w2 = w2
  Jobs <- MCJobs
  Workers <- MCWorkers
  NoJob = NoJob
  Prio <- MCPrio
  Budget <- MCBudget
  JournalOn = TRUE
  SaveMayFail = FALSE
  MaxCrashes = 2
INVARIANTS
  OneRunner
  NothingStranded
  AttemptsBounded
PROPERTIES
  CancelIsFinal
  LifecycleHolds
  EveryJobSettles
