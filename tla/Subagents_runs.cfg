\* Two runs, one of the spawn tool, one slot, one place in the queue, two crashes.
CONSTANTS
  Runs = {r1, r2}
  Sessions = {s1}
  SpawnTool = {r2}
  MaxRunning = 1
  MaxQueued = 1
  Quota = 2
  MaxResume = 1
  Expires = TRUE
  MaxCrashes = 2
SPECIFICATION SubagentFairSpec
INVARIANTS Consistent NoIdleSlot BudgetHolds ReportedOnce
PROPERTY EveryRunEnds
CHECK_DEADLOCK FALSE
