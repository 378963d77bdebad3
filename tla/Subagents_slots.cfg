SPECIFICATION SubagentSpec
CONSTANTS
  Runs = {r1, r2, r3}
  Sessions = {s1}
  SpawnTool = {r3}
  MaxRunning = 1
  MaxQueued = 1
  Quota = 2
  MaxResume = 1
  Expires = TRUE
  MaxCrashes = 1
INVARIANTS
  SlotsReal
CHECK_DEADLOCK FALSE
