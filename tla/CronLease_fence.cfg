SPECIFICATION Spec
CONSTANTS
  Jobs = {1, 2}
  Recurring = {1, 2}
  RunOnce = {}
  Initial = {1}
  Instances = {i1}
  Tokens = {1, 2, 3, 4, 5, 6}
  MaxConcurrent = 2
  SlowCallbacks = FALSE
  MaxManual = 0
  MaxEdits = 1
  MaxStops = 0
  MaxCrashes = 0
  NoToken = NoToken
INVARIANTS OneRunPerJob
CHECK_DEADLOCK FALSE
