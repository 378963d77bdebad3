SPECIFICATION Spec
CONSTANTS
  Jobs = {1}
  Recurring = {1}
  RunOnce = {}
  Initial = {1}
  Instances = {i1, i2}
  Tokens = {1, 2, 3}
  MaxConcurrent = 1
  SlowCallbacks = FALSE
  MaxManual = 1
  MaxEdits = 0
  MaxStops = 1
  MaxCrashes = 0
  NoToken = NoToken
INVARIANTS OneRunPerJob
CHECK_DEADLOCK FALSE
