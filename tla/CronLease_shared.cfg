SPECIFICATION Spec
CONSTANTS
  Jobs = {1}
  Recurring = {1}
  RunOnce = {1}
  Initial = {1}
  Instances = {i1, i2}
  Tokens = {1, 2, 3, 4}
  MaxConcurrent = 1
  SlowCallbacks = FALSE
  MaxManual = 0
  MaxEdits = 0
  MaxStops = 1
  MaxCrashes = 1
  NoToken = NoToken
INVARIANTS OneRunPerJob OnceIsOnce
PROPERTIES LeaseFences
CHECK_DEADLOCK FALSE
