SPECIFICATION FairSpec
CONSTANTS
  Jobs = {1, 2}
  Recurring = {1, 2}
  RunOnce = {}
  Initial = {1}
  Instances = {i1}
  Tokens = {1, 2}
  MaxConcurrent = 1
  SlowCallbacks = FALSE
  MaxManual = 1
  MaxEdits = 1
  MaxStops = 1
  MaxCrashes = 2
  NoToken = NoToken
PROPERTIES RecurringRuns
CHECK_DEADLOCK FALSE
