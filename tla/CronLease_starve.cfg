SPECIFICATION FairSpec
CONSTANTS
  Jobs = {1, 2}
  Recurring = {2}
  RunOnce = {}
  Initial = {1, 2}
  Instances = {i1}
  Tokens = {1, 2, 3, 4, 5, 6}
  MaxConcurrent = 1
  SlowCallbacks = FALSE
  MaxManual = 0
  MaxEdits = 0
  MaxStops = 0
  MaxCrashes = 0
  NoToken = NoToken
PROPERTIES RecurringRuns
