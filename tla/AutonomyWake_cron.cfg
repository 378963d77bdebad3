SPECIFICATION Spec
CONSTANTS
  Calls <- WakeCalls
  Keys <- WakeKeys
  KeyOf <- WakeKeyOf
  KindOf <- WakeKindOf
  Priority <- WakePriority
  MaxPending = 4
  Unwritable = {"cron:a"}
  Cancels = {}
  MaxStops = 1
  MaxCrashes = 1
INVARIANT NothingForgotten
CHECK_DEADLOCK FALSE
