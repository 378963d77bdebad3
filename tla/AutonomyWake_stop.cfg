SPECIFICATION FairSpec
CONSTANTS
  Calls <- FewCalls
  Keys <- WakeKeys
  KeyOf <- FewKeyOf
  KindOf <- WakeKindOf
  Priority <- FewPriority
  MaxPending = 4
  Unwritable = {}
  Cancels = {}
  MaxStops = 1
  MaxCrashes = 0
PROPERTY EveryCallAnswered
CHECK_DEADLOCK FALSE
