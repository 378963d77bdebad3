SPECIFICATION FairSpec
CONSTANTS
  Calls <- FewCalls
  Keys <- WakeKeys
  KeyOf <- FewKeyOf
  KindOf <- WakeKindOf
  Priority <- FewPriority
  MaxPending = 4
  Unwritable = {}
  Cancels = {"writing"}
  MaxStops = 0
  MaxCrashes = 0
PROPERTY EveryCallAnswered
CHECK_DEADLOCK FALSE
