SPECIFICATION FairSpec
CONSTANTS
  Calls <- FewCalls
  Keys <- WakeKeys
  KeyOf <- FewKeyOf
  KindOf <- WakeKindOf
  Priority <- FewPriority
  MaxPending = 4
  Unwritable = {}
  Cancels = {"waiting", "callback"}
  MaxStops = 0
  MaxCrashes = 1
INVARIANT NothingForgotten
PROPERTY AnsweredUnlessStopped
CHECK_DEADLOCK FALSE
