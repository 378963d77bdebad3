SPECIFICATION Spec
CONSTANTS
  Calls <- FullCalls
  Keys <- FullKeys
  KeyOf <- FullKeyOf
  KindOf <- FullKindOf
  Priority <- FullPriority
  MaxPending = 3
  Unwritable = {}
  Cancels = {"writing"}
  MaxStops = 1
  MaxCrashes = 0
INVARIANTS OneRunShared HeartbeatHasRoom
CHECK_DEADLOCK FALSE
