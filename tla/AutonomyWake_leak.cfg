SPECIFICATION Spec
CONSTANTS
  Calls <- FewCalls
  Keys <- WakeKeys
  KeyOf <- FewKeyOf
  KindOf <- WakeKindOf
  Priority <- FewPriority
  MaxPending = 4
  Unwritable = {}
  Cancels = {"callback"}
  MaxStops = 0
  MaxCrashes = 0
INVARIANT HeartbeatHasRoom
CHECK_DEADLOCK FALSE
