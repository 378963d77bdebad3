SPECIFICATION Spec
CONSTANTS
  Updates = {1, 2, 3}
  Albums = {}
  FirstRun = TRUE
  WebhookMode = TRUE
  MayFallBack = TRUE
  FailFast = TRUE
  MaxFails = 1
  MaxRefresh = 0
  MaxCrashes = 1
CHECK_DEADLOCK FALSE
INVARIANTS
  WatermarkClosed
