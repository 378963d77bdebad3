SPECIFICATION Spec
CONSTANTS
  Updates = {1, 2, 3}
  Albums = {}
  FirstRun = FALSE
  WebhookMode = TRUE
  MayFallBack = TRUE
  FailFast = TRUE
  MaxFails = 0
  MaxRefresh = 1
  MaxCrashes = 0
CHECK_DEADLOCK FALSE
INVARIANTS
  EmittedOnce
