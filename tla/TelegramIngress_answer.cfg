SPECIFICATION Spec
CONSTANTS
  Updates = {1, 2, 3}
  Albums = {}
  FirstRun = FALSE
  WebhookMode = TRUE
  MayFallBack = FALSE
  FailFast = FALSE
  MaxFails = 1
  MaxRefresh = 0
  MaxCrashes = 1
CHECK_DEADLOCK FALSE
INVARIANTS
  NothingForgotten
