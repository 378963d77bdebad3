SPECIFICATION Spec
CONSTANTS
  Updates = {1, 2, 3}
  Albums = {1, 2}
  FirstRun = FALSE
  WebhookMode = FALSE
  MayFallBack = FALSE
  FailFast = TRUE
  MaxFails = 1
  MaxRefresh = 0
  MaxCrashes = 1
CHECK_DEADLOCK FALSE
INVARIANTS
  AlbumsKept
