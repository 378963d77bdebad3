SPECIFICATION FairSpec
CONSTANTS
  Updates = {1, 2}
  Albums = {2}
  FirstRun = FALSE
  WebhookMode = TRUE
  MayFallBack = TRUE
  FailFast = TRUE
  MaxFails = 2
  MaxRefresh = 1
  MaxCrashes = 2
CHECK_DEADLOCK FALSE
INVARIANTS
  OncePerProcess
  NothingForgotten
  WatermarkClosed
PROPERTIES
  NoReprocess
  EveryUpdateHandled
