SPECIFICATION FairSpec
CONSTANTS
  MaxControls = 2
  QueueCap = 1
  MaxReconnects = 2
  MaxReloads = 1
  LoginFailExit = TRUE
INVARIANTS ReloadApplied
CHECK_DEADLOCK FALSE
