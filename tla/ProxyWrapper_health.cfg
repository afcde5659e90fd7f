SPECIFICATION FairSpec
CONSTANTS
  MaxWrappers = 1
  Cfg = {a}
  NoCfg = NoCfg
  HealthCheck = TRUE
  MaxFailed = 2
  QueueCap = 1
PROPERTIES FailsInARow
CHECK_DEADLOCK FALSE
