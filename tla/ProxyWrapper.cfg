SPECIFICATION FairSpec
CONSTANTS
  MaxWrappers = 2
  Cfg = {a, b}
  NoCfg = NoCfg
  HealthCheck = TRUE
  MaxFailed = 1
  QueueCap = 1
INVARIANTS NoStaleConfig
PROPERTIES WaitStartEnds UnhealthyWithdrawn RemovedIsGone
CHECK_DEADLOCK FALSE
