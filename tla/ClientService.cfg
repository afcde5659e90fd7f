SPECIFICATION FairSpec
CONSTANTS
  MaxControls = 2
  QueueCap = 1
  MaxReconnects = 2
  MaxReloads = 1
  LoginFailExit = TRUE
INVARIANTS OneControl NoSendOnClosedChannel GivesUpLast
PROPERTIES ReconnectsUnlessWedged
CHECK_DEADLOCK FALSE
