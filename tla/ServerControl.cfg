SPECIFICATION FairSpec
CONSTANTS
  SendCap = 1
  ReadCap = 1
  WorkSlack = 1
  PoolCount = 1
  TCPMux = FALSE
  HeartbeatTimeout = 1
  MaxMsgs = 2
  Users = {u1}
  WorkConns = {w1}
INVARIANTS TypeOK NoSendOnClosedChannel ClosedControlIsEmpty
PROPERTIES WedgeIsPermanent ClosesUnlessWedged UserAnswered
CHECK_DEADLOCK FALSE
