SPECIFICATION FairSpec
CONSTANTS
  Ctl = {c1, c2, c3}
  RunID = {r1, r2}
  NoCtl = NoCtl
INVARIANTS OneServing ServingIsIndexed
PROPERTIES LoginAnswered ClosedIsForgotten
CHECK_DEADLOCK FALSE
