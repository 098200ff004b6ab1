SPECIFICATION Spec
CONSTANTS
  ISN = 1
  SndBufSize = 3
  RcvBufSize = 3
  CWndSizes = {2, 3}
  MaxBlocks = 3
  MaxNet <- DataReordered
  Duplicates = FALSE
  PeerMayDie = FALSE
INVARIANTS LossListExact BuffersAgree
PROPERTY ImplementsPipe
\* the application stops sending, a broken connection stops altogether
CHECK_DEADLOCK FALSE
