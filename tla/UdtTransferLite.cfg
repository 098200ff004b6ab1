SPECIFICATION Spec
CONSTANTS
  ISN = 1
  SndBufSize = 5
  RcvBufSize = 2
  CWndSizes = {2}
  MaxBlocks = 5
  MaxNet <- LiteAcks
  Duplicates = FALSE
  PeerMayDie = FALSE
INVARIANTS LossListSpan
\* the application stops sending, a broken connection stops altogether
CHECK_DEADLOCK FALSE
