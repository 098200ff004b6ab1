SPECIFICATION FairSpec
CONSTANTS
  ISN = 1
  SndBufSize = 2
  RcvBufSize = 2
  CWndSizes = {2}
  MaxBlocks = 2
  MaxNet <- AcksOnly
  Duplicates = FALSE
  PeerMayDie = FALSE
PROPERTIES Delivery Drain
\* the application stops sending, a broken connection stops altogether
CHECK_DEADLOCK FALSE
