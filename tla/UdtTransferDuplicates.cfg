SPECIFICATION Spec
CONSTANTS
  ISN = 13
  SndBufSize = 3
  RcvBufSize = 2
  CWndSizes = {2}
  MaxBlocks = 3
  MaxNet <- OneOfEach
  Duplicates = TRUE
  PeerMayDie = TRUE
  SeqNoTH = 6
  Age = 2
INVARIANTS InOrder NeverInsane Ack2MeansReleased UnsentIsScheduled DecidesAlike
PROPERTY AcksNeverGoBack
\* the application stops sending, a broken connection stops altogether
CHECK_DEADLOCK FALSE
