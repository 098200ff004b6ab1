SPECIFICATION FairSpec
CONSTANTS
  MaxData = 1
  SndBufSize = 1
  Usages <- UsagesMC
INVARIANTS WakeupIsComing RemovedIsQuiet
PROPERTIES NobodyIsLeftWaiting
\* a closed socket is called no more
CHECK_DEADLOCK FALSE
