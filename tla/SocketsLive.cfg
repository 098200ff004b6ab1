SPECIFICATION FairSpec
CONSTANTS
  MaxSockets = 2
  MaxNew = 2
  Peers = {p1}
  Acceptors = {t1}
  MaxBackLog = 1
  SynSending = TRUE
  Failures = TRUE
  MaxCleanups = 1
  NoPeer = NoPeer
PROPERTY BrokenGoes CleanupReturns
CHECK_DEADLOCK FALSE
