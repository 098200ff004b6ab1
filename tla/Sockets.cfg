SPECIFICATION Spec
SYMMETRY Symmetry
CONSTANTS
  MaxSockets = 3
  MaxNew = 1
  Peers = {p1, p2}
  Acceptors = {t1}
  MaxBackLog = 1
  SynSending = FALSE
  Failures = FALSE
  MaxCleanups = 1
  NoPeer = NoPeer
INVARIANTS TablesAgree AcceptorsWake OnePerPeer NothingLeaks
PROPERTY DeletedIsForgotten
CHECK_DEADLOCK FALSE
