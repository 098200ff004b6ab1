SPECIFICATION Spec
CONSTANTS
  Sockets = {s1, s2, s3, s4, s5, s6}
  MaxInterval = 1
  MaxTime = 3
SYMMETRY Symmetry
INVARIANT FirstIsNext
\* the clock stops, and the worker with the queue
CHECK_DEADLOCK FALSE
