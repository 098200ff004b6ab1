SPECIFICATION FairSpec
CONSTANTS
  Sockets = {s1, s2, s3}
  MaxInterval = 2
  MaxTime = 5
INVARIANT SleepIsSafe
PROPERTIES Attended Stops
\* the clock stops, and the worker with the queue
CHECK_DEADLOCK FALSE
