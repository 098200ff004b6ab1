----------------------------- MODULE ReadinessMC -----------------------------
EXTENDS Readiness

\* Only receiving or only sending: the two calls meet nowhere but in releaseSynch and
\* close, which wait for one after the other.
UsagesMC ==
  [recv : {"timed", "file", "message"}, send : {"none"}, end : {"timeout"}]
    \cup [recv : {"block", "poll"}, send : {"none"}, end : {"shutdown"}]
    \cup [recv : {"none"}, send : {"timed", "file"}, end : {"timeout"}]
    \cup [recv : {"none"}, send : {"block", "poll"}, end : {"shutdown"}]
=============================================================================
