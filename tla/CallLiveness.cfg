SPECIFICATION FairSpec
CONSTANTS
  Calls = {c1}
  Producers = {p1, p2}
  QueueCap = 1
  MaxAttempts = 2
  LinksBreak = TRUE
  Spawns = TRUE
PROPERTIES
  TimeoutWasReached
  CallsReturn
\* A call that has returned leaves nothing to do: the system may stop.
CHECK_DEADLOCK FALSE
