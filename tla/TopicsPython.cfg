SPECIFICATION TopicsSpec
CONSTANTS
  CoreNodes = {k1, k2}
  InstanceIds = {i1}
  Types = {cam}
  Slots = {left, rest}
  TopicNames = {frames}
  PythonNode = TRUE
  MaxSubscriptions = 1
  MaxPublishes = 1
INVARIANTS SlotGetsItsOwn
\* A consumer whose bounds are used up leaves nothing to do.
CHECK_DEADLOCK FALSE
