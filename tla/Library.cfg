SPECIFICATION LibrarySpec
CONSTANTS
  MaxHooks = 2
  HooksBlock = FALSE
  Grace = 2
  Awaits = {f1, f2}
  DaemonThread = FALSE
  CoreNodes = {k1, k2}
  InstanceIds = {i1}
  Types = {cam, imu}
  Slots = {left, rest}
  TopicNames = {frames}
  PythonNode = FALSE
  MaxSubscriptions = 2
  MaxPublishes = 2
  Manifests <- mcManifests
  UserArguments <- mcArguments
  EditsMidStart = FALSE
  MaxEdits = 2
  StampMax = 4
  OffsetMax = 1
  Skews <- mcSkews
  TickTimes = {0, 1, 3}
  MaxTicks = 3
  Periods = {0, 2, 3}
  OVERRUN_REPORT_PERIOD = 4
  MaxOvershoot = 1
  MaxTime = 14
  Arms = {left, right}
  MaxCommands = 2
  MaxPasses = 1
INVARIANTS HooksFinished LoopOutlivesHooks CrossingIsSafe SlotGetsItsOwn ReservationIsLive ArgumentsResolved ClockIsTrue PaceIsKept CommandsKept
PROPERTIES LiveDaemonKeepsNode StopEndsNode CancelledNodeLeaves BridgeEnds
\* A node that has exited leaves nothing to do: the system may stop.
CHECK_DEADLOCK FALSE
