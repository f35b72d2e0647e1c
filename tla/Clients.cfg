SPECIFICATION ClientsSpec
CONSTANTS
  MaxLives = 2
  MaxFlaps = 1
  MaxFeedback = 1
  FlapLimit = 1
  Daemons = {d1, d2}
  Home = d1
  Callers = {n1, n2}
  DataKeys = {"k"}
  Contents = {""}
  MaxCalls = 2
  MaxItems = 2
  NodeDocuments <- mcDocuments
  LaunchConfigs <- mcLaunchConfigs
INVARIANTS GoneIsTrue NothingMissed AnswersAreTrue WrittenIsRead
PROPERTIES DeadProducerReported
\* A handle that was dropped and a dead producer leave nothing to do.
CHECK_DEADLOCK FALSE
