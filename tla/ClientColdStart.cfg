SPECIFICATION Spec
CONSTANTS
  MaxLives = 1
  MaxFlaps = 0
  MaxFeedback = 0
  FlapLimit = 0
INVARIANTS ReportedGoneIsGone
\* A handle that was dropped and a dead producer leave nothing to do.
CHECK_DEADLOCK FALSE
