SPECIFICATION FairSpec
CONSTANTS
  Goals = {g1}
  Polls = {p1}
  Cancels = {c1}
  PendingCap = 1
  TombstoneCap = 1
  HasFeedback = TRUE
  DropsFutures = FALSE
PROPERTIES ParkedPollsSettled GoalsWindDown
\* A dropped engine ends its loops: the system may stop.
CHECK_DEADLOCK FALSE
