SPECIFICATION Spec
CONSTANTS
  Goals = {g1, g2}
  Polls = {p1}
  Cancels = {}
  PendingCap = 1
  TombstoneCap = 1
  HasFeedback = TRUE
  DropsFutures = TRUE
INVARIANTS TombstonedGone
SYMMETRY Symmetry
\* A dropped engine ends its loops: the system may stop.
CHECK_DEADLOCK FALSE
