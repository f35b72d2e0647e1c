SPECIFICATION Spec
CONSTANTS
  Goals = {g1}
  Polls = {p1, p2}
  Cancels = {c1}
  PendingCap = 1
  TombstoneCap = 1
  HasFeedback = TRUE
  DropsFutures = FALSE
INVARIANTS TypeOK WaiterHasOwner EarlyPollAdopted AnswerIsOutcome ResponderInOnePlace InformedRequestFindsGoal SentinelOnceAfterResult UnroutedSlotIsEmpty
PROPERTIES KeepsPromise
SYMMETRY Symmetry
\* A dropped engine ends its loops: the system may stop.
CHECK_DEADLOCK FALSE
