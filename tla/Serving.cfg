SPECIFICATION Spec
CONSTANTS
 Cycles = {0, 1}
 Cadence = 1
 Horizon = 2
 MaxEvents = 1
 Move = 2
INVARIANTS CollectionKeepsServing AnswersAreGenuine
CHECK_DEADLOCK FALSE
