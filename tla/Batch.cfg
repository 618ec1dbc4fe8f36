CONSTANTS
  N = 4
  Concurrency = 2
SPECIFICATION Spec
CHECK_DEADLOCK FALSE
INVARIANT Balanced
INVARIANT AnswerStands
PROPERTY KeepsPromise
PROPERTY Returns
