SPECIFICATION Spec
CONSTANTS
  MaxId = 5
  MaxAnswers = 2
INVARIANT NoDuplicateOrderId
CHECK_DEADLOCK FALSE
