SPECIFICATION Spec
CONSTANT MaxAttempts = 1
INVARIANT FaultsStayVisible
CHECK_DEADLOCK FALSE
