SPECIFICATION Spec
CONSTANT MaxAttempts = 3
INVARIANTS
  TypeOK
  NoneIsNeverUsed
  ReadyHasId
  TeardownIsQuiet
PROPERTY EventuallyTornDown
CHECK_DEADLOCK FALSE
