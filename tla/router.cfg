SPECIFICATION RouterFairSpec
CONSTANTS
  MaxOrders = 4
  Qty = 2
  NTiers = 4
INVARIANTS
  SafetyTypeOK
  ViewSound
  GivenUpIsDead
PROPERTIES
  ImplementsOrderCall
  CallReturns
CHECK_DEADLOCK FALSE
