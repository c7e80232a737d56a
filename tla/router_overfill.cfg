SPECIFICATION RouterSpec
CONSTANTS
  MaxOrders = 4
  Qty = 2
  NTiers = 4
INVARIANT NeverOverfilled
CHECK_DEADLOCK FALSE
