SPECIFICATION MonitorFairSpec
CONSTANTS
  MaxOrders = 2
  Qty = 2
INVARIANTS
  MonitorSafetyTypeOK
  VerdictSound
  EveryOrderJudged
PROPERTIES
  ImplementsVerdicts
  MonitorReturns
CHECK_DEADLOCK FALSE
