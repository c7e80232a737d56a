SPECIFICATION RequestsFairSpec
CONSTANTS
  cA = cA
  cB = cB
  Nothing = Nothing
  Contracts = {cA, cB}
  WithConId = {cB}
  Rules = {1, 2, 3}
  RulesOf <- MCRulesOf
  TableOf <- MCTableOf
  Fifty = 5000
  Fills <- MCFills
  Losses <- MCLosses
  MaxId = 2
  MaxAnswers = 1
  MaxOnWire = 2
INVARIANTS
  UniqueOrderIds
  RequestsTypeOK
  ResolvedIsOwn
  NoSharedIds
  StopsConform
  PercentIsFraction
PROPERTIES
  TickTableIsCoarsest
  CallReturns
CHECK_DEADLOCK FALSE
