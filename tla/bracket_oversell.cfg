SPECIFICATION Spec
CONSTANTS
  rBuy = rBuy
  rBuy2 = rBuy2
  rSell = rSell
  NoRow = NoRow
  Rows = {rBuy, rSell}
  ActionOf <- MCActionOf
  KillAt = {"confirm", "child"}
  MaxOrders = 4
  Qty = 1
INVARIANT NeverBothArmed
CHECK_DEADLOCK FALSE
