SPECIFICATION FairSpec
CONSTANTS
  rBuy = rBuy
  rBuy2 = rBuy2
  rSell = rSell
  aBuy = aBuy
  aBuy2 = aBuy2
  aSell = aSell
  NoRow = NoRow
  Rows = {rBuy, rBuy2}
  Assets = {aBuy, aBuy2}
  AssetOf <- MCAssetOf
  ActionOf <- MCActionOf
  SelfSized = {}
  KillAt = {"entries", "process"}
  MaxOrders = 2
  Qty = 2
  NTiers = 1
INVARIANT
  ExecutedIsFilled
PROPERTY SessionEnds
CHECK_DEADLOCK FALSE
