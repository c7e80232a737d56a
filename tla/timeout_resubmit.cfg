SPECIFICATION Spec
CONSTANTS
  rBuy = rBuy
  rBuy2 = rBuy2
  rSell = rSell
  aBuy = aBuy
  aBuy2 = aBuy2
  aSell = aSell
  NoRow = NoRow
  Rows = {rBuy}
  Assets = {aBuy}
  AssetOf <- MCAssetOf
  ActionOf <- MCActionOf
  SelfSized = {}
  KillAt = {}
  MaxOrders = 2
  Qty = 1
  NTiers = 1
INVARIANT OneEntryPerRow
CHECK_DEADLOCK FALSE
