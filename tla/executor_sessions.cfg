SPECIFICATION Spec
CONSTANTS
  rBuy = rBuy
  rBuy2 = rBuy2
  rSell = rSell
  aBuy = aBuy
  aBuy2 = aBuy2
  aSell = aSell
  NoRow = NoRow
  Rows = {rBuy, rSell}
  Assets = {aBuy, aSell}
  AssetOf <- MCAssetOf
  ActionOf <- MCActionOf
  SelfSized = {}
  KillAt = {"exits", "entries", "persist", "monitor", "process"}
  MaxOrders = 3
  Qty = 1
  NTiers = 1
INVARIANTS
  TypeOK
  ExecutedIsBooked
  LedgerSound
  ClosedIsSettled
  OneOrderPerRow
  FailedIsDead
  PersistedIsNewest
PROPERTY ImplementsLedger
CHECK_DEADLOCK FALSE
