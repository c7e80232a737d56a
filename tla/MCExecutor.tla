----------------------------- MODULE MCExecutor -----------------------------
(* Rows for TLC: two to buy and one to sell, of three assets; a run takes  *)
(* some of them.                                                           *)
EXTENDS Executor

CONSTANTS rBuy, rBuy2, rSell, aBuy, aBuy2, aSell

MCAssetOf ==
  [r \in Rows |-> CASE r = rSell -> aSell
                    [] r = rBuy2 -> aBuy2
                    [] r = rBuy  -> aBuy]

MCActionOf == [r \in Rows |-> IF r = rSell THEN "SELL" ELSE "BUY"]

=============================================================================
