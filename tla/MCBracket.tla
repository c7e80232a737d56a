----------------------------- MODULE MCBracket -----------------------------
(* Rows for TLC: at most two to buy and one to sell.                       *)
EXTENDS Bracket

CONSTANTS rBuy, rBuy2, rSell

MCActionOf == [r \in Rows |-> IF r = rSell THEN "SELL" ELSE "BUY"]

=============================================================================
