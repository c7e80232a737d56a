-------------------------------- MODULE Ticks --------------------------------
(***************************************************************************)
(* Prices and tick tables (core/contracts.py) and the stop price built on  *)
(* them (BracketBuilder.calculate_stop_price): pure functions.             *)
(*                                                                         *)
(* A price is a whole number of some unit that divides every tick and, for *)
(* the percentages of a stop loss, a hundredth of every price that trades: *)
(* the code computes with Decimal where the unit would matter.             *)
(***************************************************************************)
EXTENDS Integers, Sequences, FiniteSetsExt

(* A tick table as marketRule stores it.                                   *)
Band == [lowEdge : Nat, increment : Nat \ {0}]

(* What exchanges publish: bands from zero up, and an edge that is a price *)
(* in the band below it as well as in its own.                             *)
Published(t) ==
  /\ t \in Seq(Band)
  /\ t # <<>>
  /\ t[1].lowEdge = 0
  /\ \A i, j \in DOMAIN t : i < j => t[i].lowEdge < t[j].lowEdge
  /\ \A i \in DOMAIN t : t[i].lowEdge % t[i].increment = 0
  /\ \A i \in DOMAIN t :
       i < Len(t) => t[i + 1].lowEdge % t[i].increment = 0

-----------------------------------------------------------------------------
(* get_tick_table compares tables by the tick at a reference price: the    *)
(* loop has no break, the last band whose edge is reached counts.          *)
ReferenceTick(t, p) ==
  LET reached == {i \in DOMAIN t : t[i].lowEdge <= p} IN
    IF reached = {} THEN t[1].increment ELSE t[Max(reached)].increment

(* get_tick_size breaks at the first edge that is not reached.             *)
TickSize(t, p) ==
  LET walked == {i \in DOMAIN t : \A j \in 1..i : t[j].lowEdge <= p} IN
    IF walked = {} THEN t[1].increment ELSE t[Max(walked)].increment

(* round_to_tick: ROUND_HALF_UP of the quotient.                           *)
RoundToTick(p, tick) == ((2 * p + tick) \div (2 * tick)) * tick

-----------------------------------------------------------------------------
(* Faulty variants: a loss of 1 is no percentage any more; the tick of the *)
(* band the fill lies in.                                                  *)
NormalizedAboveOne(loss) == IF loss <= 100 THEN loss ELSE loss \div 100

TickAtFill(t, fill, loss) == TickSize(t, fill)

-----------------------------------------------------------------------------
(* A stop loss in hundredths, 5 for "0.05" and 500 for "5": _execute_      *)
(* entries takes what is above 1 for a percentage, and                     *)
(* calculate_stop_price what is not below 1.                               *)
Fraction(loss) == IF loss > 100 THEN loss \div 100 ELSE loss

Normalized(loss) == IF loss < 100 THEN loss ELSE loss \div 100

(* The stop of a long position that was filled at a price of so many       *)
(* hundreds of units.                                                      *)
RawStop(fill, loss) == (fill \div 100) * (100 - Normalized(Fraction(loss)))

StopTick(t, fill, loss) == TickSize(t, RawStop(fill, loss))

StopPrice(t, fill, loss) ==
  RoundToTick(RawStop(fill, loss), StopTick(t, fill, loss))

-----------------------------------------------------------------------------
(* A price the exchange accepts: on the grid of the band it lies in.       *)
Conforms(t, p) == p % TickSize(t, p) = 0

=============================================================================
