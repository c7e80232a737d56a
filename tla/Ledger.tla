-------------------------------- MODULE Ledger --------------------------------
(***************************************************************************)
(* What BaseExecutor promises to whoever reads its CSV files, without      *)
(* sessions, routers or monitors: a row is traded at the broker, then the  *)
(* position is written, then the row is settled, then the closed trade is  *)
(* recorded, each in a write of its own and for one row alone.  Executor   *)
(* implements it whenever no two rows share an asset.                      *)
(***************************************************************************)
EXTENDS Naturals

CONSTANTS Rows, Assets, AssetOf, ActionOf

VARIABLES
  traded,     \* rows with an order filled in full at the broker
  status,     \* pending_signals.csv: status
  positions,  \* active_positions.csv: rows of each asset
  recorded    \* rows with a record in closed_trades.csv

ledgerVars == <<traded, status, positions, recorded>>

Initially(a) ==
  IF \E r \in Rows : ActionOf[r] = "SELL" /\ AssetOf[r] = a THEN 1 ELSE 0

Init ==
  /\ traded = {}
  /\ status = [r \in Rows |-> "PENDING"]
  /\ positions = [a \in Assets |-> Initially(a)]
  /\ recorded = {}

(* The position file shows the trade of a row.                             *)
Booked(r) ==
  IF ActionOf[r] = "BUY" THEN positions[AssetOf[r]] > 0
                         ELSE positions[AssetOf[r]] = 0

-----------------------------------------------------------------------------
Trade(r) ==
  /\ r \notin traded
  /\ traded' = traded \cup {r}
  /\ UNCHANGED <<status, positions, recorded>>

(* Once more for every order of the row that fills while it is pending.    *)
Book(r) ==
  /\ r \in traded
  /\ status[r] = "PENDING"
  /\ positions' = [positions EXCEPT
       ![AssetOf[r]] = IF ActionOf[r] = "SELL" THEN 0 ELSE @ + 1]
  /\ UNCHANGED <<traded, status, recorded>>

Execute(r) ==
  /\ r \in traded
  /\ status[r] = "PENDING"
  /\ Booked(r)
  /\ status' = [status EXCEPT ![r] = "EXECUTED"]
  /\ UNCHANGED <<traded, positions, recorded>>

Abandon(r) ==
  /\ status[r] = "PENDING"
  /\ \E s \in {"PARTIAL_FILL", "FAILED"} : status' = [status EXCEPT ![r] = s]
  /\ UNCHANGED <<traded, positions, recorded>>

Record(r) ==
  /\ ActionOf[r] = "SELL"
  /\ status[r] = "EXECUTED"
  /\ r \notin recorded
  /\ recorded' = recorded \cup {r}
  /\ UNCHANGED <<traded, status, positions>>

Next ==
  \E r \in Rows :
    Trade(r) \/ Book(r) \/ Execute(r) \/ Abandon(r) \/ Record(r)

Spec == Init /\ [][Next]_ledgerVars

=============================================================================
