---------------------------- MODULE OrderVerdicts ----------------------------
(***************************************************************************)
(* What FillMonitor.monitor_all promises its caller, without passes, polls *)
(* and callbacks: it judges each order it was given once and never again,  *)
(* each judgement is true of the broker when it is made, and it returns    *)
(* when every order has been judged.  FillMonitor implements it.           *)
(***************************************************************************)
EXTENDS Naturals

CONSTANTS OrderId, Qty

VARIABLES
  fate,     \* what TWS has made of each order
  traded,   \* shares traded
  watched,  \* the orders of the call, {} before it
  verdict,  \* what was told of each order, and the quantity
  returned  \* the call has returned

verdictVars == <<fate, traded, watched, verdict, returned>>

NotTold == [told |-> "nothing", qty |-> 0]

Verdict ==
  [told : {"filled", "dead", "partial", "timeout"}, qty : 0 .. Qty]

Init ==
  /\ fate = [o \in OrderId |-> "open"]
  /\ traded = [o \in OrderId |-> 0]
  /\ watched = {}
  /\ verdict = [o \in OrderId |-> NotTold]
  /\ returned = FALSE

-----------------------------------------------------------------------------
(* The exchange: an order trades, and ends at most once.                   *)
Happen(o) ==
  /\ fate[o] = "open"
  /\ \E f \in {"open", "filled", "dead"}, n \in traded[o] .. Qty :
       /\ f = "filled" => n = Qty
       /\ fate' = [fate EXCEPT ![o] = f]
       /\ traded' = [traded EXCEPT ![o] = n]
  /\ UNCHANGED <<watched, verdict, returned>>

Watch(S) ==
  /\ watched = {}
  /\ S # {}
  /\ watched' = S
  /\ UNCHANGED <<fate, traded, verdict, returned>>

(* What a verdict may say.  Of a dead order it gives no quantity, though   *)
(* shares may have traded before it died.                                  *)
TrueOf(o, v) ==
  /\ v.told = "filled" => fate[o] = "filled" /\ v.qty = Qty
  /\ v.told = "dead" => fate[o] = "dead" /\ v.qty = 0
  /\ v.told = "partial" => v.qty \in 1 .. traded[o]
  /\ v.told = "timeout" => v.qty = 0

Judge(o) ==
  /\ o \in watched
  /\ verdict[o] = NotTold
  /\ \E v \in Verdict :
       /\ TrueOf(o, v)
       /\ verdict' = [verdict EXCEPT ![o] = v]
  /\ UNCHANGED <<fate, traded, watched, returned>>

Return ==
  /\ watched # {}
  /\ ~returned
  /\ \A o \in watched : verdict[o] # NotTold
  /\ returned' = TRUE
  /\ UNCHANGED <<fate, traded, watched, verdict>>

Next ==
  \/ \E o \in OrderId : Happen(o) \/ Judge(o)
  \/ \E S \in SUBSET OrderId : Watch(S)
  \/ Return

Spec == Init /\ [][Next]_verdictVars

=============================================================================
