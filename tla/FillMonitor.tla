----------------------------- MODULE FillMonitor -----------------------------
(***************************************************************************)
(* FillMonitor.monitor_all (execution/fill_monitor.py): poll the record of *)
(* every pending order, one after the other, pass after pass, until each   *)
(* has a verdict or the time is up; the orders left get a last verdict     *)
(* from the quantity recorded for them.  The reader thread rewrites the    *)
(* record between any two reads.                                           *)
(***************************************************************************)
EXTENDS Orders

VARIABLES
  mpc,      \* where the call stands
  pending,  \* orders without a verdict
  todo,     \* orders of the current pass not looked at yet
  results   \* FillResult of each order: status, filled_qty, perm_id

monitorVars == <<mpc, pending, todo, results>>

VerdictStatus ==
  {"none", "Filled", "Rejected", "PartialFill", "Timeout"} \cup EndStatus

NoVerdict == [status |-> "none", qty |-> 0, perm |-> 0]

NoResults == [o \in OrderId |-> NoVerdict]

MonitorTypeOK ==
  /\ mpc \in {"off", "pass", "final", "done"}
  /\ pending \subseteq OrderId
  /\ todo \subseteq pending
  /\ results \in [OrderId -> [status : VerdictStatus, qty : 0 .. Qty,
                              perm : 0 .. MaxOrders]]

MonitorInit ==
  /\ mpc = "off"
  /\ pending = {}
  /\ todo = {}
  /\ results = NoResults

Judged(o) == results[o].status # "none"

-----------------------------------------------------------------------------
(* Faulty variants: a first fill taken for the whole; a clock that never   *)
(* runs out; a final loop over the unfilled orders only, or over all of    *)
(* them; every pass over all orders again.                                 *)
AnyFill(o) == orders[o].filled > 0

NeverTimesOut == FALSE

ForgetPartial ==
  /\ mpc = "pass"
  /\ todo = {}
  /\ pending # {}
  /\ mpc' = "final"
  /\ todo' = {o \in pending : orders[o].filled = 0}
  /\ UNCHANGED <<pending, results>>

FinalOverAll ==
  /\ mpc = "pass"
  /\ todo = {}
  /\ pending # {}
  /\ mpc' = "final"
  /\ todo' = 1 .. nextorderId - 1
  /\ UNCHANGED <<pending, results>>

StartOver ==
  /\ mpc = "pass"
  /\ todo = {}
  /\ pending # {}
  /\ todo' = 1 .. nextorderId - 1
  /\ UNCHANGED <<mpc, pending, results>>

-----------------------------------------------------------------------------
Complete(o) == orders[o].status = "Filled"

Judge(o, v) ==
  /\ results' = [results EXCEPT ![o] = v]
  /\ pending' = pending \ {o}

MonitorStart(ids) ==
  /\ mpc = "off"
  /\ ids # {}
  /\ mpc' = "pass"
  /\ pending' = ids
  /\ todo' = ids
  /\ results' = NoResults

(* The three branches of the loop body, in their order, and falling        *)
(* through all of them.                                                    *)
MonitorPoll(o) ==
  /\ mpc = "pass"
  /\ o \in todo
  /\ todo' = todo \ {o}
  /\ UNCHANGED mpc
  /\ \/ /\ Complete(o)
        /\ Judge(o, [status |-> "Filled", qty |-> orders[o].filled,
                     perm |-> orders[o].permId])
     \/ /\ ~Complete(o)
        /\ orders[o].status \in EndStatus
        /\ Judge(o, [status |-> orders[o].status, qty |-> 0,
                     perm |-> orders[o].permId])
     \/ /\ ~Complete(o)
        /\ orders[o].status \notin EndStatus
        /\ HasOrderErrors(o)
        /\ Judge(o, [status |-> "Rejected", qty |-> 0,
                     perm |-> orders[o].permId])
     \/ /\ ~Complete(o)
        /\ orders[o].status \notin EndStatus
        /\ ~HasOrderErrors(o)
        /\ UNCHANGED <<pending, results>>

MonitorNextPass ==
  /\ mpc = "pass"
  /\ todo = {}
  /\ pending # {}
  /\ todo' = pending
  /\ UNCHANGED <<mpc, pending, results>>

(* `time.time() - start_time` has reached the timeout at the head of the   *)
(* loop; after which pass is left open.                                    *)
MonitorTimeout ==
  /\ mpc = "pass"
  /\ todo = {}
  /\ pending # {}
  /\ mpc' = "final"
  /\ todo' = pending
  /\ UNCHANGED <<pending, results>>

(* The loop after the timeout reads only the filled quantity.              *)
MonitorFinal(o) ==
  /\ mpc = "final"
  /\ o \in todo
  /\ todo' = todo \ {o}
  /\ UNCHANGED mpc
  /\ Judge(o, [status |-> IF orders[o].filled > 0 THEN "PartialFill"
                                                  ELSE "Timeout",
               qty    |-> orders[o].filled,
               perm   |-> orders[o].permId])

MonitorDone ==
  /\ \/ mpc = "pass" /\ pending = {}
     \/ mpc = "final" /\ todo = {}
  /\ mpc' = "done"
  /\ UNCHANGED <<pending, todo, results>>

(* The caller has consumed the results.                                    *)
MonitorReset ==
  /\ mpc' = "off"
  /\ pending' = {}
  /\ todo' = {}
  /\ results' = NoResults

MonitorStep ==
  \/ \E o \in OrderId : MonitorPoll(o)
  \/ MonitorNextPass
  \/ MonitorTimeout
  \/ \E o \in OrderId : MonitorFinal(o)
  \/ MonitorDone

-----------------------------------------------------------------------------
(* The monitor alone, called once with all the orders on the wire.         *)

Placed == 1 .. nextorderId - 1

MonitorNext ==
  \/ /\ mpc = "off"
     /\ PlaceOrder
     /\ UNCHANGED monitorVars
  \/ /\ MonitorStart(Placed)
     /\ UNCHANGED orderVars
  \/ /\ MonitorStep
     /\ UNCHANGED orderVars
  \/ /\ BrokerNext
     /\ UNCHANGED monitorVars
  \/ /\ ReaderNext(OrderId)
     /\ UNCHANGED monitorVars

mvars == <<orderVars, monitorVars>>

MonitorAloneInit == OrdersInit /\ MonitorInit

MonitorSpec == MonitorAloneInit /\ [][MonitorNext]_mvars

(* The loop runs on, and the clock does run out: a timeout that is         *)
(* possible at every pass boundary is not put off for ever.                *)
MonitorFairSpec ==
  /\ MonitorSpec
  /\ WF_mvars(MonitorStep /\ UNCHANGED orderVars)
  /\ SF_mvars(MonitorTimeout /\ UNCHANGED orderVars)

-----------------------------------------------------------------------------
MonitorSafetyTypeOK == OrdersTypeOK /\ MonitorTypeOK

(* A verdict is never contradicted by the broker, then or later: "Filled"  *)
(* is a complete fill, a refusal or cancellation is an order that cannot   *)
(* trade any more, and a partial quantity was really traded.  The executor *)
(* books positions and settles rows on nothing else.                       *)
VerdictSound ==
  \A o \in OrderId :
    /\ results[o].status = "Filled"
         => /\ broker[o].state = "filled"
            /\ results[o].qty = Qty
    /\ results[o].status \in EndStatus \cup {"Rejected"} => Dead(o)
    /\ results[o].status = "PartialFill"
         => /\ results[o].qty > 0
            /\ results[o].qty <= broker[o].filled

(* Every order is either still watched or judged, never both and never     *)
(* neither: none is dropped between two passes or by the final loop.       *)
EveryOrderJudged ==
  /\ mpc \in {"pass", "final", "done"}
       => \A o \in Placed : Judged(o) <=> o \notin pending
  /\ mpc = "done" => pending = {}

(* A call as its caller sees it, and the broker as far as verdicts go.     *)
Fate ==
  [o \in OrderId |-> CASE broker[o].state = "filled" -> "filled"
                       [] Dead(o)                    -> "dead"
                       [] OTHER                      -> "open"]

Told(r) ==
  [told |-> CASE r.status = "none"        -> "nothing"
              [] r.status = "Filled"      -> "filled"
              [] r.status = "PartialFill" -> "partial"
              [] r.status = "Timeout"     -> "timeout"
              [] OTHER                    -> "dead",
   qty  |-> r.qty]

SharesTraded == [o \in OrderId |-> broker[o].filled]

InCall == pending \cup {o \in OrderId : Judged(o)}

Tellings == [o \in OrderId |-> Told(results[o])]

V == INSTANCE OrderVerdicts WITH
       fate <- Fate, traded <- SharesTraded, watched <- InCall,
       verdict <- Tellings, returned <- mpc = "done"

(* monitor_all judges every order exactly once, truly at that moment, and  *)
(* returns when all are judged: no later poll, pass or final loop rewrites *)
(* a verdict, whatever callbacks come in between.                          *)
ImplementsVerdicts == V!Spec

(* monitor_all returns however late or silent the callbacks are.           *)
MonitorReturns == (mpc = "pass") ~> (mpc = "done")

=============================================================================
