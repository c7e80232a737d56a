------------------------------- MODULE Orders -------------------------------
(***************************************************************************)
(* How a ConnectionManager tracks the orders it has placed.                *)
(*                                                                         *)
(* `broker` is what TWS / IBKR itself holds for an order (not under src/;  *)
(* modelled from the callbacks src/ handles and the statuses it tests).    *)
(* `orders` and `order_errors` are the two dictionaries of the same names  *)
(* in core/connection.py.  The reader thread fills them from callbacks, so *)
(* they lag behind the broker by an arbitrary delay; every callback        *)
(* carries a full snapshot, and a snapshot overtaken by a newer one before *)
(* it is dispatched is not distinguished.                                  *)
(***************************************************************************)
EXTENDS Naturals, FiniteSets

CONSTANTS
  MaxOrders,  \* bound: order ids ever allocated
  Qty         \* shares in one order

ASSUME OrdersAssumption ==
  /\ MaxOrders \in Nat \ {0}
  /\ Qty \in Nat \ {0}

VARIABLES
  broker,       \* external: state and filled quantity of each order id
  orders,       \* ConnectionManager.orders: status, filled, permId known or 0
  order_errors, \* ids with an entry of ORDER_REJECTION_CODES in order_errors
  nextorderId   \* ConnectionManager.nextorderId

orderVars == <<broker, orders, order_errors, nextorderId>>

OrderId == 1 .. MaxOrders

NoOrder == 0

(* What the broker may hold.  "sent" is an order on the wire that has no   *)
(* permId yet.                                                             *)
BrokerState ==
  {"none", "sent", "working", "filled", "cancelled", "rejected"}

(* "absent" is an id with no key in conn.orders, "unset" a key without a   *)
(* "status"; get_order_status returns None for both.                       *)
ViewStatus ==
  {"absent", "unset", "Submitted", "Filled", "Cancelled", "ApiCancelled",
   "Inactive"}

(* The statuses fill_monitor.py takes for the end of an order.             *)
EndStatus == {"Cancelled", "ApiCancelled", "Inactive"}

OrdersTypeOK ==
  /\ broker \in [OrderId -> [state : BrokerState, filled : 0 .. Qty]]
  /\ orders \in [OrderId -> [status : ViewStatus, filled : 0 .. Qty,
                             permId : 0 .. MaxOrders]]
  /\ order_errors \subseteq OrderId
  /\ nextorderId \in 1 .. MaxOrders + 1

NoView ==
  [o \in OrderId |-> [status |-> "absent", filled |-> 0, permId |-> 0]]

OrdersInit ==
  /\ broker = [o \in OrderId |-> [state |-> "none", filled |-> 0]]
  /\ orders = NoView
  /\ order_errors = {}
  /\ nextorderId = 1

-----------------------------------------------------------------------------
(* Readings of the state.                                                  *)

(* The order may still trade.                                              *)
Live(o) == broker[o].state \in {"sent", "working"}

(* The order will never trade again and did not complete.                  *)
Dead(o) == broker[o].state \in {"cancelled", "rejected"}

(* TWS has accepted the order.                                             *)
Acknowledged(o) == broker[o].state \notin {"none", "sent"}

(* The permId its messages carry, named by the order id; 0 before that.    *)
PermId(o) == IF Acknowledged(o) THEN o ELSE 0

(* What the messages call a state; a cancelled order has two names.        *)
WireStatus(s) ==
  CASE s = "working"   -> {"Submitted"}
    [] s = "filled"    -> {"Filled"}
    [] s = "cancelled" -> {"Cancelled", "ApiCancelled"}
    [] s = "rejected"  -> {"Inactive"}

-----------------------------------------------------------------------------
(* The broker (external).                                                  *)

BrokerAcknowledge(o) ==
  /\ broker[o].state = "sent"
  /\ broker' = [broker EXCEPT ![o].state = "working"]
  /\ UNCHANGED <<orders, order_errors, nextorderId>>

BrokerFill(o) ==
  /\ broker[o].state = "working"
  /\ \E n \in broker[o].filled + 1 .. Qty :
       broker' = [broker EXCEPT ![o] =
                    [state  |-> IF n = Qty THEN "filled" ELSE "working",
                     filled |-> n]]
  /\ UNCHANGED <<orders, order_errors, nextorderId>>

(* Cancelled by the exchange or by hand in TWS; shares already filled stay *)
(* filled.                                                                 *)
BrokerCancel(o) ==
  /\ broker[o].state = "working"
  /\ broker' = [broker EXCEPT ![o].state = "cancelled"]
  /\ UNCHANGED <<orders, order_errors, nextorderId>>

(* A refusal reaches an order that has not traded.                         *)
BrokerReject(o) ==
  /\ Live(o)
  /\ broker[o].filled = 0
  /\ broker' = [broker EXCEPT ![o].state = "rejected"]
  /\ UNCHANGED <<orders, order_errors, nextorderId>>

-----------------------------------------------------------------------------
(* Faulty variant: any error about an order marks it cancelled.            *)
AnyErrorCancels(o) ==
  /\ Acknowledged(o)
  /\ orders[o].status # "absent"
  /\ orders' = [orders EXCEPT ![o].status = "Cancelled"]
  /\ UNCHANGED <<broker, order_errors, nextorderId>>

-----------------------------------------------------------------------------
(* Callbacks dispatched by the reader thread.                              *)

(* orderStatus / orderStatusProtoBuf: the whole record is overwritten.     *)
OrderStatus(o) ==
  /\ Acknowledged(o)
  /\ \E s \in WireStatus(broker[o].state) :
       orders' = [orders EXCEPT ![o] = [status |-> s,
                                        filled |-> broker[o].filled,
                                        permId |-> PermId(o)]]
  /\ UNCHANGED <<broker, order_errors, nextorderId>>

(* openOrder / openOrderProtoBuf: creates the key and writes the permId,   *)
(* which is 0 until TWS has assigned one; it never writes a status.        *)
OpenOrder(o) ==
  /\ broker[o].state # "none"
  /\ orders' = [orders EXCEPT ![o] =
                  [status |-> IF @.status = "absent" THEN "unset" ELSE @.status,
                   filled |-> @.filled,
                   permId |-> PermId(o)]]
  /\ UNCHANGED <<broker, order_errors, nextorderId>>

(* error() with code 202: only a key that exists is marked.                *)
ErrorCancelled(o) ==
  /\ broker[o].state = "cancelled"
  /\ orders[o].status # "absent"
  /\ orders' = [orders EXCEPT ![o].status = "Cancelled"]
  /\ UNCHANGED <<broker, order_errors, nextorderId>>

(* error() with a code of ORDER_REJECTION_CODES.                           *)
ErrorRejected(o) ==
  /\ broker[o].state = "rejected"
  /\ order_errors' = order_errors \cup {o}
  /\ UNCHANGED <<broker, orders, nextorderId>>

BrokerNext ==
  \E o \in OrderId :
    \/ BrokerAcknowledge(o)
    \/ BrokerFill(o)
    \/ BrokerCancel(o)
    \/ BrokerReject(o)

(* The reader thread, delivering callbacks about the orders of a set.      *)
ReaderNext(ids) ==
  \E o \in ids :
    \/ OrderStatus(o)
    \/ OpenOrder(o)
    \/ ErrorCancelled(o)
    \/ ErrorRejected(o)

-----------------------------------------------------------------------------
(* Calls made by the main thread.                                          *)

(* next_order_id() followed by placeOrder(); the guard is the bound.       *)
PlaceOrder ==
  /\ nextorderId \in OrderId
  /\ broker' = [broker EXCEPT ![nextorderId].state = "sent"]
  /\ nextorderId' = nextorderId + 1
  /\ UNCHANGED <<orders, order_errors>>

(* has_order_errors(order_id) with the default code set.                   *)
HasOrderErrors(o) == o \in order_errors

-----------------------------------------------------------------------------
(* What the local record tells about the broker, however late it is: every *)
(* terminal status it shows is the broker's own final state, a recorded    *)
(* refusal is a refusal, and it never shows more shares than were traded.  *)
ViewSound ==
  \A o \in OrderId :
    /\ orders[o].status = "Filled"
         => /\ broker[o].state = "filled"
            /\ orders[o].filled = Qty
    /\ orders[o].status \in {"Cancelled", "ApiCancelled"}
         => broker[o].state = "cancelled"
    /\ orders[o].status = "Inactive"  => broker[o].state = "rejected"
    /\ o \in order_errors             => broker[o].state = "rejected"
    /\ orders[o].filled <= broker[o].filled

=============================================================================
