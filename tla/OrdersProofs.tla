----------------------------- MODULE OrdersProofs -----------------------------
(* What one step of the broker, of the reader thread or of a placement can *)
(* do to the broker's orders and to the local record of them.              *)
EXTENDS Orders, TLAPS

(* A step of anybody that touches the orders.                              *)
OrdersStep == BrokerNext \/ ReaderNext(OrderId) \/ PlaceOrder

(* The broker holds nothing under an id not placed yet, an order that has  *)
(* no permId has not traded, and "filled" means all of it.                 *)
BrokerSound ==
  \A o \in OrderId :
    /\ o >= nextorderId => broker[o].state = "none"
    /\ broker[o].state \in {"none", "sent"} => broker[o].filled = 0
    /\ broker[o].state = "filled" => broker[o].filled = Qty

OrdersInv == OrdersTypeOK /\ BrokerSound /\ ViewSound

LEMMA OrdersInvInit == OrdersInit => OrdersInv
  BY OrdersAssumption
  DEF OrdersInit, OrdersInv, OrdersTypeOK, BrokerSound, ViewSound, NoView,
      OrderId, BrokerState, ViewStatus

(* Each action keeps the types.                                            *)
LEMMA OrdersTypeStep ==
  ASSUME OrdersTypeOK, [OrdersStep]_orderVars
  PROVE  OrdersTypeOK'
<1> USE OrdersAssumption DEF OrdersTypeOK, OrderId, BrokerState, ViewStatus
<1>1. CASE UNCHANGED orderVars
  BY <1>1 DEF orderVars
<1>2. CASE PlaceOrder
  <2>1. broker' \in [OrderId -> [state : BrokerState, filled : 0 .. Qty]]
    BY <1>2 DEF PlaceOrder
  <2>2. nextorderId' \in 1 .. MaxOrders + 1
    BY <1>2 DEF PlaceOrder
  <2> QED
    BY <1>2, <2>1, <2>2 DEF PlaceOrder
<1>3. CASE BrokerNext
  <2> PICK o \in OrderId : \/ BrokerAcknowledge(o) \/ BrokerFill(o)
                           \/ BrokerCancel(o) \/ BrokerReject(o)
    BY <1>3 DEF BrokerNext
  <2>1. CASE BrokerAcknowledge(o)
    BY <2>1 DEF BrokerAcknowledge
  <2>2. CASE BrokerFill(o)
    BY <2>2 DEF BrokerFill
  <2>3. CASE BrokerCancel(o)
    BY <2>3 DEF BrokerCancel
  <2>4. CASE BrokerReject(o)
    BY <2>4 DEF BrokerReject
  <2> QED
    BY <2>1, <2>2, <2>3, <2>4
<1>4. CASE ReaderNext(OrderId)
  <2> PICK o \in OrderId : \/ OrderStatus(o) \/ OpenOrder(o)
                           \/ ErrorCancelled(o) \/ ErrorRejected(o)
    BY <1>4 DEF ReaderNext
  <2>1. CASE OrderStatus(o)
    BY <2>1 DEF OrderStatus, WireStatus, Acknowledged, PermId
  <2>2. CASE OpenOrder(o)
    <3> DEFINE st == IF orders[o].status = "absent" THEN "unset"
                                                     ELSE orders[o].status
    <3>1. PermId(o) \in 0 .. MaxOrders
      BY DEF PermId
    <3>2. st \in ViewStatus /\ orders[o].filled \in 0 .. Qty
      OBVIOUS
    <3>3. orders' = [orders EXCEPT ![o] =
                       [status |-> st, filled |-> orders[o].filled,
                        permId |-> PermId(o)]]
      BY <2>2 DEF OpenOrder
    <3> HIDE DEF st
    <3> QED
      BY <2>2, <3>1, <3>2, <3>3 DEF OpenOrder
  <2>3. CASE ErrorCancelled(o)
    BY <2>3 DEF ErrorCancelled
  <2>4. CASE ErrorRejected(o)
    BY <2>4 DEF ErrorRejected
  <2> QED
    BY <2>1, <2>2, <2>3, <2>4
<1> QED
  BY <1>1, <1>2, <1>3, <1>4 DEF OrdersStep

(* Each action keeps the broker's own bookkeeping consistent.              *)
LEMMA BrokerSoundStep ==
  ASSUME OrdersInv, [OrdersStep]_orderVars
  PROVE  BrokerSound'
<1> USE OrdersAssumption DEF OrdersInv, OrdersTypeOK, OrderId, BrokerSound
<1>1. CASE UNCHANGED <<broker, nextorderId>>
  BY <1>1
<1>2. CASE PlaceOrder
  BY <1>2 DEF PlaceOrder
<1>3. CASE BrokerNext
  <2> PICK o \in OrderId : \/ BrokerAcknowledge(o) \/ BrokerFill(o)
                           \/ BrokerCancel(o) \/ BrokerReject(o)
    BY <1>3 DEF BrokerNext
  <2>1. CASE BrokerAcknowledge(o)
    BY <2>1 DEF BrokerAcknowledge
  <2>2. CASE BrokerFill(o)
    <3> PICK n \in broker[o].filled + 1 .. Qty :
          broker' = [broker EXCEPT ![o] =
                       [state  |-> IF n = Qty THEN "filled" ELSE "working",
                        filled |-> n]]
      BY <2>2 DEF BrokerFill
    <3>1. \A p \in OrderId : p # o => broker'[p] = broker[p]
      OBVIOUS
    <3>2. /\ broker'[o].state = (IF n = Qty THEN "filled" ELSE "working")
          /\ broker'[o].filled = n
      OBVIOUS
    <3>3. o < nextorderId /\ nextorderId' = nextorderId
      BY <2>2 DEF BrokerFill
    <3> QED
      BY <3>1, <3>2, <3>3
  <2>3. CASE BrokerCancel(o)
    BY <2>3 DEF BrokerCancel
  <2>4. CASE BrokerReject(o)
    BY <2>4 DEF BrokerReject, Live
  <2> QED
    BY <2>1, <2>2, <2>3, <2>4
<1>4. CASE ReaderNext(OrderId)
  <2>1. UNCHANGED <<broker, nextorderId>>
    BY <1>4 DEF ReaderNext, OrderStatus, OpenOrder, ErrorCancelled,
                ErrorRejected
  <2> QED
    BY <2>1
<1> QED
  BY <1>1, <1>2, <1>3, <1>4 DEF OrdersStep, orderVars

(* What is final at the broker is final for good, and shares once traded   *)
(* stay traded.                                                            *)
LEMMA FinalStays ==
  ASSUME OrdersInv, [OrdersStep]_orderVars, NEW o \in OrderId
  PROVE  /\ broker[o].state \in {"filled", "cancelled", "rejected"}
              => broker'[o] = broker[o]
         /\ broker[o].filled <= broker'[o].filled
         /\ broker[o].state # "none" => broker'[o].state # "none"
         /\ nextorderId <= nextorderId'
<1> USE OrdersAssumption DEF OrdersInv, OrdersTypeOK, OrderId, BrokerSound
<1>1. CASE UNCHANGED <<broker, nextorderId>>
  BY <1>1
<1>2. CASE PlaceOrder
  <2>1. o # nextorderId => broker'[o] = broker[o]
    BY <1>2 DEF PlaceOrder
  <2>2. broker'[nextorderId].filled = broker[nextorderId].filled
    BY <1>2 DEF PlaceOrder
  <2>3. broker[nextorderId].state = "none" /\ nextorderId' = nextorderId + 1
    BY <1>2 DEF PlaceOrder
  <2> QED
    BY <2>1, <2>2, <2>3
<1>3. CASE BrokerNext
  <2> PICK p \in OrderId : \/ BrokerAcknowledge(p) \/ BrokerFill(p)
                           \/ BrokerCancel(p) \/ BrokerReject(p)
    BY <1>3 DEF BrokerNext
  <2>1. CASE BrokerAcknowledge(p)
    BY <2>1 DEF BrokerAcknowledge
  <2>2. CASE BrokerFill(p)
    BY <2>2 DEF BrokerFill
  <2>3. CASE BrokerCancel(p)
    BY <2>3 DEF BrokerCancel
  <2>4. CASE BrokerReject(p)
    BY <2>4 DEF BrokerReject, Live
  <2> QED
    BY <2>1, <2>2, <2>3, <2>4
<1>4. CASE ReaderNext(OrderId)
  <2>1. UNCHANGED <<broker, nextorderId>>
    BY <1>4 DEF ReaderNext, OrderStatus, OpenOrder, ErrorCancelled,
                ErrorRejected
  <2> QED
    BY <2>1
<1> QED
  BY <1>1, <1>2, <1>3, <1>4 DEF OrdersStep, orderVars

(* The record stays sound: a broker step leaves what it says true, and a   *)
(* callback writes what the broker says.                                   *)
LEMMA ViewSoundStep ==
  ASSUME OrdersInv, [OrdersStep]_orderVars
  PROVE  ViewSound'
<1>1. CASE UNCHANGED <<orders, order_errors>>
  <2> SUFFICES ASSUME NEW o \in OrderId
               PROVE  /\ orders[o].status = "Filled"
                           => /\ broker'[o].state = "filled"
                              /\ orders[o].filled = Qty
                      /\ orders[o].status \in {"Cancelled", "ApiCancelled"}
                           => broker'[o].state = "cancelled"
                      /\ orders[o].status = "Inactive"
                           => broker'[o].state = "rejected"
                      /\ o \in order_errors => broker'[o].state = "rejected"
                      /\ orders[o].filled <= broker'[o].filled
    BY <1>1 DEF ViewSound
  <2>1. broker[o].filled \in Nat /\ broker'[o].filled \in Nat
        /\ orders[o].filled \in Nat
    BY OrdersTypeStep, OrdersAssumption DEF OrdersInv, OrdersTypeOK
  <2> QED
    BY <2>1, FinalStays DEF OrdersInv, ViewSound
<1>2. CASE ReaderNext(OrderId)
  <2> USE OrdersAssumption DEF OrdersInv, OrdersTypeOK, BrokerSound, ViewSound,
                               ViewStatus, BrokerState
  <2> PICK o \in OrderId : \/ OrderStatus(o) \/ OpenOrder(o)
                           \/ ErrorCancelled(o) \/ ErrorRejected(o)
    BY <1>2 DEF ReaderNext
  <2>1. CASE OrderStatus(o)
    BY <2>1 DEF OrderStatus, WireStatus, Acknowledged, PermId
  <2>2. CASE OpenOrder(o)
    BY <2>2 DEF OpenOrder
  <2>3. CASE ErrorCancelled(o)
    BY <2>3 DEF ErrorCancelled
  <2>4. CASE ErrorRejected(o)
    BY <2>4 DEF ErrorRejected
  <2> QED
    BY <2>1, <2>2, <2>3, <2>4
<1>3. BrokerNext \/ PlaceOrder \/ UNCHANGED orderVars
        => UNCHANGED <<orders, order_errors>>
  BY DEF BrokerNext, BrokerAcknowledge, BrokerFill, BrokerCancel, BrokerReject,
         PlaceOrder, orderVars
<1> QED
  BY <1>1, <1>2, <1>3 DEF OrdersStep

(* The three together, for the components that place and watch orders.     *)
LEMMA OrdersInvStep ==
  ASSUME OrdersInv, [OrdersStep]_orderVars
  PROVE  OrdersInv'
  BY OrdersTypeStep, BrokerSoundStep, ViewSoundStep DEF OrdersInv

=============================================================================
