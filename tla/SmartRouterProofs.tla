--------------------------- MODULE SmartRouterProofs ---------------------------
(* The router never leaves two orders of one call able to trade, for every *)
(* number of tiers, of orders and of shares, whenever the callbacks come.  *)
EXTENDS SmartRouter, OrdersProofs

(* The orders of a call are placed ones, and `cur` is the last of them.    *)
CallTied ==
  /\ \A o \in tried : o < nextorderId
  /\ rpc \in {"check", "accepted", "failed"} => cur \in tried
  /\ rpc = "idle" => tried = {}

RouterInv == RouterTypeOK /\ CallTied /\ GivenUpIsDead

(* A step of the router, of its caller or of anybody else.                 *)
RouterStep ==
  \/ RouterPlace
  \/ RouterLocal /\ UNCHANGED orderVars
  \/ RouterReturn /\ UNCHANGED orderVars
  \/ RouterCall /\ UNCHANGED orderVars
  \/ OrdersStep /\ UNCHANGED routerVars

LEMMA RouterInvInit == RouterInit => RouterInv
  BY RouterAssumption
  DEF RouterInit, RouterInv, RouterTypeOK, CallTied, GivenUpIsDead, NoOrder

(* Whatever the router takes for a refusal is one: the order is dead.      *)
LEMMA RefusedIsDead ==
  ASSUME OrdersInv, NEW o \in OrderId, Refused(o)
  PROVE  Dead(o)
  BY DEF OrdersInv, ViewSound, Refused, HasOrderErrors, Dead

(* And a dead order stays dead.                                            *)
LEMMA DeadStays ==
  ASSUME OrdersInv, [OrdersStep]_orderVars, NEW o \in OrderId, Dead(o)
  PROVE  Dead(o)'
  BY FinalStays DEF Dead

LEMMA RouterTypeStep ==
  ASSUME OrdersInv, RouterTypeOK, [RouterStep]_rvars
  PROVE  RouterTypeOK'
<1> USE RouterAssumption DEF RouterTypeOK
<1>1. CASE RouterPlace
  BY <1>1 DEF RouterPlace, PlaceOrder
<1>2. CASE RouterLocal
  BY <1>2 DEF RouterLocal, RouterTryNext, RouterGiveUp, RouterAccept,
              NextTier, LastTier
<1>3. CASE RouterReturn
  BY <1>3 DEF RouterReturn
<1>4. CASE RouterCall
  BY <1>4 DEF RouterCall
<1>5. CASE UNCHANGED routerVars
  BY <1>5 DEF routerVars
<1> QED
  BY <1>1, <1>2, <1>3, <1>4, <1>5 DEF RouterStep, rvars

LEMMA CallTiedStep ==
  ASSUME OrdersInv, RouterTypeOK, CallTied, [RouterStep]_rvars
  PROVE  CallTied'
<1> USE DEF CallTied
<1>1. CASE RouterPlace
  <2>1. nextorderId \in OrderId /\ nextorderId' = nextorderId + 1
    BY <1>1 DEF RouterPlace, PlaceOrder
  <2> QED
    BY <1>1, <2>1 DEF RouterPlace, RouterTypeOK, OrderId
<1>2. CASE RouterLocal /\ UNCHANGED orderVars
  BY <1>2 DEF RouterLocal, RouterTryNext, RouterGiveUp, RouterAccept, orderVars
<1>3. CASE (RouterReturn \/ RouterCall) /\ UNCHANGED orderVars
  BY <1>3 DEF RouterReturn, RouterCall, orderVars
<1>4. CASE [OrdersStep]_orderVars /\ UNCHANGED routerVars
  <2>1. 1 \in OrderId
    BY OrdersAssumption DEF OrderId
  <2>2. nextorderId <= nextorderId'
    BY <1>4, <2>1, FinalStays
  <2>3. nextorderId \in Nat /\ nextorderId' \in Nat
    BY <1>4, OrdersTypeStep, OrdersAssumption DEF OrdersInv, OrdersTypeOK
  <2> QED
    BY <1>4, <2>2, <2>3 DEF routerVars, RouterTypeOK, OrderId
<1> QED
  BY <1>1, <1>2, <1>3, <1>4 DEF RouterStep, rvars

LEMMA GivenUpStep ==
  ASSUME OrdersInv, RouterInv, [RouterStep]_rvars
  PROVE  GivenUpIsDead'
<1> USE DEF RouterInv, GivenUpIsDead
<1>1. CASE RouterPlace
  <2>1. \A o \in tried : Dead(o)'
    BY <1>1, DeadStays DEF RouterPlace, OrdersStep, RouterTypeOK
  <2> QED
    BY <1>1, <2>1 DEF RouterPlace
<1>2. CASE RouterLocal /\ UNCHANGED orderVars
  <2>1. \A o \in OrderId : Dead(o)' <=> Dead(o)
    BY <1>2 DEF Dead, orderVars
  <2>2. tried' = tried /\ cur' = cur /\ tried \subseteq OrderId
    BY <1>2 DEF RouterLocal, RouterTryNext, RouterGiveUp, RouterAccept,
                RouterTypeOK
  <2>3. CASE Refused(cur)
    <3>1. Dead(cur)
      BY <1>2, <2>2, <2>3, RefusedIsDead
         DEF CallTied, RouterLocal, RouterTryNext, RouterGiveUp, RouterAccept
    <3> QED
      BY <2>1, <2>2, <3>1
  <2>4. CASE ~Refused(cur)
    BY <1>2, <2>1, <2>2, <2>4
       DEF RouterLocal, RouterTryNext, RouterGiveUp, RouterAccept
  <2> QED
    BY <2>3, <2>4
<1>3. CASE RouterReturn \/ RouterCall
  BY <1>3 DEF RouterReturn, RouterCall
<1>4. CASE [OrdersStep]_orderVars /\ UNCHANGED routerVars
  BY <1>4, DeadStays DEF routerVars, RouterTypeOK
<1> QED
  BY <1>1, <1>2, <1>3, <1>4 DEF RouterStep, rvars

LEMMA RouterInvStep ==
  ASSUME OrdersInv, RouterInv, [RouterStep]_rvars
  PROVE  RouterInv'
  BY RouterTypeStep, CallTiedStep, GivenUpStep DEF RouterInv

(* What any step of the router means for the orders.                       *)
LEMMA RouterStepIsOrdersStep ==
  ASSUME [RouterStep]_rvars
  PROVE  [OrdersStep]_orderVars
  BY DEF RouterStep, RouterPlace, OrdersStep, rvars

-----------------------------------------------------------------------------
LEMMA RouterNextIsStep ==
  ASSUME [RouterNext]_rvars
  PROVE  [RouterStep]_rvars
  BY DEF RouterNext, RouterSubmit, RouterMain, RouterStep, OrdersStep

(* Every behaviour of the router keeps both invariants.                    *)
LEMMA RouterSpecInv == RouterSpec => [](OrdersInv /\ RouterInv)
<1>1. OrdersInit /\ RouterInit => OrdersInv /\ RouterInv
  BY OrdersInvInit, RouterInvInit
<1>2. [RouterNext]_rvars => [RouterStep]_rvars
  BY RouterNextIsStep
<1>3. OrdersInv /\ RouterInv /\ [RouterStep]_rvars => (OrdersInv /\ RouterInv)'
  BY RouterInvStep, OrdersInvStep, RouterStepIsOrdersStep
<1> QED
  BY <1>1, <1>2, <1>3, PTL DEF RouterSpec, RouterAloneInit

(* Types: one call uses at most NTiers tiers, and only ids it has taken.   *)
THEOREM RouterTypeCorrect == RouterSpec => []SafetyTypeOK
<1>1. OrdersInv /\ RouterInv => SafetyTypeOK
  BY DEF OrdersInv, RouterInv, SafetyTypeOK
<1> QED
  BY <1>1, RouterSpecInv, PTL

(* ConnectionManager.orders and order_errors never contradict the broker,  *)
(* however late the reader thread is.                                      *)
THEOREM ViewIsSound == RouterSpec => []ViewSound
<1>1. OrdersInv => ViewSound
  BY DEF OrdersInv
<1> QED
  BY <1>1, RouterSpecInv, PTL

(* submit_with_fallback: a tier is given up only when its order can no     *)
(* longer trade, so two orders of one call are never alive together.       *)
THEOREM RouterGivesUpOnlyTheDead == RouterSpec => []GivenUpIsDead
<1>1. RouterInv => GivenUpIsDead
  BY DEF RouterInv
<1> QED
  BY <1>1, RouterSpecInv, PTL

-----------------------------------------------------------------------------
(* The contract of a call.                                                 *)

(* TWS and the reader thread: at most one order dies, and the answer stays.*)
LEMMA DyingIsDie ==
  ASSUME OrdersInv, RouterInv, NEW o \in OrderId, UNCHANGED routerVars,
         \A p \in OrderId \ {o} : broker'[p] = broker[p],
         [OrdersStep]_orderVars
  PROVE  [C!Next]_(C!callVars)
<1>1. tried' = tried /\ Answer' = Answer /\ tried \subseteq OrderId
  BY DEF routerVars, Answer, RouterInv, RouterTypeOK
<1>2. \A p \in tried \ {o} : Dead(p)' <=> Dead(p)
  BY <1>1 DEF Dead
<1>3. CASE o \in Alive /\ Dead(o)'
  <2>1. Alive' = Alive \ {o}
    BY <1>1, <1>2, <1>3 DEF Alive
  <2> QED
    BY <1>1, <1>3, <2>1 DEF C!Next, C!Die
<1>4. CASE ~(o \in Alive /\ Dead(o)')
  <2>1. Dead(o) => Dead(o)'
    BY DeadStays
  <2>2. Alive' = Alive
    BY <1>1, <1>2, <1>4, <2>1 DEF Alive
  <2> QED
    BY <1>1, <2>2 DEF C!callVars
<1> QED
  BY <1>3, <1>4

(* A step of TWS, of the reader or of another caller is about one order.   *)
LEMMA OthersStep ==
  ASSUME OrdersInv, RouterInv, UNCHANGED routerVars, [OrdersStep]_orderVars
  PROVE  [C!Next]_(C!callVars)
<1>1. CASE BrokerNext
  <2> PICK o \in OrderId : \/ BrokerAcknowledge(o) \/ BrokerFill(o)
                           \/ BrokerCancel(o) \/ BrokerReject(o)
    BY <1>1 DEF BrokerNext
  <2>1. \A p \in OrderId \ {o} : broker'[p] = broker[p]
    BY DEF BrokerAcknowledge, BrokerFill, BrokerCancel, BrokerReject,
           OrdersInv, OrdersTypeOK
  <2> QED
    BY <2>1, DyingIsDie
<1>2. CASE ReaderNext(OrderId) \/ UNCHANGED orderVars
  <2>1. broker' = broker
    BY <1>2 DEF ReaderNext, OrderStatus, OpenOrder, ErrorCancelled,
                ErrorRejected, orderVars
  <2>2. 1 \in OrderId
    BY OrdersAssumption DEF OrderId
  <2> QED
    BY <2>1, <2>2, DyingIsDie
<1>3. CASE PlaceOrder
  <2>1. /\ nextorderId \in OrderId
        /\ \A p \in OrderId \ {nextorderId} : broker'[p] = broker[p]
    BY <1>3 DEF PlaceOrder, OrdersInv, OrdersTypeOK
  <2> QED
    BY <2>1, DyingIsDie
<1> QED
  BY <1>1, <1>2, <1>3 DEF OrdersStep

(* A tier on the wire is the call's only living order.                     *)
LEMMA PlaceIsPlace ==
  ASSUME OrdersInv, RouterInv, RouterPlace
  PROVE  C!Next
<1>1. /\ rpc = "place" /\ rpc' = "check"
      /\ nextorderId \in OrderId
      /\ tried' = tried \cup {nextorderId}
      /\ broker' = [broker EXCEPT ![nextorderId].state = "sent"]
  BY DEF RouterPlace, PlaceOrder
<1>2. Answer = {} /\ Answer' = {}
  BY <1>1 DEF Answer
<1>3. \A o \in tried : o \in OrderId /\ Dead(o) /\ o # nextorderId
  BY <1>1, OrdersAssumption
  DEF RouterInv, GivenUpIsDead, CallTied, RouterTypeOK, OrderId
<1>4. Alive = {}
  BY <1>3 DEF Alive
<1>5. ASSUME NEW n, n = nextorderId
      PROVE  Alive' = {n}
  <2>1. ~Dead(n)'
    BY <1>1, <1>5 DEF Dead, OrdersInv, OrdersTypeOK
  <2>2. \A o \in tried : broker'[o] = broker[o]
    BY <1>1, <1>3 DEF OrdersInv, OrdersTypeOK
  <2>3. \A o \in tried : Dead(o)'
    BY <1>3, <2>2 DEF Dead
  <2> QED
    BY <1>1, <1>5, <2>1, <2>3 DEF Alive
<1>6. C!Place(nextorderId)
  BY <1>1, <1>2, <1>3, <1>4, <1>5 DEF C!Place
<1> QED
  BY <1>1, <1>6 DEF C!Next

(* The look at a tier is an answer or no step at all.                      *)
LEMMA LookIsAnswer ==
  ASSUME OrdersInv, RouterInv, RouterLocal, UNCHANGED orderVars
  PROVE  [C!Next]_(C!callVars)
<1>1. /\ tried' = tried /\ cur' = cur /\ rpc = "check"
      /\ cur \in tried /\ tried \subseteq OrderId
  BY DEF RouterLocal, RouterTryNext, RouterGiveUp, RouterAccept, RouterInv,
         CallTied, RouterTypeOK
<1>2. Alive' = Alive /\ Answer = {}
  BY <1>1 DEF Alive, Dead, orderVars, Answer
<1>3. \A o \in tried \ {cur} : Dead(o)
  BY DEF RouterInv, GivenUpIsDead
<1>4. CASE RouterTryNext
  <2>1. Answer' = {}
    BY <1>4 DEF RouterTryNext, Answer
  <2> QED
    BY <1>1, <1>2, <2>1 DEF C!callVars
<1>5. CASE RouterGiveUp
  <2>1. Answer' = {NoOrder} /\ Dead(cur)
    BY <1>1, <1>5, RefusedIsDead DEF RouterGiveUp, Answer
  <2>2. Alive = {}
    BY <1>3, <2>1 DEF Alive
  <2> QED
    BY <1>1, <1>2, <2>1, <2>2 DEF C!Next, C!GiveUp
<1>6. CASE RouterAccept
  <2>1. Answer' = {cur}
    BY <1>1, <1>6 DEF RouterAccept, Answer
  <2>2. Alive \subseteq {cur}
    BY <1>3 DEF Alive
  <2> QED
    BY <1>1, <1>2, <2>1, <2>2 DEF C!Next, C!Accept
<1> QED
  BY <1>4, <1>5, <1>6 DEF RouterLocal

LEMMA OrderCallStep ==
  ASSUME OrdersInv, RouterInv, [RouterStep]_rvars
  PROVE  [C!Next]_(C!callVars)
<1>1. CASE RouterCall
  <2>1. /\ tried = {} /\ tried' = {}
        /\ Answer = {} /\ Answer' = {}
    BY <1>1 DEF RouterCall, RouterInv, CallTied, Answer
  <2>2. Alive = {} /\ Alive' = {}
    BY <2>1 DEF Alive
  <2> QED
    BY <2>1, <2>2 DEF C!callVars
<1>2. CASE RouterPlace
  BY <1>2, PlaceIsPlace
<1>3. CASE RouterLocal /\ UNCHANGED orderVars
  BY <1>3, LookIsAnswer
<1>4. CASE RouterReturn
  <2>1. Answer # {} /\ Answer' = {} /\ tried' = {}
    BY <1>4 DEF RouterReturn, Answer
  <2>2. Alive' = {}
    BY <2>1 DEF Alive
  <2> QED
    BY <2>1, <2>2 DEF C!Next, C!Return
<1>5. CASE [OrdersStep]_orderVars /\ UNCHANGED routerVars
  BY <1>5, OthersStep
<1> QED
  BY <1>1, <1>2, <1>3, <1>4, <1>5 DEF RouterStep, rvars

LEMMA OrderCallInit == RouterInit => C!Init
  BY DEF RouterInit, C!Init, Alive, Answer

(* submit_with_fallback keeps the contract OrderCall, for every number of  *)
(* tiers: its caller may treat a call as one order that is accepted once   *)
(* or never.                                                               *)
THEOREM RouterImplementsOrderCall == RouterSpec => ImplementsOrderCall
<1>1. OrdersInv /\ RouterInv /\ [RouterNext]_rvars => [C!Next]_(C!callVars)
  BY RouterNextIsStep, OrderCallStep
<1> QED
  BY <1>1, OrderCallInit, RouterSpecInv, PTL
  DEF RouterSpec, RouterAloneInit, ImplementsOrderCall, C!Spec

=============================================================================
