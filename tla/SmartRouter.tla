----------------------------- MODULE SmartRouter -----------------------------
(***************************************************************************)
(* SmartRouter.submit_with_fallback (execution/order_router.py): place the *)
(* order with the first tier, look 1.5 s later whether it was refused, and *)
(* go on with the next tier if it was.  The look may come before, between  *)
(* or after the callbacks of the order just placed.                        *)
(***************************************************************************)
EXTENDS Orders

CONSTANT NTiers  \* length of the list _build_attempts returns (4 in the code)

ASSUME RouterAssumption == NTiers \in Nat \ {0}

VARIABLES
  rpc,    \* where the call stands
  tier,   \* tier of the loop
  cur,    \* order_id of the tier being tried
  tried   \* order ids this call has placed

routerVars == <<rpc, tier, cur, tried>>

RouterTypeOK ==
  /\ rpc \in {"idle", "place", "check", "accepted", "failed"}
  /\ tier \in 0 .. NTiers
  /\ cur \in OrderId \cup {NoOrder}
  /\ tried \subseteq OrderId

RouterInit ==
  /\ rpc = "idle"
  /\ tier = 0
  /\ cur = NoOrder
  /\ tried = {}

-----------------------------------------------------------------------------
(* Faulty variants: silence taken for a refusal; the tier never advanced;  *)
(* one tier too many.                                                      *)
RefusedOnSilence(o) ==
  \/ HasOrderErrors(o)
  \/ orders[o].status \notin {"Submitted", "Filled"}

SameTier == tier

LastTierLate == tier > NTiers

-----------------------------------------------------------------------------
(* The two tests that make the loop `continue`.                            *)
Refused(o) ==
  \/ HasOrderErrors(o)
  \/ orders[o].status \in {"Cancelled", "Inactive"}

NextTier == tier + 1

LastTier == tier = NTiers

RouterCall ==
  /\ rpc = "idle"
  /\ rpc' = "place"
  /\ tier' = 1
  /\ cur' = NoOrder
  /\ tried' = {}

RouterPlace ==
  /\ rpc = "place"
  /\ PlaceOrder
  /\ cur' = nextorderId
  /\ tried' = tried \cup {nextorderId}
  /\ rpc' = "check"
  /\ UNCHANGED tier

RouterTryNext ==
  /\ rpc = "check"
  /\ Refused(cur)
  /\ ~LastTier
  /\ rpc' = "place"
  /\ tier' = NextTier
  /\ UNCHANGED <<cur, tried>>

RouterGiveUp ==
  /\ rpc = "check"
  /\ Refused(cur)
  /\ LastTier
  /\ rpc' = "failed"
  /\ UNCHANGED <<tier, cur, tried>>

RouterAccept ==
  /\ rpc = "check"
  /\ ~Refused(cur)
  /\ rpc' = "accepted"
  /\ UNCHANGED <<tier, cur, tried>>

(* The caller has taken the returned id, or None.                          *)
RouterReturn ==
  /\ rpc \in {"accepted", "failed"}
  /\ rpc' = "idle"
  /\ tier' = 0
  /\ cur' = NoOrder
  /\ tried' = {}

RouterLocal == RouterTryNext \/ RouterGiveUp \/ RouterAccept

-----------------------------------------------------------------------------
(* The router alone, under a caller that submits one order after another   *)
(* while the bound leaves room for every tier.                             *)

RouterMain ==
  \/ RouterPlace
  \/ /\ RouterLocal
     /\ UNCHANGED orderVars
  \/ /\ RouterReturn
     /\ UNCHANGED orderVars

RouterSubmit ==
  /\ nextorderId + NTiers <= MaxOrders + 1
  /\ RouterCall
  /\ UNCHANGED orderVars

RouterNext ==
  \/ RouterSubmit
  \/ RouterMain
  \/ /\ BrokerNext
     /\ UNCHANGED routerVars
  \/ /\ ReaderNext(OrderId)
     /\ UNCHANGED routerVars

rvars == <<orderVars, routerVars>>

RouterAloneInit == OrdersInit /\ RouterInit

RouterSpec == RouterAloneInit /\ [][RouterNext]_rvars

(* The main thread runs whenever its sleep is over; nothing is assumed of  *)
(* the broker or of the callbacks.                                         *)
RouterFairSpec == RouterSpec /\ WF_rvars(RouterMain)

-----------------------------------------------------------------------------
SafetyTypeOK == OrdersTypeOK /\ RouterTypeOK

(* An order the router has given up on is dead at the broker: when a later *)
(* tier is on the wire, or None is returned, no earlier order of the call  *)
(* can still trade.  Otherwise one signal would hold two working orders.   *)
GivenUpIsDead ==
  /\ \A o \in tried \ {cur} : Dead(o)
  /\ rpc \in {"place", "failed"} => \A o \in tried : Dead(o)

(* Shares filled by all the orders one call has placed.                    *)
CallFilled ==
  LET sum[n \in 0 .. MaxOrders] ==
        IF n = 0 THEN 0
        ELSE sum[n - 1] + IF n \in tried THEN broker[n].filled ELSE 0
  IN sum[MaxOrders]

(* The caller asked for `quantity` shares "with automatic fallback on      *)
(* rejection", so one call never buys more than that.                      *)
NeverOverfilled == CallFilled <= Qty

(* A call as its caller sees it.                                           *)
Alive == {o \in tried : ~Dead(o)}

Answer ==
  CASE rpc = "accepted" -> {cur}
    [] rpc = "failed"   -> {NoOrder}
    [] OTHER            -> {}

C == INSTANCE OrderCall WITH
       placed <- tried, alive <- Alive, answer <- Answer

(* submit_with_fallback behaves like one order: no tier is placed while an *)
(* earlier order of the call may trade or has filled, None is returned for *)
(* dead orders only, and the id returned is the one order that may trade.  *)
ImplementsOrderCall == C!Spec

(* Every call returns an id or None: each tier waits a fixed time.         *)
CallReturns == (rpc = "place") ~> (rpc \in {"accepted", "failed"})

=============================================================================
