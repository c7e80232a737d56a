--------------------------- MODULE FillMonitorProofs ---------------------------
(* A verdict of the fill monitor is never contradicted by the broker, and  *)
(* no order is dropped, for every number of orders and of shares.          *)
EXTENDS FillMonitor, OrdersProofs

MonitorInv == MonitorTypeOK /\ VerdictSound

LEMMA NoResultsType ==
  NoResults \in [OrderId -> [status : VerdictStatus, qty : 0 .. Qty,
                             perm : 0 .. MaxOrders]]
<1>1. "none" \in VerdictStatus
  BY DEF VerdictStatus
<1> QED
  BY <1>1, OrdersAssumption DEF NoResults, NoVerdict

LEMMA MonitorTypeInit == MonitorInit => MonitorTypeOK
  BY NoResultsType DEF MonitorInit, MonitorTypeOK

LEMMA MonitorInvInit == MonitorInit => MonitorInv
  BY MonitorTypeInit
  DEF MonitorInit, MonitorInv, VerdictSound, NoResults, NoVerdict, EndStatus

(* What a poll or the final loop makes of one order: nothing, or a verdict *)
(* that agrees with the broker.                                            *)
SoundFor(o, v) ==
  /\ v.status = "Filled" => broker[o].state = "filled" /\ v.qty = Qty
  /\ v.status \in EndStatus \cup {"Rejected"} => Dead(o)
  /\ v.status = "PartialFill" => v.qty > 0 /\ v.qty <= broker[o].filled

Verdicts == [status : VerdictStatus, qty : 0 .. Qty, perm : 0 .. MaxOrders]

(* It names a quantity only where it vouches for it.                       *)
NoQuantity(v) ==
  v.status \in EndStatus \cup {"Rejected", "Timeout"} => v.qty = 0

LEMMA PollIsSound ==
  ASSUME OrdersInv, MonitorTypeOK, NEW o \in OrderId,
         MonitorPoll(o) \/ MonitorFinal(o)
  PROVE  \/ UNCHANGED <<pending, results>>
         \/ \E v \in Verdicts : /\ SoundFor(o, v) /\ NoQuantity(v)
                               /\ v.status # "none" /\ Judge(o, v)
<1> USE OrdersAssumption DEF Verdicts, VerdictStatus, NoQuantity, EndStatus
<1>1. orders[o].filled \in 0 .. Qty /\ orders[o].permId \in 0 .. MaxOrders
  BY DEF OrdersInv, OrdersTypeOK
<1>2. CASE MonitorPoll(o)
  <2>1. CASE Complete(o)
    <3> DEFINE v == [status |-> "Filled", qty |-> orders[o].filled,
                     perm |-> orders[o].permId]
    <3>1. Judge(o, v)
      BY <1>2, <2>1 DEF MonitorPoll
    <3>2. SoundFor(o, v) /\ NoQuantity(v) /\ v.status # "none" /\ v \in Verdicts
      BY <1>1, <2>1 DEF SoundFor, Complete, OrdersInv, ViewSound
    <3> HIDE DEF v
    <3> QED
      BY <3>1, <3>2
  <2>2. CASE ~Complete(o) /\ orders[o].status \in EndStatus
    <3> DEFINE v == [status |-> orders[o].status, qty |-> 0,
                     perm |-> orders[o].permId]
    <3>1. Judge(o, v)
      BY <1>2, <2>2 DEF MonitorPoll
    <3>2. SoundFor(o, v) /\ NoQuantity(v) /\ v.status # "none" /\ v \in Verdicts
      BY <1>1, <2>2 DEF SoundFor, Dead, OrdersInv, ViewSound
    <3> HIDE DEF v
    <3> QED
      BY <3>1, <3>2
  <2>3. CASE /\ ~Complete(o)
             /\ orders[o].status \notin EndStatus
             /\ HasOrderErrors(o)
    <3> DEFINE v == [status |-> "Rejected", qty |-> 0,
                     perm |-> orders[o].permId]
    <3>1. Judge(o, v)
      BY <1>2, <2>3 DEF MonitorPoll
    <3>2. SoundFor(o, v) /\ NoQuantity(v) /\ v.status # "none" /\ v \in Verdicts
      BY <1>1, <2>3 DEF SoundFor, Dead, HasOrderErrors, OrdersInv, ViewSound
    <3> HIDE DEF v
    <3> QED
      BY <3>1, <3>2
  <2> QED
    BY <1>2, <2>1, <2>2, <2>3 DEF MonitorPoll
<1>3. CASE MonitorFinal(o)
  <2> DEFINE v == [status |-> IF orders[o].filled > 0 THEN "PartialFill"
                                                      ELSE "Timeout",
                   qty    |-> orders[o].filled,
                   perm   |-> orders[o].permId]
  <2>1. Judge(o, v)
    BY <1>3 DEF MonitorFinal
  <2>2. SoundFor(o, v) /\ NoQuantity(v) /\ v.status # "none" /\ v \in Verdicts
    BY <1>1 DEF SoundFor, OrdersInv, ViewSound
  <2> HIDE DEF v
  <2> QED
    BY <2>1, <2>2
<1> QED
  BY <1>2, <1>3

(* A step of the monitor, of its caller or of anybody else.                *)
MonitorAnyStep ==
  \/ MonitorStep /\ UNCHANGED orderVars
  \/ (\E ids \in SUBSET OrderId : MonitorStart(ids)) /\ UNCHANGED orderVars
  \/ OrdersStep /\ UNCHANGED monitorVars

LEMMA MonitorTypeStep ==
  ASSUME OrdersInv, MonitorTypeOK, [MonitorAnyStep]_mvars
  PROVE  MonitorTypeOK'
<1>1. CASE UNCHANGED monitorVars
  BY <1>1 DEF monitorVars, MonitorTypeOK
<1>2. ASSUME NEW o \in OrderId, MonitorPoll(o) \/ MonitorFinal(o)
      PROVE  MonitorTypeOK'
  <2>1. todo' = todo \ {o} /\ mpc' = mpc
    BY <1>2 DEF MonitorPoll, MonitorFinal
  <2>2. CASE UNCHANGED <<pending, results>>
    BY <2>1, <2>2 DEF MonitorTypeOK
  <2>3. CASE \E v \in Verdicts : Judge(o, v)
    BY <2>1, <2>3 DEF MonitorTypeOK, Judge, Verdicts
  <2> QED
    BY <1>2, <2>2, <2>3, PollIsSound
<1>3. CASE MonitorNextPass \/ MonitorTimeout \/ MonitorDone
  BY <1>3 DEF MonitorNextPass, MonitorTimeout, MonitorDone, MonitorTypeOK
<1>4. ASSUME NEW ids \in SUBSET OrderId, MonitorStart(ids)
      PROVE  MonitorTypeOK'
  BY <1>4, NoResultsType DEF MonitorStart, MonitorTypeOK
<1> QED
  BY <1>1, <1>2, <1>3, <1>4 DEF MonitorAnyStep, MonitorStep, mvars

LEMMA VerdictSoundStep ==
  ASSUME OrdersInv, MonitorInv, [MonitorAnyStep]_mvars
  PROVE  VerdictSound'
<1> USE DEF MonitorInv, MonitorTypeOK
<1>1. CASE [OrdersStep]_orderVars /\ UNCHANGED monitorVars
  <2> SUFFICES ASSUME NEW o \in OrderId
               PROVE  SoundFor(o, results[o])'
    BY DEF VerdictSound, SoundFor
  <2>1. results'[o] = results[o]
    BY <1>1 DEF monitorVars
  <2>2. SoundFor(o, results[o])
    BY DEF VerdictSound, SoundFor
  <2>3. broker[o].filled \in Nat /\ broker'[o].filled \in Nat
        /\ results[o].qty \in Nat
    BY <1>1, OrdersTypeStep, OrdersAssumption DEF OrdersInv, OrdersTypeOK
  <2> QED
    BY <1>1, <2>1, <2>2, <2>3, FinalStays DEF SoundFor, Dead
<1>2. ASSUME NEW o \in OrderId, MonitorPoll(o) \/ MonitorFinal(o),
             UNCHANGED orderVars
      PROVE  VerdictSound'
  <2>1. CASE UNCHANGED results
    BY <1>2, <2>1 DEF VerdictSound, orderVars, Dead
  <2>2. CASE \E v \in Verdicts : SoundFor(o, v) /\ Judge(o, v)
    BY <1>2, <2>2 DEF VerdictSound, SoundFor, Judge, orderVars, Dead
  <2> QED
    BY <1>2, <2>1, <2>2, PollIsSound
<1>3. CASE /\ MonitorNextPass \/ MonitorTimeout \/ MonitorDone
           /\ UNCHANGED orderVars
  BY <1>3 DEF MonitorNextPass, MonitorTimeout, MonitorDone, VerdictSound,
              orderVars, Dead
<1>4. ASSUME NEW ids \in SUBSET OrderId, MonitorStart(ids)
      PROVE  VerdictSound'
  BY <1>4 DEF MonitorStart, NoResults, NoVerdict, VerdictSound, EndStatus
<1> QED
  BY <1>1, <1>2, <1>3, <1>4 DEF MonitorAnyStep, MonitorStep, mvars

LEMMA MonitorInvStep ==
  ASSUME OrdersInv, MonitorInv, [MonitorAnyStep]_mvars
  PROVE  MonitorInv'
  BY MonitorTypeStep, VerdictSoundStep DEF MonitorInv

-----------------------------------------------------------------------------
LEMMA MonitorNextIsAnyStep ==
  ASSUME OrdersInv, [MonitorNext]_mvars
  PROVE  [MonitorAnyStep]_mvars
<1>1. Placed \in SUBSET OrderId
  BY OrdersAssumption DEF Placed, OrderId, OrdersInv, OrdersTypeOK
<1> QED
  BY <1>1 DEF MonitorNext, MonitorAnyStep, OrdersStep

LEMMA MonitorSpecInv == MonitorSpec => [](OrdersInv /\ MonitorInv)
<1>1. OrdersInit /\ MonitorInit => OrdersInv /\ MonitorInv
  BY OrdersInvInit, MonitorInvInit
<1>2. OrdersInv /\ [MonitorNext]_mvars => [MonitorAnyStep]_mvars
  BY MonitorNextIsAnyStep
<1>3. [MonitorAnyStep]_mvars => [OrdersStep]_orderVars
  BY DEF MonitorAnyStep, mvars
<1>4. /\ OrdersInv /\ MonitorInv
      /\ [MonitorAnyStep]_mvars
      => (OrdersInv /\ MonitorInv)'
  BY <1>3, MonitorInvStep, OrdersInvStep
<1> QED
  BY <1>1, <1>2, <1>4, PTL DEF MonitorSpec, MonitorAloneInit

(* Types of the monitor's variables, for every bound.                      *)
THEOREM MonitorTypeCorrect == MonitorSpec => []MonitorSafetyTypeOK
<1>1. OrdersInv /\ MonitorInv => MonitorSafetyTypeOK
  BY DEF OrdersInv, MonitorInv, MonitorSafetyTypeOK
<1> QED
  BY <1>1, MonitorSpecInv, PTL

(* monitor_all: what a FillResult says of an order stays true at the       *)
(* broker, whatever callbacks come before, between and after the reads.    *)
THEOREM VerdictsAreSound == MonitorSpec => []VerdictSound
<1>1. MonitorInv => VerdictSound
  BY DEF MonitorInv
<1> QED
  BY <1>1, MonitorSpecInv, PTL

-----------------------------------------------------------------------------
(* Why no order is dropped: the final loop still has every pending order   *)
(* before it.                                                              *)
FinalPending == mpc = "final" => pending \subseteq todo

(* A judgement of one order, in either loop, moves that order and no other *)
(* from pending to judged.                                                 *)
LEMMA JudgeMovesOne ==
  ASSUME OrdersInv, MonitorInv, EveryOrderJudged, FinalPending,
         NEW o \in OrderId, MonitorPoll(o) \/ MonitorFinal(o),
         UNCHANGED orderVars
  PROVE  EveryOrderJudged' /\ FinalPending'
<1>1. Placed' = Placed /\ Placed \subseteq OrderId
  BY OrdersAssumption
  DEF Placed, orderVars, OrderId, OrdersInv, OrdersTypeOK
<1>2. /\ mpc' = mpc /\ mpc \in {"pass", "final"}
      /\ todo' = todo \ {o}
      /\ results \in [OrderId -> [status : VerdictStatus, qty : 0 .. Qty,
                                  perm : 0 .. MaxOrders]]
  BY DEF MonitorPoll, MonitorFinal, MonitorInv, MonitorTypeOK
<1>3. CASE UNCHANGED <<pending, results>>
  <2>1. mpc = "pass"
    <3> SUFFICES ASSUME MonitorFinal(o) PROVE FALSE
      BY DEF MonitorPoll
    <3>1. o \in pending /\ o \notin pending'
      BY DEF MonitorFinal, Judge, MonitorInv, MonitorTypeOK
    <3> QED
      BY <1>3, <3>1
  <2> QED
    BY <1>1, <1>2, <1>3, <2>1 DEF EveryOrderJudged, FinalPending, Judged
<1>4. CASE \E v \in Verdicts : v.status # "none" /\ Judge(o, v)
  <2>1. PICK v \in Verdicts : v.status # "none" /\ Judge(o, v)
    BY <1>4
  <2>2. /\ pending' = pending \ {o}
        /\ \A p \in OrderId : results'[p] = IF p = o THEN v ELSE results[p]
    BY <1>2, <2>1 DEF Judge
  <2> QED
    BY <1>1, <1>2, <2>1, <2>2 DEF EveryOrderJudged, FinalPending, Judged
<1> QED
  BY <1>3, <1>4, PollIsSound DEF MonitorInv

LEMMA NoneDroppedStep ==
  ASSUME OrdersInv, MonitorInv, EveryOrderJudged, FinalPending,
         [MonitorNext]_mvars
  PROVE  EveryOrderJudged' /\ FinalPending'
<1>1. Placed \subseteq OrderId
  BY OrdersAssumption DEF Placed, OrderId, OrdersInv, OrdersTypeOK
<1>2. CASE mpc = "off" /\ PlaceOrder /\ UNCHANGED monitorVars
  BY <1>2 DEF monitorVars, EveryOrderJudged, FinalPending
<1>3. CASE MonitorStart(Placed) /\ UNCHANGED orderVars
  BY <1>1, <1>3
  DEF MonitorStart, orderVars, Placed, NoResults, NoVerdict, Judged,
      EveryOrderJudged, FinalPending
<1>4. CASE MonitorStep /\ UNCHANGED orderVars
  <2>1. ASSUME NEW o \in OrderId, MonitorPoll(o) \/ MonitorFinal(o)
        PROVE  EveryOrderJudged' /\ FinalPending'
    BY <1>4, <2>1, JudgeMovesOne
  <2>2. CASE MonitorNextPass \/ MonitorTimeout
    BY <1>4, <2>2
    DEF MonitorNextPass, MonitorTimeout, orderVars, Placed, Judged,
        EveryOrderJudged, FinalPending
  <2>3. CASE MonitorDone
    BY <1>4, <2>3
    DEF MonitorDone, orderVars, Placed, Judged, EveryOrderJudged,
        FinalPending
  <2> QED
    BY <1>4, <2>1, <2>2, <2>3 DEF MonitorStep
<1>5. CASE (BrokerNext \/ ReaderNext(OrderId)) /\ UNCHANGED monitorVars
  <2>1. nextorderId' = nextorderId
    BY <1>5
    DEF BrokerNext, BrokerAcknowledge, BrokerFill, BrokerCancel,
        BrokerReject, ReaderNext, OrderStatus, OpenOrder, ErrorCancelled,
        ErrorRejected
  <2> QED
    BY <1>5, <2>1
    DEF monitorVars, Placed, Judged, EveryOrderJudged, FinalPending
<1>6. CASE UNCHANGED mvars
  BY <1>6
  DEF mvars, orderVars, monitorVars, Placed, Judged, EveryOrderJudged,
      FinalPending
<1> QED
  BY <1>2, <1>3, <1>4, <1>5, <1>6 DEF MonitorNext

(* monitor_all: no order is dropped between two passes or by the final     *)
(* loop, and none is judged and still watched.                             *)
THEOREM EveryOrderIsJudged == MonitorSpec => []EveryOrderJudged
<1>1. OrdersInit /\ MonitorInit => EveryOrderJudged /\ FinalPending
  BY DEF MonitorInit, EveryOrderJudged, FinalPending
<1>2. /\ OrdersInv /\ MonitorInv /\ EveryOrderJudged /\ FinalPending
      /\ [MonitorNext]_mvars
      => (EveryOrderJudged /\ FinalPending)'
  BY NoneDroppedStep
<1> QED
  BY <1>1, <1>2, MonitorSpecInv, PTL DEF MonitorSpec, MonitorAloneInit

-----------------------------------------------------------------------------
(* The contract of a call.                                                 *)

(* A call in progress has orders, each of them watched or judged but not   *)
(* both; nothing is said of an order not judged, or before the call.       *)
CallGiven ==
  /\ mpc = "off" <=> InCall = {}
  /\ \A o \in pending : ~Judged(o)
  /\ \A o \in OrderId : ~Judged(o) => results[o].qty = 0

CallInv == CallGiven /\ FinalPending

LEMMA CallInvInit == MonitorInit => CallInv
  BY DEF MonitorInit, CallInv, CallGiven, FinalPending, InCall, Judged,
         NoResults, NoVerdict

(* A poll or the final loop changes nothing, or moves one order.           *)
LEMMA PollMovesOne ==
  ASSUME OrdersInv, MonitorInv, CallInv, NEW o \in OrderId,
         MonitorPoll(o) \/ MonitorFinal(o)
  PROVE  /\ CallInv'
         /\ InCall' = InCall
         /\ o \in pending
<1>1. /\ mpc' = mpc /\ mpc \in {"pass", "final"}
      /\ todo' = todo \ {o} /\ o \in pending
      /\ results \in [OrderId -> Verdicts]
      /\ pending \subseteq OrderId
  BY DEF MonitorPoll, MonitorFinal, MonitorInv, MonitorTypeOK, Verdicts
<1>2. CASE UNCHANGED <<pending, results>>
  <2>1. mpc = "pass"
    <3> SUFFICES ASSUME MonitorFinal(o) PROVE FALSE
      BY DEF MonitorPoll
    <3> QED
      BY <1>1, <1>2 DEF MonitorFinal, Judge
  <2> QED
    BY <1>1, <1>2, <2>1 DEF CallInv, CallGiven, FinalPending, InCall, Judged
<1>3. CASE \E v \in Verdicts : v.status # "none" /\ Judge(o, v)
  <2>1. PICK v \in Verdicts : v.status # "none" /\ Judge(o, v)
    BY <1>3
  <2>2. /\ pending' = pending \ {o}
        /\ \A p \in OrderId : results'[p] = IF p = o THEN v ELSE results[p]
    BY <1>1, <2>1 DEF Judge
  <2>3. \A p \in OrderId : Judged(p)' <=> Judged(p) \/ p = o
    BY <2>1, <2>2 DEF Judged
  <2>4. InCall' = InCall
    BY <1>1, <2>2, <2>3 DEF InCall
  <2> QED
    BY <1>1, <2>1, <2>2, <2>3, <2>4 DEF CallInv, CallGiven, FinalPending
<1> QED
  BY <1>1, <1>2, <1>3, PollIsSound DEF MonitorInv

LEMMA CallInvStep ==
  ASSUME OrdersInv, MonitorInv, CallInv, [MonitorAnyStep]_mvars
  PROVE  CallInv'
<1> USE DEF CallInv, CallGiven, FinalPending, InCall, Judged
<1>1. CASE UNCHANGED monitorVars
  BY <1>1 DEF monitorVars
<1>2. ASSUME NEW ids \in SUBSET OrderId, MonitorStart(ids)
      PROVE  CallInv'
  BY <1>2 DEF MonitorStart, NoResults, NoVerdict
<1>3. ASSUME NEW o \in OrderId, MonitorPoll(o) \/ MonitorFinal(o)
      PROVE  CallInv'
  BY <1>3, PollMovesOne
<1>4. CASE MonitorNextPass \/ MonitorTimeout \/ MonitorDone
  BY <1>4 DEF MonitorNextPass, MonitorTimeout, MonitorDone
<1> QED
  BY <1>1, <1>2, <1>3, <1>4 DEF MonitorAnyStep, MonitorStep, mvars

(* What the orders of the broker look like through Fate.                   *)
LEMMA FateOf ==
  ASSUME OrdersInv, NEW o \in OrderId
  PROVE  /\ Fate[o] \in {"open", "filled", "dead"}
         /\ Fate[o] = "filled" <=> broker[o].state = "filled"
         /\ Fate[o] = "dead" <=> Dead(o)
         /\ SharesTraded[o] = broker[o].filled
         /\ SharesTraded[o] \in 0 .. Qty
  BY DEF Fate, SharesTraded, Dead, OrdersInv, OrdersTypeOK

(* Of a verdict, an order has been told something.                         *)
LEMMA ToldOf ==
  ASSUME NEW v \in [status : VerdictStatus, qty : 0 .. Qty,
                    perm : 0 .. MaxOrders],
         v.status = "none" => v.qty = 0
  PROVE  /\ v.status = "none" <=> Told(v) = V!NotTold
         /\ v.status # "none" => Told(v) \in V!Verdict
         /\ Told(v).told = "filled" <=> v.status = "Filled"
         /\ Told(v).told = "partial" <=> v.status = "PartialFill"
         /\ Told(v).told = "timeout" <=> v.status = "Timeout"
         /\ Told(v).told = "dead"
              <=> v.status \in EndStatus \cup {"Rejected"}
         /\ Told(v).qty = v.qty
  BY DEF Told, V!NotTold, V!Verdict, VerdictStatus, EndStatus

(* TWS and the reader thread: one order trades or ends.                    *)
LEMMA HappenStep ==
  ASSUME OrdersInv, BrokerNext, UNCHANGED monitorVars
  PROVE  [V!Next]_(V!verdictVars)
<1>1. PICK o \in OrderId : \/ BrokerAcknowledge(o) \/ BrokerFill(o)
                           \/ BrokerCancel(o) \/ BrokerReject(o)
  BY DEF BrokerNext
<1>2. OrdersInv' /\ nextorderId' = nextorderId
  BY <1>1, OrdersInvStep
  DEF OrdersStep, BrokerAcknowledge, BrokerFill, BrokerCancel, BrokerReject
<1>3. /\ \A p \in OrderId \ {o} : broker'[p] = broker[p]
      /\ broker[o].state \in {"sent", "working"}
      /\ broker[o].filled <= broker'[o].filled
      /\ broker'[o].state = "filled" => broker'[o].filled = Qty
  <2>1. broker[o].filled <= broker'[o].filled
    BY FinalStays DEF OrdersStep
  <2>2. broker'[o].state = "filled" => broker'[o].filled = Qty
    BY <1>2 DEF OrdersInv, BrokerSound
  <2> QED
    BY <1>1, <2>1, <2>2
    DEF BrokerAcknowledge, BrokerFill, BrokerCancel, BrokerReject, Live,
        OrdersInv, OrdersTypeOK
<1>4. Fate[o] = "open"
  BY <1>3, FateOf DEF Dead
<1>5. \A p \in OrderId \ {o} : /\ Fate'[p] = Fate[p]
                               /\ SharesTraded'[p] = SharesTraded[p]
  BY <1>3 DEF Fate, SharesTraded, Dead
<1>6. /\ Fate'[o] \in {"open", "filled", "dead"}
      /\ SharesTraded'[o] \in SharesTraded[o] .. Qty
      /\ Fate'[o] = "filled" => SharesTraded'[o] = Qty
  <2>1. broker[o].filled \in 0 .. Qty /\ broker'[o].filled \in 0 .. Qty
    BY <1>2 DEF OrdersInv, OrdersTypeOK
  <2>2. /\ SharesTraded'[o] = broker'[o].filled
        /\ SharesTraded[o] = broker[o].filled
    BY DEF SharesTraded
  <2>3. SharesTraded'[o] \in SharesTraded[o] .. Qty
    BY <1>3, <2>1, <2>2, OrdersAssumption
  <2>4. /\ Fate'[o] \in {"open", "filled", "dead"}
        /\ Fate'[o] = "filled" => broker'[o].state = "filled"
    BY DEF Fate
  <2> QED
    BY <1>3, <2>2, <2>3, <2>4
<1>7. /\ Fate' = [Fate EXCEPT ![o] = Fate'[o]]
      /\ SharesTraded' = [SharesTraded EXCEPT ![o] = SharesTraded'[o]]
  <2>1. /\ Fate = [p \in OrderId |-> Fate[p]]
        /\ Fate' = [p \in OrderId |-> Fate'[p]]
        /\ SharesTraded = [p \in OrderId |-> SharesTraded[p]]
        /\ SharesTraded' = [p \in OrderId |-> SharesTraded'[p]]
    BY DEF Fate, SharesTraded
  <2> QED
    BY <1>5, <2>1
<1>8. InCall' = InCall /\ Tellings' = Tellings /\ (mpc = "done")' = (mpc = "done")
  BY DEF monitorVars, InCall, Judged, Tellings
<1>9. V!Happen(o)
  BY <1>4, <1>6, <1>7, <1>8 DEF V!Happen
<1> QED
  BY <1>9 DEF V!Next

(* A poll or the final loop judges one order, once.                        *)
LEMMA JudgeStep ==
  ASSUME OrdersInv, MonitorInv, CallInv, NEW o \in OrderId,
         MonitorPoll(o) \/ MonitorFinal(o), UNCHANGED orderVars
  PROVE  [V!Next]_(V!verdictVars)
<1>1. /\ Fate' = Fate /\ SharesTraded' = SharesTraded
      /\ (mpc = "done")' = (mpc = "done")
      /\ InCall' = InCall /\ o \in pending
  BY PollMovesOne
  DEF orderVars, Fate, SharesTraded, Dead, MonitorPoll, MonitorFinal
<1>2. CASE UNCHANGED <<pending, results>>
  BY <1>1, <1>2 DEF V!verdictVars, Tellings
<1>3. CASE \E v \in Verdicts : /\ SoundFor(o, v) /\ NoQuantity(v)
                               /\ v.status # "none" /\ Judge(o, v)
  <2>1. PICK v \in Verdicts : /\ SoundFor(o, v) /\ NoQuantity(v)
                              /\ v.status # "none" /\ Judge(o, v)
    BY <1>3
  <2>2. o \in InCall /\ results[o].status = "none" /\ results[o].qty = 0
    BY <1>1 DEF CallInv, CallGiven, InCall, Judged
  <2>3. Told(v) \in V!Verdict /\ V!TrueOf(o, Told(v))
    BY <2>1, FateOf, ToldOf, OrdersAssumption
    DEF V!TrueOf, SoundFor, NoQuantity, Verdicts
  <2>4. Tellings' = [Tellings EXCEPT ![o] = Told(v)]
    BY <2>1 DEF Judge, Tellings, MonitorInv, MonitorTypeOK
  <2>5. Tellings[o] = V!NotTold
    BY <2>2 DEF Tellings, Told, V!NotTold
  <2>6. V!Judge(o)
    BY <1>1, <2>2, <2>3, <2>4, <2>5 DEF V!Judge
  <2> QED
    BY <2>6 DEF V!Next
<1> QED
  BY <1>2, <1>3, PollIsSound DEF MonitorInv

(* Whoever places orders: an order on the wire is as open as one not sent. *)
LEMMA PlacingIsNoStep ==
  ASSUME OrdersInv, PlaceOrder
  PROVE  Fate' = Fate /\ SharesTraded' = SharesTraded
<1>1. PICK n \in OrderId :
        /\ n = nextorderId
        /\ broker[n].state = "none"
        /\ broker' = [broker EXCEPT ![n].state = "sent"]
  <2>1. nextorderId \in OrderId /\ nextorderId >= nextorderId
    BY OrdersAssumption DEF PlaceOrder, OrderId
  <2> QED
    BY <2>1 DEF PlaceOrder, OrdersInv, BrokerSound
<1>2. \A o \in OrderId :
        /\ broker'[o].filled = broker[o].filled
        /\ broker'[o].state # broker[o].state
             => broker[o].state = "none" /\ broker'[o].state = "sent"
  BY <1>1 DEF OrdersInv, OrdersTypeOK
<1>3. \A o \in OrderId : Fate'[o] = Fate[o]
  BY <1>2 DEF Fate, Dead
<1>4. /\ Fate = [p \in OrderId |-> Fate[p]]
      /\ Fate' = [p \in OrderId |-> Fate'[p]]
  BY DEF Fate
<1> QED
  BY <1>2, <1>3, <1>4 DEF SharesTraded

(* A step of anybody who is not the monitor, in terms of the contract.     *)
LEMMA OutsideStep ==
  ASSUME OrdersInv, [OrdersStep]_orderVars, UNCHANGED monitorVars
  PROVE  [V!Next]_(V!verdictVars)
<1>1. UNCHANGED <<InCall, Tellings, mpc = "done">>
  BY DEF monitorVars, InCall, Judged, Tellings
<1>2. CASE BrokerNext
  BY <1>2, HappenStep
<1>3. CASE ReaderNext(OrderId) \/ UNCHANGED orderVars
  <2>1. broker' = broker
    BY <1>3 DEF ReaderNext, OrderStatus, OpenOrder, ErrorCancelled,
                ErrorRejected, orderVars
  <2> QED
    BY <1>1, <2>1 DEF V!verdictVars, Fate, SharesTraded, Dead
<1>4. CASE PlaceOrder
  BY <1>1, <1>4, PlacingIsNoStep DEF V!verdictVars
<1> QED
  BY <1>2, <1>3, <1>4 DEF OrdersStep

LEMMA VerdictStep ==
  ASSUME OrdersInv, MonitorInv, CallInv, [MonitorAnyStep]_mvars
  PROVE  [V!Next]_(V!verdictVars)
<1>1. CASE [OrdersStep]_orderVars /\ UNCHANGED monitorVars
  BY <1>1, OutsideStep
<1>2. ASSUME NEW ids \in SUBSET OrderId, MonitorStart(ids),
             UNCHANGED orderVars
      PROVE  [V!Next]_(V!verdictVars)
  <2>1. Fate' = Fate /\ SharesTraded' = SharesTraded
    BY <1>2 DEF orderVars, Fate, SharesTraded, Dead
  <2>2. /\ \A o \in OrderId : ~Judged(o) /\ results[o].qty = 0
        /\ \A o \in OrderId : ~Judged(o)' /\ results'[o].qty = 0
    BY <1>2 DEF MonitorStart, CallInv, CallGiven, InCall, Judged, NoResults,
                NoVerdict
  <2>3. InCall = {} /\ InCall' = ids /\ ids # {}
    BY <1>2, <2>2 DEF MonitorStart, InCall, CallInv, CallGiven
  <2>4. Tellings' = Tellings
    <3> SUFFICES ASSUME NEW o \in OrderId
                 PROVE  Told(results'[o]) = Told(results[o])
      BY DEF Tellings
    <3> QED
      BY <2>2 DEF Told, Judged
  <2>5. (mpc = "done")' = (mpc = "done")
    BY <1>2 DEF MonitorStart
  <2>6. V!Watch(ids)
    BY <2>1, <2>3, <2>4, <2>5 DEF V!Watch
  <2> QED
    BY <2>6 DEF V!Next
<1>3. ASSUME NEW o \in OrderId, MonitorPoll(o) \/ MonitorFinal(o),
             UNCHANGED orderVars
      PROVE  [V!Next]_(V!verdictVars)
  BY <1>3, JudgeStep
<1>4. CASE /\ MonitorNextPass \/ MonitorTimeout \/ MonitorDone
           /\ UNCHANGED orderVars
  <2>1. /\ Fate' = Fate /\ SharesTraded' = SharesTraded
        /\ InCall' = InCall /\ Tellings' = Tellings
        /\ mpc # "off" /\ mpc # "done"
    BY <1>4 DEF orderVars, Fate, SharesTraded, Dead, InCall, Judged, Tellings,
                MonitorNextPass, MonitorTimeout, MonitorDone
  <2>2. CASE MonitorNextPass \/ MonitorTimeout
    <3>1. mpc' # "done"
      BY <2>2 DEF MonitorNextPass, MonitorTimeout
    <3> QED
      BY <2>1, <3>1 DEF V!verdictVars
  <2>3. CASE MonitorDone
    <3>1. pending = {} /\ mpc' = "done"
      BY <2>3 DEF MonitorDone, CallInv, FinalPending
    <3>2. \A o \in InCall : Tellings[o] # V!NotTold
      <4> SUFFICES ASSUME NEW o \in InCall
                   PROVE  Tellings[o] # V!NotTold
        OBVIOUS
      <4>1. o \in OrderId /\ results[o].status # "none"
        BY <3>1 DEF InCall, Judged
      <4> QED
        BY <4>1 DEF Tellings, Told, V!NotTold, MonitorInv, MonitorTypeOK,
                    VerdictStatus
    <3>3. InCall # {}
      BY <2>1 DEF CallInv, CallGiven
    <3>4. V!Return
      BY <2>1, <3>1, <3>2, <3>3 DEF V!Return
    <3> QED
      BY <3>4 DEF V!Next
  <2> QED
    BY <1>4, <2>2, <2>3
<1> QED
  BY <1>1, <1>2, <1>3, <1>4 DEF MonitorAnyStep, MonitorStep, mvars

LEMMA VerdictInit == OrdersInit /\ MonitorInit => V!Init
  BY DEF MonitorInit, OrdersInit, NoResults, NoVerdict, V!Init, V!NotTold,
         Fate, SharesTraded, Dead, InCall, Judged, Tellings, Told

(* monitor_all keeps the contract OrderVerdicts, for every number of       *)
(* orders and of shares: a verdict is given once and was true when given,  *)
(* and all have been given when the call returns.                          *)
THEOREM MonitorImplementsVerdicts == MonitorSpec => ImplementsVerdicts
<1>1. OrdersInit /\ MonitorInit => CallInv /\ V!Init
  BY CallInvInit, VerdictInit
<1>2. /\ OrdersInv /\ MonitorInv /\ CallInv /\ [MonitorNext]_mvars
      => CallInv' /\ [V!Next]_(V!verdictVars)
  BY MonitorNextIsAnyStep, CallInvStep, VerdictStep
<1> QED
  BY <1>1, <1>2, MonitorSpecInv, PTL
  DEF MonitorSpec, MonitorAloneInit, ImplementsVerdicts, V!Spec

=============================================================================
