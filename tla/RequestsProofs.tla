---------------------------- MODULE RequestsProofs ----------------------------
(* The order ids, for every bound, alone and with the requests that take   *)
(* theirs from the same counter; then what the answers of late and silent  *)
(* requests can do to the caches.                                          *)
EXTENDS Requests, FiniteSetTheorems, TLAPS

-----------------------------------------------------------------------------
(* The counter alone: OrderIds.                                            *)

(* Every variable keeps its type; the counter never passes its bound.      *)
THEOREM TypeCorrect == Spec => []TypeOK
<1>1. Init => TypeOK
  <2>1. 1 \in Id /\ 1 <= MaxId
    BY IdsAssumption DEF Id
  <2>2. <<>> \in Seq(Id)
    OBVIOUS
  <2> QED
    BY <2>1, <2>2 DEF Init, TypeOK
<1>2. TypeOK /\ [Next]_idVars => TypeOK'
  <2> SUFFICES ASSUME TypeOK, [Next]_idVars PROVE TypeOK'
    OBVIOUS
  <2> USE IdsAssumption DEF TypeOK, Id
  <2>1. CASE ReadId
    BY <2>1 DEF ReadId
  <2>2. CASE WriteId
    BY <2>2 DEF WriteId, AdvanceId
  <2>3. CASE UseForOrder
    BY <2>3 DEF UseForOrder
  <2>4. CASE UseForRequest
    BY <2>4 DEF UseForRequest
  <2>5. CASE Refresh
    <3>1. answers' \in Seq(Id)
      BY <2>5 DEF Refresh
    <3> QED
      BY <2>5, <3>1 DEF Refresh
  <2>6. CASE RefreshReturns
    BY <2>6 DEF RefreshReturns
  <2>7. CASE RefreshTimesOut
    BY <2>7 DEF RefreshTimesOut
  <2>8. CASE NextValidId
    BY <2>8 DEF NextValidId
  <2>9. CASE UNCHANGED idVars
    BY <2>9 DEF idVars
  <2> QED
    BY <2>1, <2>2, <2>3, <2>4, <2>5, <2>6, <2>7, <2>8, <2>9 DEF Next
<1> QED
  BY <1>1, <1>2, PTL DEF Spec

(* The inductive invariant: the counter, the id read from it and an answer *)
(* on its way are all beyond every order placed.                           *)
THEOREM CounterStaysAhead == Spec => []CounterAhead
<1>1. Init => CounterAhead
  BY DEF Init, CounterAhead
<1>2. TypeOK /\ CounterAhead /\ [Next]_idVars => CounterAhead'
  <2> SUFFICES ASSUME TypeOK, CounterAhead, [Next]_idVars, ~late'
               PROVE  CounterAhead'
    BY DEF CounterAhead
  <2> USE IdsAssumption DEF TypeOK, Id, CounterAhead
  <2>1. CASE ReadId
    BY <2>1 DEF ReadId
  <2>2. CASE WriteId
    BY <2>2 DEF WriteId, AdvanceId
  <2>3. CASE UseForOrder
    BY <2>3 DEF UseForOrder
  <2>4. CASE UseForRequest
    BY <2>4 DEF UseForRequest
  <2>5. CASE Refresh
    BY <2>5 DEF Refresh, IsNextId
  <2>6. CASE RefreshReturns
    BY <2>6 DEF RefreshReturns
  <2>7. CASE RefreshTimesOut
    BY <2>7 DEF RefreshTimesOut
  <2>8. CASE NextValidId
    BY <2>8 DEF NextValidId
  <2>9. CASE UNCHANGED idVars
    BY <2>9 DEF idVars
  <2> QED
    BY <2>1, <2>2, <2>3, <2>4, <2>5, <2>6, <2>7, <2>8, <2>9 DEF Next
<1> QED
  BY <1>1, <1>2, TypeCorrect, PTL DEF Spec

(* next_order_id: while every refresh is answered in time no order is sent *)
(* under an id TWS already has.                                            *)
THEOREM OrderIdsUnique == Spec => []UniqueOrderIds
<1>1. Init => UniqueOrderIds
  BY DEF Init, UniqueOrderIds
<1>2. /\ TypeOK /\ CounterAhead /\ UniqueOrderIds
      /\ [Next]_idVars
      => UniqueOrderIds'
  <2> SUFFICES ASSUME TypeOK, CounterAhead, UniqueOrderIds, [Next]_idVars
               PROVE  UniqueOrderIds'
    OBVIOUS
  <2>1. CASE UseForOrder
    <3>1. late \/ oid \notin placed
      BY <2>1 DEF UseForOrder, CounterAhead, TypeOK, Id
    <3> QED
      BY <2>1, <3>1 DEF UseForOrder, UniqueOrderIds
  <2>2. CASE UNCHANGED reused /\ (late => late')
    BY <2>2 DEF UniqueOrderIds
  <2>3. CASE RefreshTimesOut
    BY <2>3 DEF RefreshTimesOut, UniqueOrderIds
  <2> QED
    BY <2>1, <2>2, <2>3 DEF Next, ReadId, WriteId, UseForRequest, Refresh,
       RefreshReturns, NextValidId, idVars
<1> QED
  BY <1>1, <1>2, TypeCorrect, CounterStaysAhead, PTL DEF Spec

-----------------------------------------------------------------------------
(* The counter under the requests.                                         *)

(* A step of a call or of the reader is a step of the counter or leaves it *)
(* alone.                                                                  *)
LEMMA CounterStep == [RequestsNext]_allVars => [Next]_idVars
<1>1. CASE UNCHANGED allVars
  BY <1>1 DEF allVars
<1>2. CASE \E c \in Contracts : Resolve(c) \/ TickTable(c)
  BY <1>2 DEF Resolve, TickTable
<1>3. CASE CallStep
  BY <1>3 DEF CallStep, SendDetailsRequest, DetailsReturn, DetailsTimeOut,
     AskRule, RuleReturns, RuleTimesOut, CacheTable, Next
<1>4. CASE Deliver
  BY <1>4 DEF Deliver
<1>5. CASE TakeId \/ OrderBetweenCalls \/ RefreshBetweenCalls \/ EndRefresh
  BY <1>5 DEF TakeId, OrderBetweenCalls, RefreshBetweenCalls, EndRefresh, Next
<1>6. CASE NextValidId /\ UNCHANGED requestVars
  BY <1>6 DEF Next
<1> QED
  BY <1>1, <1>2, <1>3, <1>4, <1>5, <1>6 DEF RequestsNext

(* The requests use the counter as OrderIds says: every behaviour of the   *)
(* composition is one of the counter, and has its properties.              *)
THEOREM RequestsKeepCounter ==
  RequestsSpec => [](TypeOK /\ CounterAhead /\ UniqueOrderIds)
<1>1. RequestsInit => Init
  BY DEF RequestsInit
<1>2. RequestsSpec => Spec
  BY <1>1, CounterStep, PTL DEF RequestsSpec, Spec
<1> QED
  BY <1>2, TypeCorrect, CounterStaysAhead, OrderIdsUnique, PTL

(* A request's id is below the counter and below the id in hand, and once  *)
(* there are requests no answer to a refresh is on its way.                *)
RequestsBehind ==
  \/ late \/ rewindable
  \/ /\ \A q \in requestIds : q < nextorderId
     /\ mainPc \in {"read", "use"} => \A q \in requestIds : q < oid
     /\ requestIds # {} => answers = <<>>

(* order_errors: an order never finds the errors of an earlier request     *)
(* under its id, as long as refreshes come first and are answered in time. *)
THEOREM OrdersShareNoIds == RequestsSpec => []NoSharedIds
<1> DEFINE Inv == RequestsBehind /\ NoSharedIds /\ requestIds \subseteq Id
<1>1. RequestsInit => Inv
  BY DEF RequestsInit, RequestsBehind, NoSharedIds
<1>2. /\ TypeOK /\ CounterAhead /\ Inv
      /\ [RequestsNext]_allVars
      => Inv'
  <2> SUFFICES ASSUME TypeOK, CounterAhead, Inv, [RequestsNext]_allVars
               PROVE  Inv'
    OBVIOUS
  <2> USE IdsAssumption DEF TypeOK, Id, CounterAhead, RequestsBehind, NoSharedIds
  <2>1. CASE UNCHANGED <<idVars, requestIds, rewindable>>
    BY <2>1 DEF idVars
  <2>2. CASE SendDetailsRequest
    BY <2>2 DEF SendDetailsRequest, UseForRequest
  <2>3. CASE TakeId
    <3>1. UNCHANGED <<requestIds, rewindable>>
      BY <2>3 DEF TakeId, requestVars
    <3>2. CASE ReadId
      BY <3>1, <3>2 DEF ReadId
    <3>3. CASE WriteId
      BY <3>1, <3>3 DEF WriteId, AdvanceId
    <3> QED
      BY <2>3, <3>2, <3>3 DEF TakeId
  <2>4. CASE OrderBetweenCalls
    BY <2>4 DEF OrderBetweenCalls, UseForOrder, requestVars
  <2>5. CASE RefreshBetweenCalls
    BY <2>5 DEF RefreshBetweenCalls, Refresh
  <2>6. CASE EndRefresh
    BY <2>6 DEF EndRefresh, RefreshReturns, RefreshTimesOut, requestVars
  <2>7. CASE NextValidId /\ UNCHANGED requestVars
    BY <2>7 DEF NextValidId, requestVars
  <2> QED
    BY <2>1, <2>2, <2>3, <2>4, <2>5, <2>6, <2>7
    DEF RequestsNext, allVars, requestVars, Resolve, TickTable, CallStep,
        DetailsReturn, DetailsTimeOut, AskRule, RuleReturns, RuleTimesOut,
        CacheTable, Deliver, historyVars
<1> QED
  BY <1>1, <1>2, RequestsKeepCounter, PTL DEF RequestsSpec

-----------------------------------------------------------------------------
(* The calls and their caches.                                             *)

(* A call in progress has an argument; the rule asked for is the head of   *)
(* the list.                                                               *)
Engaged ==
  /\ rpc # "idle" => contract \in Contracts
  /\ rpc = "rule" => toTry # <<>>

(* An answer that may come next: what was asked last, nothing else.        *)
Expected ==
  /\ rpc \in {"idle", "ask", "rules"} => wire = <<>>
  /\ rpc = "ask" => ~details_event
  /\ rpc = "details" =>
       /\ Len(wire) <= 2
       /\ \A i \in 1 .. Len(wire) :
            wire[i] = [type |-> IF i = Len(wire) THEN "end" ELSE "details",
                       of |-> contract]
       /\ details_event => wire = <<>>
  /\ rpc = "rule" =>
       /\ Len(wire) <= 2
       /\ \A i \in 1 .. Len(wire) :
            wire[i] = [type |-> IF i = Len(wire) THEN "ruleSet" ELSE "rule",
                       of |-> Head(toTry)]
       /\ rule_event => wire = <<>>

(* The details held are those of the call's contract.                      *)
OwnDetails ==
  rpc \in {"ask", "details"} =>
    \A i \in 1 .. Len(contract_details) : contract_details[i] = contract

(* The inductive invariant: as long as no wait ended with its answer on    *)
(* the way, buffers and wire belong to the call.                           *)
OwnInv == overdue \/ (Expected /\ OwnDetails)

(* Each action keeps the types.                                            *)
LEMMA RequestsTypeStep ==
  ASSUME RequestsTypeOK, Engaged, TypeOK, [RequestsNext]_allVars
  PROVE  RequestsTypeOK' /\ Engaged'
<1> USE RequestsAssumption DEF RequestsTypeOK, Engaged
<1>1. CASE UNCHANGED allVars
  BY <1>1 DEF allVars, requestVars
<1>2. CASE \E c \in Contracts : Resolve(c) \/ TickTable(c)
  <2> PICK c \in Contracts : Resolve(c) \/ TickTable(c)
    BY <1>2
  <2>1. contract_details' = <<>> /\ contract' = c /\ op' \in {"resolve", "table"}
    BY DEF Resolve, TickTable, Call, ClearDetails
  <2>2. <<>> \in Seq(Contracts)
    OBVIOUS
  <2> QED
    BY <2>1, <2>2
    DEF Resolve, TickTable, Call, ClearDetails, cacheVars, historyVars
<1>3. CASE SendDetailsRequest
  <2>1. oid \in Id
    BY DEF TypeOK
  <2>2. wire' \in Seq(Message)
    <3> DEFINE d == [type |-> "details", of |-> contract]
               e == [type |-> "end", of |-> contract]
    <3>1. d \in Message /\ e \in Message
      BY <1>3 DEF SendDetailsRequest, Message
    <3>2. wire \o <<d, e>> \in Seq(Message)
      <4> HIDE DEF d, e
      <4> QED
        BY <3>1
    <3> QED
      BY <1>3, <3>2 DEF SendDetailsRequest
  <2> QED
    BY <1>3, <2>1, <2>2
    DEF SendDetailsRequest, bufferVars, callVars, cacheVars
<1>4. CASE DetailsReturn \/ DetailsTimeOut
  <2>1. contract_details # <<>> => contract_details[1] \in Contracts
    OBVIOUS
  <2>2. UNCHANGED <<wire, bufferVars, requestIds, rewindable>> /\ overdue' \in BOOLEAN
    BY <1>4 DEF DetailsReturn, DetailsTimeOut
  <2>3. rpc = "details" /\ UseDetails
    BY <1>4 DEF DetailsReturn, DetailsTimeOut
  <2>4. <<>> \in Seq(Rules)
    OBVIOUS
  <2>5. CASE Return /\ UNCHANGED cacheVars
    BY <2>2, <2>4, <2>5 DEF Return, bufferVars, cacheVars
  <2>6. CASE contract_details # <<>> /\ op = "resolve" /\ Return
    <3>1. /\ resolved_conid' \in [Contracts -> Contracts \cup {Nothing}]
          /\ UNCHANGED tick_size
      BY <2>1, <2>3, <2>6 DEF UseDetails, cacheVars
    <3> QED
      BY <2>2, <2>4, <2>6, <3>1 DEF Return, bufferVars
  <2>7. CASE contract_details # <<>> /\ rpc' = "rules"
    <3>1. toTry' \in Seq(Rules)
      BY <2>1, <2>3, <2>7 DEF UseDetails, Return
    <3>2. UNCHANGED <<cacheVars, op, contract, best, silent>>
      BY <2>3, <2>7 DEF UseDetails, Return
    <3> QED
      BY <2>2, <2>3, <2>7, <3>1, <3>2 DEF bufferVars, cacheVars
  <2> QED
    BY <2>3, <2>5, <2>6, <2>7 DEF UseDetails
<1>5. CASE AskRule
  <2>1. Head(toTry) \in Rules
    BY <1>5 DEF AskRule
  <2>2. wire' \in Seq(Message)
    <3> DEFINE r == [type |-> "rule", of |-> Head(toTry)]
               e == [type |-> "ruleSet", of |-> Head(toTry)]
    <3>1. r \in Message /\ e \in Message
      BY <2>1 DEF Message
    <3>2. wire \o <<r, e>> \in Seq(Message)
      <4> HIDE DEF r, e
      <4> QED
        BY <3>1
    <3> QED
      BY <1>5, <3>2 DEF AskRule
  <2> QED
    BY <1>5, <2>1, <2>2 DEF AskRule, ClearRule, callVars, cacheVars
<1>6. CASE RuleReturns \/ RuleTimesOut
  <2>1. toTry # <<>> /\ Head(toTry) \in Rules /\ Tail(toTry) \in Seq(Rules)
    BY <1>6 DEF RuleReturns, RuleTimesOut
  <2>2. best' \in Rules \cup {Nothing}
    BY <1>6, <2>1 DEF RuleReturns, RuleTimesOut, UseTable
  <2> QED
    BY <1>6, <2>1, <2>2
    DEF RuleReturns, RuleTimesOut, UseTable, bufferVars, cacheVars,
        historyVars
<1>7. CASE CacheTable
  BY <1>7 DEF CacheTable, Return, bufferVars
<1>8. CASE Deliver
  <2> DEFINE msg == Head(wire)
  <2>1. msg \in Message /\ Tail(wire) \in Seq(Message)
    BY <1>8 DEF Deliver
  <2>2. /\ msg.type \in {"details", "end"} => msg.of \in Contracts
        /\ msg.type \in {"rule", "ruleSet"} => msg.of \in Rules
    BY <2>1 DEF Message
  <2> HIDE DEF msg
  <2>3. /\ contract_details' \in Seq(Contracts)
        /\ market_rules' \in [Rules -> Rules \cup {Nothing}]
        /\ details_event' \in BOOLEAN /\ rule_event' \in BOOLEAN
    <3> USE <2>2
    <3>1. CASE msg.type = "details"
      <4>1. Append(contract_details, msg.of) \in Seq(Contracts)
        BY <3>1
      <4> QED
        BY <1>8, <3>1, <4>1 DEF Deliver, msg
    <3>2. CASE msg.type = "end"
      BY <1>8, <3>2 DEF Deliver, msg
    <3>3. CASE msg.type \in {"rule", "ruleSet"}
      BY <1>8, <3>3 DEF Deliver, msg
    <3> QED
      BY <1>8, <3>1, <3>2, <3>3 DEF Deliver, msg
  <2> QED
    BY <1>8, <2>1, <2>3 DEF Deliver, callVars, cacheVars, historyVars
<1>9. CASE RefreshBetweenCalls
  BY <1>9 DEF RefreshBetweenCalls, bufferVars, callVars, cacheVars
<1>10. CASE UNCHANGED requestVars
  BY <1>10 DEF requestVars
<1> QED
  BY <1>1, <1>2, <1>3, <1>4, <1>5, <1>6, <1>7, <1>8, <1>9, <1>10
  DEF RequestsNext, CallStep, TakeId, OrderBetweenCalls, EndRefresh

(* Types of requests and caches, for every set of contracts and rules.     *)
LEMMA RequestsTyped == RequestsSpec => [](RequestsTypeOK /\ Engaged)
<1>1. RequestsInit => RequestsTypeOK /\ Engaged
  <2>1. <<>> \in Seq(Message) /\ <<>> \in Seq(Contracts) /\ <<>> \in Seq(Rules)
    OBVIOUS
  <2> QED
    BY <2>1 DEF RequestsInit, RequestsTypeOK, Engaged
<1>2. /\ RequestsTypeOK /\ Engaged /\ TypeOK
      /\ [RequestsNext]_allVars
      => RequestsTypeOK' /\ Engaged'
  BY RequestsTypeStep
<1> QED
  BY <1>1, <1>2, RequestsKeepCounter, PTL DEF RequestsSpec

THEOREM RequestsTypeCorrect == RequestsSpec => []RequestsTypeOK
  BY RequestsTyped, PTL

LEMMA OverdueStays ==
  ASSUME [RequestsNext]_allVars, overdue
  PROVE  overdue'
<1>1. CASE DetailsTimeOut \/ RuleTimesOut
  <2>1. overdue' = (overdue \/ wire # <<>>)
    BY <1>1 DEF DetailsTimeOut, RuleTimesOut
  <2> QED
    BY <2>1
<1>2. CASE UNCHANGED overdue
  BY <1>2
<1> QED
  BY <1>1, <1>2
  DEF RequestsNext, allVars, requestVars, Resolve, TickTable, CallStep,
      SendDetailsRequest, DetailsReturn, AskRule, RuleReturns, CacheTable,
      Deliver, TakeId, OrderBetweenCalls, RefreshBetweenCalls, EndRefresh,
      historyVars

(* What each step does to the wire and the buffers, as long as no wait     *)
(* ends with its answer on the way.                                        *)
LEMMA OwnStep ==
  ASSUME RequestsTypeOK, Engaged, OwnInv, [RequestsNext]_allVars
  PROVE  OwnInv'
<1> SUFFICES ASSUME ~overdue' PROVE Expected' /\ OwnDetails'
  BY DEF OwnInv
<1>0. ~overdue /\ Expected /\ OwnDetails
  BY OverdueStays DEF OwnInv
<1> USE <1>0 DEF RequestsTypeOK, Engaged, Expected, OwnDetails
<1>1. CASE UNCHANGED <<wire, bufferVars, rpc, contract, toTry>>
  BY <1>1 DEF bufferVars
<1>2. CASE \E c \in Contracts : Resolve(c) \/ TickTable(c)
  <2>1. /\ rpc = "idle" /\ rpc' = "ask"
        /\ contract_details' = <<>> /\ details_event' = FALSE
        /\ UNCHANGED wire
    BY <1>2 DEF Resolve, TickTable, Call, ClearDetails
  <2> QED
    BY <2>1
<1>3. CASE SendDetailsRequest
  <2>1. /\ rpc = "ask" /\ rpc' = "details" /\ wire = <<>>
        /\ UNCHANGED <<contract_details, details_event, contract>>
    BY <1>3 DEF SendDetailsRequest, bufferVars, callVars
  <2> DEFINE d == [type |-> "details", of |-> contract]
             e == [type |-> "end", of |-> contract]
  <2>2. wire' = wire \/ wire' = wire \o <<d, e>>
    BY <1>3 DEF SendDetailsRequest
  <2>3. ASSUME wire' = wire \o <<d, e>>
        PROVE  Len(wire') = 2 /\ wire'[1] = d /\ wire'[2] = e
    <3> HIDE DEF d, e
    <3> QED
      BY <2>1, <2>3
  <2>4. OwnDetails'
    BY <2>1
  <2>5. wire' = <<>> => Expected'
    BY <2>1
  <2>6. ASSUME Len(wire') = 2, wire'[1] = d, wire'[2] = e
        PROVE  Expected'
    <3>1. \A i \in 1 .. Len(wire') :
            wire'[i] = [type |-> IF i = Len(wire') THEN "end" ELSE "details",
                        of |-> contract']
      BY <2>1, <2>6
    <3> QED
      BY <2>1, <2>6, <3>1
  <2> QED
    BY <2>1, <2>2, <2>3, <2>4, <2>5, <2>6
<1>4. CASE DetailsReturn \/ DetailsTimeOut
  <2>1. /\ rpc = "details" /\ rpc' \in {"idle", "rules"}
        /\ UNCHANGED wire
    BY <1>4 DEF DetailsReturn, DetailsTimeOut, UseDetails, Return
  <2>2. wire = <<>>
    BY <1>4, <2>1 DEF DetailsReturn, DetailsTimeOut
  <2> QED
    BY <2>1, <2>2
<1>5. CASE AskRule
  <2>1. /\ rpc = "rules" /\ rpc' = "rule" /\ wire = <<>> /\ rule_event' = FALSE
        /\ UNCHANGED toTry
    BY <1>5 DEF AskRule, ClearRule, callVars
  <2> DEFINE r == [type |-> "rule", of |-> Head(toTry)]
             e == [type |-> "ruleSet", of |-> Head(toTry)]
  <2>2. wire' = wire \/ wire' = wire \o <<r, e>>
    BY <1>5 DEF AskRule
  <2>3. ASSUME wire' = wire \o <<r, e>>
        PROVE  Len(wire') = 2 /\ wire'[1] = r /\ wire'[2] = e
    <3> HIDE DEF r, e
    <3> QED
      BY <2>1, <2>3
  <2>4. OwnDetails'
    BY <2>1
  <2>5. wire' = <<>> => Expected' /\ OwnDetails'
    BY <2>1
  <2>6. ASSUME Len(wire') = 2, wire'[1] = r, wire'[2] = e
        PROVE  Expected'
    <3>1. \A i \in 1 .. Len(wire') :
            wire'[i] = [type |-> IF i = Len(wire') THEN "ruleSet" ELSE "rule",
                        of |-> Head(toTry')]
      BY <2>1, <2>6
    <3> QED
      BY <2>1, <2>6, <3>1
  <2> QED
    BY <2>1, <2>2, <2>3, <2>4, <2>5, <2>6
<1>6. CASE RuleReturns \/ RuleTimesOut
  <2>1. /\ rpc = "rule" /\ rpc' = "rules" /\ UNCHANGED wire
    BY <1>6 DEF RuleReturns, RuleTimesOut, UseTable
  <2>2. wire = <<>>
    BY <1>6, <2>1 DEF RuleReturns, RuleTimesOut
  <2> QED
    BY <2>1, <2>2
<1>7. CASE CacheTable
  BY <1>7 DEF CacheTable, Return
<1>8. CASE Deliver
  <2>1. /\ wire # <<>> /\ rpc \in {"details", "rule"}
        /\ wire' = Tail(wire) /\ UNCHANGED <<rpc, contract, toTry>>
    BY <1>8 DEF Deliver, callVars
  <2>2. /\ Len(wire') = Len(wire) - 1
        /\ \A i \in 1 .. Len(wire') : wire'[i] = wire[i + 1]
        /\ Head(wire) = wire[1]
    BY <2>1
  <2>3. CASE rpc = "rule" /\ Len(wire) = 2
    <3>1. Head(wire).type = "rule"
      BY <2>2, <2>3
    <3>2. UNCHANGED rule_event
      BY <1>8, <3>1 DEF Deliver
    <3> QED
      BY <2>1, <2>2, <2>3, <3>2
  <2>7. CASE rpc = "rule" /\ Len(wire) = 1
    BY <2>1, <2>2, <2>7
  <2>4. CASE rpc = "details" /\ Len(wire) = 2
    <3>1. Head(wire).type = "details" /\ Head(wire).of = contract
      BY <2>2, <2>4
    <3>2. /\ contract_details' = Append(contract_details, contract)
          /\ UNCHANGED details_event
      BY <1>8, <3>1 DEF Deliver
    <3>3. \A i \in 1 .. Len(contract_details') :
            contract_details'[i] = contract
      BY <2>4, <3>2
    <3> QED
      BY <2>1, <2>2, <2>4, <3>2, <3>3
  <2>5. CASE rpc = "details" /\ Len(wire) = 1
    <3>1. Head(wire).type = "end"
      BY <2>2, <2>5
    <3>2. UNCHANGED contract_details
      BY <1>8, <3>1 DEF Deliver
    <3> QED
      BY <2>1, <2>2, <2>5, <3>2
  <2>6. Len(wire) = 1 \/ Len(wire) = 2
    <3> DEFINE n == Len(wire)
    <3>1. n \in Nat /\ n # 0 /\ n <= 2
      BY <2>1
    <3> HIDE <1>0 DEF n, RequestsTypeOK, Expected, OwnDetails, Engaged
    <3>2. n = 1 \/ n = 2
      BY <3>1
    <3> QED
      BY <3>2 DEF n
  <2> QED
    BY <2>1, <2>3, <2>4, <2>5, <2>6, <2>7
<1> QED
  BY <1>1, <1>2, <1>3, <1>4, <1>5, <1>6, <1>7, <1>8
  DEF RequestsNext, allVars, requestVars, CallStep, TakeId, OrderBetweenCalls,
      RefreshBetweenCalls, EndRefresh, bufferVars, callVars

LEMMA RequestsOwn == RequestsSpec => []OwnInv
<1>1. RequestsInit => OwnInv
  BY DEF RequestsInit, OwnInv, Expected, OwnDetails
<1>2. RequestsTypeOK /\ Engaged /\ OwnInv /\ [RequestsNext]_allVars => OwnInv'
  BY OwnStep
<1> QED
  BY <1>1, <1>2, RequestsTyped, PTL DEF RequestsSpec

(* resolve_conid: the conId cached for a contract is its own, unless some  *)
(* request of the session gave up before its answer came.                  *)
THEOREM ResolvedStaysOwn == RequestsSpec => []ResolvedIsOwn
<1>1. RequestsInit => ResolvedIsOwn
  BY DEF RequestsInit, ResolvedIsOwn
<1>2. /\ RequestsTypeOK /\ OwnInv /\ ResolvedIsOwn
      /\ [RequestsNext]_allVars
      => ResolvedIsOwn'
  <2> SUFFICES ASSUME RequestsTypeOK, OwnInv, ResolvedIsOwn,
                      [RequestsNext]_allVars, ~overdue'
               PROVE  ResolvedIsOwn'
    BY DEF ResolvedIsOwn
  <2> USE DEF ResolvedIsOwn
  <2>1. CASE UNCHANGED resolved_conid
    BY <2>1, OverdueStays
  <2>2. CASE DetailsReturn \/ DetailsTimeOut
    <3>1. rpc = "details" /\ UseDetails /\ ~overdue
      BY <2>2, OverdueStays DEF DetailsReturn, DetailsTimeOut
    <3>2. contract_details # <<>> => contract_details[1] = contract
      BY <3>1 DEF OwnInv, OwnDetails, RequestsTypeOK
    <3>3. \/ UNCHANGED resolved_conid
          \/ resolved_conid' = [resolved_conid EXCEPT ![contract] = contract]
      BY <3>1, <3>2 DEF UseDetails, cacheVars
    <3> QED
      BY <3>1, <3>3 DEF RequestsTypeOK
  <2> QED
    BY <2>1, <2>2
    DEF RequestsNext, allVars, requestVars, Resolve, TickTable, CallStep,
        SendDetailsRequest, AskRule, RuleReturns, RuleTimesOut, CacheTable,
        Deliver, TakeId, OrderBetweenCalls, RefreshBetweenCalls, EndRefresh,
        cacheVars, historyVars
<1> QED
  BY <1>1, <1>2, RequestsTyped, RequestsOwn, PTL DEF RequestsSpec

-----------------------------------------------------------------------------
(* Tick tables and stop prices: Ticks.                                     *)

(* Division, multiplication and remainder of natural numbers.              *)
LEMMA Quotient ==
  ASSUME NEW x \in Nat, NEW d \in Nat \ {0}
  PROVE  /\ x \div d \in Nat
         /\ d * (x \div d) <= x
         /\ x < d * (x \div d) + d
  OBVIOUS

LEMMA Times ==
  ASSUME NEW s \in Nat, NEW a \in Nat, NEW b \in Nat, a <= b
  PROVE  s * a <= s * b
  OBVIOUS

LEMMA Multiple ==
  ASSUME NEW s \in Nat \ {0}, NEW a \in Nat, a % s = 0
  PROVE  \E k \in Nat : a = s * k
<1>1. a = (s * (a \div s)) + (a % s) /\ a \div s \in Nat
  OBVIOUS
<1> QED
  BY <1>1

LEMMA MultipleMod ==
  ASSUME NEW s \in Nat \ {0}, NEW k \in Nat
  PROVE  (k * s) % s = 0
  OBVIOUS

(* round_to_tick gives a multiple of the tick and passes no other one.     *)
LEMMA Rounded ==
  ASSUME NEW s \in Nat \ {0}, NEW p \in Nat
  PROVE  /\ RoundToTick(p, s) \in Nat
         /\ RoundToTick(p, s) % s = 0
         /\ \A a \in Nat : a % s = 0 /\ a <= p => a <= RoundToTick(p, s)
         /\ \A b \in Nat : b % s = 0 /\ p <= b => RoundToTick(p, s) <= b
<1> DEFINE e == (2 * p + s) \div (2 * s)
<1>1. /\ e \in Nat
      /\ (2 * s) * e <= 2 * p + s
      /\ 2 * p + s < (2 * s) * e + 2 * s
  <2>1. 2 * p + s \in Nat /\ 2 * s \in Nat \ {0}
    OBVIOUS
  <2> QED
    BY <2>1, Quotient
<1>2. RoundToTick(p, s) = e * s
  BY DEF RoundToTick
<1> HIDE DEF e
<1>3. e * s \in Nat /\ (2 * s) * e = 2 * (s * e) /\ e * s = s * e
  BY <1>1
<1>4. ASSUME NEW a \in Nat, a % s = 0, a <= p PROVE a <= e * s
  <2>1. PICK k \in Nat : a = s * k
    BY <1>4, Multiple
  <2>2. CASE k <= e
    BY <2>1, <2>2, <1>1, <1>3, Times
  <2>3. CASE e + 1 <= k
    <3>1. s * (e + 1) <= s * k
      BY <2>3, <1>1, Times
    <3>2. s * (e + 1) = s * e + s
      BY <1>1
    <3>3. s * e \in Nat /\ s * k \in Nat
      BY <1>1
    <3> QED
      BY <1>1, <1>3, <1>4, <2>1, <3>1, <3>2, <3>3
  <2> QED
    BY <2>2, <2>3, <1>1
<1>5. ASSUME NEW b \in Nat, b % s = 0, p <= b PROVE e * s <= b
  <2>1. PICK k \in Nat : b = s * k
    BY <1>5, Multiple
  <2>2. CASE e <= k
    BY <2>1, <2>2, <1>1, <1>3, Times
  <2>3. CASE k + 1 <= e
    <3>1. s * (k + 1) <= s * e
      BY <2>3, <1>1, Times
    <3>2. s * (k + 1) = s * k + s
      OBVIOUS
    <3>3. s * e \in Nat /\ s * k \in Nat
      BY <1>1
    <3> QED
      BY <1>1, <1>3, <1>5, <2>1, <3>1, <3>2, <3>3
  <2> QED
    BY <2>2, <2>3, <1>1
<1>6. (e * s) % s = 0
  BY <1>1, MultipleMod
<1> QED
  BY <1>2, <1>3, <1>4, <1>5, <1>6
(* A set of indices that is not empty has a largest one.                   *)
LEMMA LargestIndex ==
  ASSUME NEW n \in Nat, NEW S \in SUBSET (1..n), S # {}
  PROVE  Max(S) \in S /\ \A j \in S : j <= Max(S)
<1> DEFINE Above(i) == {j \in S : j > i}
           T == {Above(i) : i \in S}
<1>1. IsFiniteSet(1..n)
  BY FS_Interval
<1>2. \A i \in S : Above(i) \in FiniteSubsetsOf(1..n)
  BY <1>1, FS_Subset DEF FiniteSubsetsOf
<1>3. T \subseteq FiniteSubsetsOf(1..n) /\ T # {}
  BY <1>2
<1>4. IsWellFoundedOn(StrictSubsetOrdering(1..n), FiniteSubsetsOf(1..n))
  BY <1>1, FS_StrictSubsetOrderingWellFounded
<1> HIDE DEF T
<1>5. PICK x \in T : \A y \in T : ~(<<y, x>> \in StrictSubsetOrdering(1..n))
  BY <1>3, <1>4, WFMin
<1>6. PICK i \in S : x = Above(i)
  BY DEF T
<1>7. ASSUME NEW j \in S, j > i PROVE FALSE
  <2>1. Above(j) \in T
    BY DEF T
  <2>2. j \in Above(i) /\ j \notin Above(j)
    BY <1>7
  <2>3. Above(j) \subseteq Above(i)
    <3>1. \A k \in S : k > j => k > i
      BY <1>7
    <3> QED
      BY <3>1
  <2> HIDE DEF Above
  <2>4. <<Above(j), Above(i)>> \in StrictSubsetOrdering(1..n)
    BY <1>2, <2>2, <2>3 DEF StrictSubsetOrdering, FiniteSubsetsOf
  <2> QED
    BY <1>5, <1>6, <2>1, <2>4
<1>8. \A j \in S : j <= i
  BY <1>7
<1> QED
  BY <1>8 DEF Max

(* What a published table is, band by band.                                *)
LEMMA PublishedBands ==
  ASSUME NEW t, Published(t)
  PROVE  /\ Len(t) \in Nat /\ DOMAIN t = 1..Len(t) /\ 1 \in DOMAIN t
         /\ t[1].lowEdge = 0
         /\ \A j \in DOMAIN t : /\ t[j].lowEdge \in Nat
                                /\ t[j].increment \in Nat \ {0}
                                /\ t[j].lowEdge % t[j].increment = 0
<1>1. t \in Seq(Band) /\ t # <<>> /\ t[1].lowEdge = 0
  BY DEF Published
<1>2. Len(t) \in Nat /\ DOMAIN t = 1..Len(t) /\ Len(t) # 0
  BY <1>1
<1>3. \A j \in DOMAIN t : t[j] \in Band
  BY <1>1, <1>2
<1>4. \A j \in DOMAIN t : t[j].lowEdge \in Nat /\ t[j].increment \in Nat \ {0}
  BY <1>3 DEF Band
<1>5. \A j \in DOMAIN t : t[j].lowEdge % t[j].increment = 0
  BY DEF Published
<1> QED
  BY <1>1, <1>2, <1>4, <1>5

(* The band get_tick_size stops at: the one whose edge is the last not     *)
(* above the price.                                                        *)
LEMMA TickOfBand ==
  ASSUME NEW t, Published(t), NEW p \in Nat, NEW i \in DOMAIN t,
         t[i].lowEdge <= p,
         i < Len(t) => p < t[i + 1].lowEdge
  PROVE  TickSize(t, p) = t[i].increment
<1> DEFINE walked == {k \in DOMAIN t : \A j \in 1..k : t[j].lowEdge <= p}
<1>1. /\ Len(t) \in Nat /\ DOMAIN t = 1..Len(t)
      /\ \A j \in DOMAIN t : t[j].lowEdge \in Nat
  BY PublishedBands
<1>2. \A j \in 1..i : t[j].lowEdge <= p
  <2> SUFFICES ASSUME NEW j \in 1..i, j # i PROVE t[j].lowEdge <= p
    OBVIOUS
  <2>1. j \in DOMAIN t /\ j < i
    BY <1>1
  <2>2. t[j].lowEdge < t[i].lowEdge
    BY <2>1 DEF Published
  <2> QED
    BY <1>1, <2>1, <2>2
<1>3. i \in walked
  BY <1>2
<1>4. \A k \in walked : k <= i
  <2> SUFFICES ASSUME NEW k \in walked, i < k PROVE FALSE
    BY <1>1
  <2>1. i + 1 \in 1..k /\ i < Len(t) /\ i + 1 \in DOMAIN t
    BY <1>1
  <2>2. t[i + 1].lowEdge <= p
    BY <2>1
  <2> QED
    BY <1>1, <2>1, <2>2
<1>5. walked \subseteq Int
  BY <1>1
<1>6. Max(walked) = i
  <2> HIDE DEF walked
  <2> QED
    BY <1>3, <1>4, <1>5 DEF Max
<1> QED
  BY <1>3, <1>6 DEF TickSize

(* Every price lies in a band.                                             *)
LEMMA PriceHasBand ==
  ASSUME NEW t, Published(t), NEW p \in Nat
  PROVE  \E i \in DOMAIN t :
           t[i].lowEdge <= p /\ (i < Len(t) => p < t[i + 1].lowEdge)
<1> DEFINE reached == {k \in DOMAIN t : t[k].lowEdge <= p}
<1>1. /\ Len(t) \in Nat /\ DOMAIN t = 1..Len(t) /\ 1 \in DOMAIN t
      /\ \A j \in DOMAIN t : t[j].lowEdge \in Nat
  BY PublishedBands
<1>2. 1 \in reached /\ reached \in SUBSET (1..Len(t))
  BY <1>1, PublishedBands
<1>3. Max(reached) \in reached /\ \A j \in reached : j <= Max(reached)
  <2> HIDE DEF reached
  <2> QED
    BY <1>1, <1>2, LargestIndex
<1>4. PICK i \in reached : \A j \in reached : j <= i
  BY <1>3
<1>5. ASSUME i < Len(t) PROVE p < t[i + 1].lowEdge
  <2>1. i + 1 \in DOMAIN t /\ ~(i + 1 <= i)
    BY <1>1, <1>5
  <2>2. i + 1 \notin reached
    BY <1>4, <2>1
  <2> QED
    BY <1>1, <2>1, <2>2
<1> QED
  BY <1>5

(* A price rounded to the tick of its band conforms to the band it falls   *)
(* in, be it the next one.                                                 *)
LEMMA RoundedConforms ==
  ASSUME NEW t, Published(t), NEW p \in Nat
  PROVE  Conforms(t, RoundToTick(p, TickSize(t, p)))
<1>1. PICK i \in DOMAIN t :
             t[i].lowEdge <= p /\ (i < Len(t) => p < t[i + 1].lowEdge)
  BY PriceHasBand
<1>2. /\ Len(t) \in Nat /\ DOMAIN t = 1..Len(t)
      /\ \A j \in DOMAIN t : /\ t[j].lowEdge \in Nat
                             /\ t[j].increment \in Nat \ {0}
                             /\ t[j].lowEdge % t[j].increment = 0
  BY PublishedBands
<1>3. TickSize(t, p) = t[i].increment
  <2>1. t[i].lowEdge <= p
    BY <1>1
  <2>2. i < Len(t) => p < t[i + 1].lowEdge
    BY <1>1
  <2> QED
    BY <2>1, <2>2, TickOfBand
<1> DEFINE s == t[i].increment
           q == RoundToTick(p, s)
<1>4. /\ q \in Nat /\ q % s = 0
      /\ t[i].lowEdge <= q
      /\ i < Len(t) => q <= t[i + 1].lowEdge
  <2>1. s \in Nat \ {0}
    BY <1>2
  <2>2. q \in Nat /\ q % s = 0 /\ t[i].lowEdge <= q
    <3>1. t[i].lowEdge \in Nat /\ t[i].lowEdge % s = 0 /\ t[i].lowEdge <= p
      BY <1>1, <1>2
    <3>2. q \in Nat
      BY <2>1, Rounded
    <3>3. q % s = 0
      BY <2>1, Rounded
    <3>4. t[i].lowEdge <= q
      BY <2>1, <3>1, Rounded
    <3> QED
      BY <3>2, <3>3, <3>4
  <2>3. ASSUME i < Len(t) PROVE q <= t[i + 1].lowEdge
    <3>1. /\ t[i + 1].lowEdge \in Nat /\ t[i + 1].lowEdge % s = 0
          /\ p <= t[i + 1].lowEdge
      BY <1>1, <1>2, <2>3 DEF Published
    <3> QED
      BY <2>1, <3>1, Rounded
  <2> QED
    BY <2>2, <2>3
<1> HIDE DEF q
<1>5. CASE i < Len(t) => q < t[i + 1].lowEdge
  <2>1. TickSize(t, q) = s
    BY <1>4, <1>5, TickOfBand
  <2> QED
    BY <1>3, <1>4, <2>1 DEF Conforms, q
<1>6. CASE i < Len(t) /\ q = t[i + 1].lowEdge
  <2>1. i + 1 \in DOMAIN t
    BY <1>2, <1>6
  <2>2. i + 1 < Len(t) => q < t[i + 1 + 1].lowEdge
    <3> SUFFICES ASSUME i + 1 < Len(t) PROVE q < t[i + 1 + 1].lowEdge
      OBVIOUS
    <3>1. i + 1 + 1 \in DOMAIN t /\ i + 1 < i + 1 + 1
      BY <1>2
    <3> QED
      BY <1>6, <2>1, <3>1 DEF Published
  <2>3. TickSize(t, q) = t[i + 1].increment
    BY <1>4, <1>6, <2>1, <2>2, TickOfBand
  <2> QED
    BY <1>2, <1>3, <1>6, <2>1, <2>3 DEF Conforms, q
<1>7. q < t[i + 1].lowEdge \/ q = t[i + 1].lowEdge \/ ~(i < Len(t))
  BY <1>2, <1>4
<1> QED
  BY <1>5, <1>6, <1>7

(* Stops of cached tables are accepted, for every published table and all  *)
(* fills and losses.                                                       *)
THEOREM StopsAreAccepted == RequestsSpec => []StopsConform
<1>1. ASSUME NEW fill \in Fills, NEW loss \in Losses
      PROVE  RawStop(fill, loss) \in Nat
  <2>1. fill \in Nat /\ loss \in 1..9999
    BY StopsAssumption
  <2>2. /\ loss \div 100 \in 0..99
        /\ \A x \in 0..100 : x \div 100 \in 0..1
    <3>1. \A x \in Nat : /\ x \div 100 \in Nat
                         /\ 100 * (x \div 100) <= x
      BY Quotient
    <3> QED
      BY <2>1, <3>1
  <2>3. Fraction(loss) \in 0..100
    BY <2>1, <2>2 DEF Fraction
  <2>4. Normalized(Fraction(loss)) \in 0..100
    BY <2>2, <2>3 DEF Normalized
  <2>5. fill \div 100 \in Nat /\ 100 - Normalized(Fraction(loss)) \in Nat
    BY <2>1, <2>4
  <2> QED
    BY <2>5 DEF RawStop
<1>2. RequestsTypeOK => StopsConform
  <2> SUFFICES ASSUME RequestsTypeOK, NEW c \in Contracts,
                      tick_size[c] # Nothing,
                      NEW fill \in Fills, NEW loss \in Losses
               PROVE  Conforms(TableOf[tick_size[c]],
                               StopPrice(TableOf[tick_size[c]], fill, loss))
    BY DEF StopsConform
  <2>1. tick_size[c] \in Rules
    BY DEF RequestsTypeOK
  <2>2. Published(TableOf[tick_size[c]])
    BY <2>1, TicksAssumption
  <2> QED
    BY <1>1, <2>2, RoundedConforms DEF StopPrice, StopTick
<1> QED
  BY <1>2, RequestsTyped, PTL

(* A percentage and the fraction it stands for give one stop price.        *)
THEOREM PercentIsItsFraction == RequestsSpec => []PercentIsFraction
<1>1. ASSUME NEW loss \in Losses, 100 * loss \in Losses
      PROVE  Normalized(Fraction(loss)) = Normalized(Fraction(100 * loss))
  <2>1. loss \in 1..99
    BY <1>1, StopsAssumption
  <2>2. (100 * loss) \div 100 = loss
    BY <2>1
  <2>3. Normalized(Fraction(loss)) = loss
    BY <2>1 DEF Fraction, Normalized
  <2>4. CASE loss = 1
    BY <2>2, <2>3, <2>4 DEF Fraction, Normalized
  <2>5. CASE 100 * loss > 100
    BY <2>1, <2>2, <2>3, <2>5 DEF Fraction, Normalized
  <2> QED
    BY <2>1, <2>4, <2>5
<1>2. PercentIsFraction
  BY <1>1 DEF PercentIsFraction, StopPrice, StopTick, RawStop
<1> QED
  BY <1>2, PTL

LEMMA TicksAreNumbers == \A r \in Rules : TickAt50[r] \in Nat
<1> SUFFICES ASSUME NEW r \in Rules
             PROVE  ReferenceTick(TableOf[r], Fifty) \in Nat
  BY DEF TickAt50
<1> DEFINE t == TableOf[r]
           reached == {i \in DOMAIN t : t[i].lowEdge <= Fifty}
<1>1. Published(t)
  BY TicksAssumption
<1>2. /\ Len(t) \in Nat /\ DOMAIN t = 1..Len(t) /\ 1 \in DOMAIN t
      /\ \A j \in DOMAIN t : t[j].increment \in Nat \ {0}
  BY <1>1, PublishedBands
<1>3. reached # {} => Max(reached) \in DOMAIN t
  <2>1. reached \in SUBSET (1..Len(t))
    BY <1>2
  <2> HIDE DEF reached
  <2> QED
    BY <1>2, <2>1, LargestIndex
<1> QED
  BY <1>2, <1>3 DEF ReferenceTick

-----------------------------------------------------------------------------
(* The table kept for a contract.                                          *)
RulesFor(c) == {RulesOf[c][i] : i \in DOMAIN RulesOf[c]}

(* Of the contract's rules, one is still to be tried, was not answered     *)
(* for, or is no coarser than the best so far.                             *)
Compared ==
  \A r \in RulesFor(contract) :
    \/ \E i \in 1 .. Len(toTry) : toTry[i] = r
    \/ r \in silent
    \/ best # Nothing /\ TickAt50[r] <= TickAt50[best]

(* The table of the rule asked for is held unless TWS is silent or all of  *)
(* its answer is on the way.                                               *)
Answered ==
  LET h == Head(toTry) IN
    h \in silent \/ Len(wire) = 2 \/ market_rules[h] = h

OneTable == \A r \in Rules : market_rules[r] \in {r, Nothing}

BestInv ==
  \/ overdue
  \/ /\ rpc \in {"idle", "ask", "details"} => best = Nothing
     /\ rpc \in {"rules", "rule"} =>
          /\ \A i \in 1 .. Len(toTry) : toTry[i] \in RulesFor(contract)
          /\ best \in RulesFor(contract) \cup {Nothing}
          /\ Compared
     /\ rpc = "rule" => Answered

LEMMA RulesForAreRules ==
  ASSUME NEW c \in Contracts PROVE RulesFor(c) \subseteq Rules
BY RequestsAssumption DEF RulesFor

(* The body of the loop of get_tick_table.                                 *)
LEMMA UseTableStep ==
  ASSUME RequestsTypeOK, Engaged, OneTable, BestInv, ~overdue,
         rpc = "rule", wire = <<>>, UseTable,
         UNCHANGED <<contract, silent>>
  PROVE  /\ \A i \in 1 .. Len(toTry') : toTry'[i] \in RulesFor(contract)
         /\ best' \in RulesFor(contract) \cup {Nothing}
         /\ Compared'
<1> DEFINE h == Head(toTry)
<1>1. /\ toTry # <<>> /\ toTry \in Seq(Rules) /\ toTry' = Tail(toTry)
      /\ contract \in Contracts
  BY DEF RequestsTypeOK, Engaged, UseTable
<1>2. /\ Len(toTry) \in Nat /\ Len(toTry) # 0 /\ h = toTry[1] /\ h \in Rules
      /\ Len(toTry') = Len(toTry) - 1
      /\ \A i \in 1 .. Len(toTry') : toTry'[i] = toTry[i + 1]
  BY <1>1
<1>3. /\ \A i \in 1 .. Len(toTry) : toTry[i] \in RulesFor(contract)
      /\ best \in RulesFor(contract) \cup {Nothing}
      /\ Compared
      /\ h \in silent \/ market_rules[h] = h
  BY DEF BestInv, Answered
<1>4. RulesFor(contract) \subseteq Rules /\ Nothing \notin RulesFor(contract)
  BY <1>1, RulesForAreRules, RequestsAssumption
<1>5. market_rules[h] \in {h, Nothing}
  BY <1>2 DEF OneTable
<1>6. best' = IF market_rules[h] = Nothing THEN best
              ELSE IF best = Nothing \/ Coarser(market_rules[h])
              THEN market_rules[h] ELSE best
  BY DEF UseTable
<1>7. h \in RulesFor(contract) /\ h # Nothing
  BY <1>2, <1>3, <1>4
<1> HIDE DEF h
<1>8. /\ best' \in RulesFor(contract) \cup {Nothing}
      /\ best # Nothing => best' # Nothing /\ TickAt50[best] <= TickAt50[best']
      /\ h \in silent \/ (best' # Nothing /\ TickAt50[h] <= TickAt50[best'])
  BY <1>3, <1>4, <1>5, <1>6, <1>7, TicksAreNumbers, RequestsAssumption
     DEF Coarser
<1>9. ASSUME NEW r \in RulesFor(contract)
      PROVE  \/ \E i \in 1 .. Len(toTry') : toTry'[i] = r
             \/ r \in silent
             \/ best' # Nothing /\ TickAt50[r] <= TickAt50[best']
  <2>1. CASE r = h
    BY <1>8, <2>1
  <2>2. CASE \E i \in 1 .. Len(toTry) : toTry[i] = r /\ i # 1
    <3>1. PICK i \in 1 .. Len(toTry) : toTry[i] = r /\ i # 1
      BY <2>2
    <3>2. i - 1 \in 1 .. Len(toTry') /\ toTry'[i - 1] = r
      BY <1>2, <3>1
    <3> QED
      BY <3>2
  <2>3. CASE r \in silent
    BY <2>3
  <2>4. CASE best # Nothing /\ TickAt50[r] <= TickAt50[best]
    <3>1. /\ TickAt50[r] \in Nat /\ TickAt50[best] \in Nat
          /\ TickAt50[best'] \in Nat
      BY <1>3, <1>4, <1>8, <2>4, TicksAreNumbers, RequestsAssumption
    <3> QED
      BY <1>8, <2>4, <3>1
  <2> QED
    BY <1>2, <1>3, <2>1, <2>2, <2>3, <2>4 DEF Compared
<1>10. \A i \in 1 .. Len(toTry') : toTry'[i] \in RulesFor(contract)
  BY <1>2, <1>3
<1> QED
  BY <1>8, <1>9, <1>10 DEF Compared

LEMMA OneTableStep ==
  ASSUME RequestsTypeOK, OneTable, [RequestsNext]_allVars
  PROVE  OneTable'
<1> USE DEF OneTable, RequestsTypeOK
<1>1. CASE UNCHANGED market_rules
  BY <1>1
<1>2. CASE AskRule
  BY <1>2 DEF AskRule, ClearRule
<1>3. CASE Deliver
  BY <1>3 DEF Deliver
<1> QED
  BY <1>1, <1>2, <1>3
  DEF RequestsNext, allVars, requestVars, bufferVars, Resolve, TickTable,
      CallStep, SendDetailsRequest, DetailsReturn, DetailsTimeOut,
      RuleReturns, RuleTimesOut, CacheTable, TakeId, OrderBetweenCalls,
      RefreshBetweenCalls, EndRefresh

LEMMA BestStep ==
  ASSUME RequestsTypeOK, Engaged, OwnInv, OneTable, BestInv,
         [RequestsNext]_allVars
  PROVE  BestInv'
<1> SUFFICES ASSUME ~overdue' PROVE BestInv'
  BY DEF BestInv
<1>0. ~overdue /\ Expected /\ OwnDetails
  BY OverdueStays DEF OwnInv
<1> USE <1>0
<1>1. CASE /\ UNCHANGED <<rpc, contract, toTry, best, silent, market_rules>>
           /\ wire' = wire \/ rpc # "rule"
  BY <1>1 DEF BestInv, Compared, Answered
<1>2. CASE rpc' \in {"ask", "details"} /\ UNCHANGED best
           /\ rpc \in {"idle", "ask"}
  BY <1>2 DEF BestInv
<1>3. CASE rpc' = "idle" /\ best' = Nothing
  BY <1>3 DEF BestInv
<1>4. CASE DetailsReturn \/ DetailsTimeOut
  <2>1. rpc = "details" /\ UseDetails
    BY <1>4 DEF DetailsReturn, DetailsTimeOut
  <2>2. CASE Return
    BY <1>3, <2>2 DEF Return
  <2>3. CASE ~Return
    <3>1. /\ contract_details # <<>> /\ rpc' = "rules"
          /\ toTry' = RulesOf[contract_details[1]]
          /\ UNCHANGED <<contract, best, silent>>
      BY <2>1, <2>3 DEF UseDetails
    <3>2. contract_details[1] = contract
      BY <2>1, <3>1 DEF OwnDetails, RequestsTypeOK
    <3>3. contract \in Contracts /\ best = Nothing
      BY <2>1 DEF Engaged, BestInv
    <3>4. RulesOf[contract] \in Seq(Rules)
      BY <3>3, RequestsAssumption
    <3>5. /\ \A i \in 1 .. Len(toTry') : toTry'[i] \in RulesFor(contract)
          /\ \A r \in RulesFor(contract) :
               \E i \in 1 .. Len(toTry') : toTry'[i] = r
      BY <3>1, <3>2, <3>4 DEF RulesFor
    <3> QED
      BY <3>1, <3>3, <3>5 DEF BestInv, Compared
  <2> QED
    BY <2>2, <2>3
<1>5. CASE AskRule
  <2>1. /\ rpc = "rules" /\ rpc' = "rule"
        /\ UNCHANGED <<contract, toTry, best>>
        /\ \/ /\ silent' = silent
              /\ wire' = wire \o <<[type |-> "rule", of |-> Head(toTry)],
                                   [type |-> "ruleSet", of |-> Head(toTry)]>>
           \/ silent' = silent \cup {Head(toTry)}
    BY <1>5 DEF AskRule, callVars
  <2>2. Answered'
    <3>1. CASE Head(toTry) \in silent'
      BY <2>1, <3>1 DEF Answered
    <3>2. CASE Len(wire') = 2
      BY <3>2 DEF Answered
    <3>3. wire = <<>>
      BY <2>1 DEF Expected
    <3> QED
      BY <2>1, <3>1, <3>2, <3>3
  <2>3. Compared'
    BY <2>1 DEF BestInv, Compared
  <2> QED
    BY <2>1, <2>2, <2>3 DEF BestInv
<1>6. CASE RuleReturns \/ RuleTimesOut
  <2>1. /\ rpc = "rule" /\ rpc' = "rules" /\ UseTable
        /\ UNCHANGED <<contract, silent>>
    BY <1>6 DEF RuleReturns, RuleTimesOut, UseTable, historyVars
  <2>2. wire = <<>>
    BY <1>6, <2>1 DEF RuleReturns, RuleTimesOut, Expected
  <2> QED
    BY <2>1, <2>2, UseTableStep DEF BestInv
<1>7. CASE Deliver /\ rpc = "rule"
  <2>1. UNCHANGED <<rpc, contract, toTry, best, silent>>
    BY <1>7 DEF Deliver, callVars, historyVars
  <2>2. /\ wire \in Seq(Message) /\ wire # <<>>
        /\ Head(toTry) \in Rules
        /\ Len(wire) <= 2
        /\ \A i \in 1 .. Len(wire) :
             wire[i] = [type |-> IF i = Len(wire) THEN "ruleSet" ELSE "rule",
                        of |-> Head(toTry)]
    BY <1>7 DEF Deliver, RequestsTypeOK, Engaged, Expected
  <2>3. /\ Len(wire) \in {1, 2} /\ Head(wire) = wire[1]
        /\ 1 \in 1 .. Len(wire)
    <3> HIDE <1>0
    <3> DEFINE n == Len(wire)
    <3>1. n \in Nat /\ n # 0 /\ n <= 2 /\ Head(wire) = wire[1]
      BY <2>2
    <3> HIDE DEF n
    <3>2. n \in {1, 2} /\ 1 \in 1 .. n
      BY <3>1
    <3> QED
      BY <3>1, <3>2 DEF n
  <2>4. Answered'
    <3>1. CASE Len(wire) = 2
      <4>1. Head(wire) = [type |-> "rule", of |-> Head(toTry)]
        BY <2>2, <2>3, <3>1
      <4>2. market_rules' = [market_rules EXCEPT ![Head(toTry)] = Head(toTry)]
        BY <1>7, <4>1 DEF Deliver
      <4> QED
        BY <2>1, <2>2, <4>2 DEF Answered, RequestsTypeOK
    <3>2. CASE Len(wire) = 1
      <4>1. Head(wire) = [type |-> "ruleSet", of |-> Head(toTry)]
        BY <2>2, <2>3, <3>2
      <4>2. UNCHANGED market_rules
        BY <1>7, <4>1 DEF Deliver
      <4>3. Answered
        BY <1>7 DEF BestInv
      <4> QED
        BY <2>1, <3>2, <4>2, <4>3 DEF Answered
    <3> QED
      BY <2>3, <3>1, <3>2
  <2>5. Compared'
    BY <1>7, <2>1 DEF BestInv, Compared
  <2> QED
    BY <1>7, <2>1, <2>4, <2>5 DEF BestInv
<1>8. CASE Deliver /\ rpc # "rule"
  <2>1. UNCHANGED <<rpc, contract, toTry, best, silent>>
    BY <1>8 DEF Deliver, callVars, historyVars
  <2> QED
    BY <1>8, <2>1 DEF BestInv, Compared
<1> QED
  BY <1>1, <1>2, <1>3, <1>4, <1>5, <1>6, <1>7, <1>8
  DEF RequestsNext, allVars, requestVars, CallStep, Resolve, TickTable, Call,
      SendDetailsRequest, CacheTable, Return, TakeId, OrderBetweenCalls,
      RefreshBetweenCalls, EndRefresh, bufferVars, callVars, historyVars

LEMMA RequestsBest == RequestsSpec => [](OneTable /\ BestInv)
<1>1. RequestsInit => OneTable /\ BestInv
  BY DEF RequestsInit, OneTable, BestInv
<1>2. /\ RequestsTypeOK /\ Engaged /\ OwnInv /\ OneTable /\ BestInv
      /\ [RequestsNext]_allVars
      => OneTable' /\ BestInv'
  BY OneTableStep, BestStep
<1> QED
  BY <1>1, <1>2, RequestsTyped, RequestsOwn, PTL DEF RequestsSpec

(* get_tick_table: the table kept for a contract is of one of its rules    *)
(* and, at the reference price, the coarsest of those TWS answered for,    *)
(* for any number of rules.                                                *)
THEOREM CoarsestTableIsKept == RequestsSpec => TickTableIsCoarsest
<1> DEFINE Kept ==
      \A c \in Contracts :
        overdue \/ tick_size'[c] \in {tick_size[c], Nothing} \/
          LET rules == {RulesOf[c][i] : i \in DOMAIN RulesOf[c]} IN
            /\ tick_size'[c] \in rules
            /\ \A r \in rules \ silent :
                 TickAt50[r] <= TickAt50[tick_size'[c]]
<1>1. RequestsTypeOK /\ Engaged /\ BestInv /\ [RequestsNext]_allVars
      => [Kept]_allVars
  <2> SUFFICES ASSUME RequestsTypeOK, Engaged, BestInv, RequestsNext, ~overdue,
                      NEW c \in Contracts,
                      tick_size'[c] \notin {tick_size[c], Nothing}
               PROVE  /\ tick_size'[c] \in RulesFor(c)
                      /\ \A r \in RulesFor(c) \ silent :
                           TickAt50[r] <= TickAt50[tick_size'[c]]
    BY DEF RulesFor
  <2>1. CacheTable
    BY DEF RequestsNext, requestVars, Resolve, TickTable, CallStep, UseDetails,
       SendDetailsRequest, DetailsReturn, DetailsTimeOut, AskRule,
       RuleReturns, RuleTimesOut, Deliver, TakeId, OrderBetweenCalls,
       RefreshBetweenCalls, EndRefresh, cacheVars
  <2>2. /\ rpc = "rules" /\ toTry = <<>> /\ best # Nothing
        /\ tick_size' = [tick_size EXCEPT ![contract] = best]
    BY <2>1 DEF CacheTable
  <2>3. c = contract /\ tick_size'[c] = best
    BY <2>2 DEF RequestsTypeOK
  <2> QED
    BY <2>2, <2>3 DEF BestInv, Compared
<1> QED
  BY <1>1, RequestsTyped, RequestsBest, PTL DEF RequestsSpec, TickTableIsCoarsest

=============================================================================
