---------------------------- MODULE ExecutorProofs ----------------------------
(* The executor over all its sessions, for every set of rows and assets,   *)
(* every number of tiers, orders and shares, and kills anywhere.           *)
EXTENDS Executor, SmartRouterProofs, FillMonitorProofs

(* Orders that have a row are placed ones, and all those the session keeps *)
(* have one.                                                               *)
OwnersTied ==
  /\ \A o \in OrderId : owner[o] # NoRow => o < nextorderId
  /\ \A o \in exitIds \cup entryIds : owner[o] # NoRow
  /\ rpc # "idle" => curRow # NoRow
  /\ rpc \in {"check", "accepted"} => owner[cur] # NoRow

(* The loops run over orders of the session, and the one whose writes have *)
(* begun was reported filled.                                              *)
LoopsTied ==
  /\ waiting \subseteq entryIds
  /\ queue \subseteq exitIds \cup entryIds
  /\ stage # "verdict" => pc = "process"
  /\ stage # "verdict" => \A o \in OrderId : AtOrder(o) => IsFilled(o)

ExecInv ==
  /\ OrdersInv
  /\ RouterInv
  /\ MonitorInv
  /\ ExecTypeOK
  /\ OwnersTied
  /\ LoopsTied

LEMMA ExecInvInit == Init => ExecInv
<1> SUFFICES ASSUME Init PROVE ExecInv
  OBVIOUS
<1>1. OrdersInv /\ RouterInv /\ MonitorInv
  BY OrdersInvInit, RouterInvInit, MonitorInvInit DEF Init
<1>2. ExecTypeOK
  BY ExecutorAssumption
  DEF Init, ExecInit, ExecTypeOK, StatusValue, Initially, NoOrder
<1>3. OwnersTied /\ LoopsTied
  BY DEF Init, ExecInit, RouterInit, OwnersTied, LoopsTied
<1> QED
  BY <1>1, <1>2, <1>3 DEF ExecInv

(* A step of the executor is, for the components below it, the end of the  *)
(* process or one of their own steps.                                      *)
LEMMA StepKinds ==
  ASSUME ExecInv, [Next]_vars
  PROVE  \/ EndSession
         \/ /\ [OrdersStep]_orderVars
            /\ [RouterStep]_rvars
            /\ [MonitorAnyStep]_mvars
<1> USE DEF rvars, mvars
<1>1. CASE StartSession \/ UNCHANGED vars
  BY <1>1 DEF StartSession, vars
<1>2. CASE Kill \/ NothingToMonitor \/ Finish
  BY <1>2 DEF Kill, NothingToMonitor, Finish
<1>3. CASE \E r \in Rows : SkipRow(r) \/ SubmitExit(r) \/ SubmitEntry(r)
  BY <1>3 DEF SkipRow, SubmitExit, SubmitEntry, Submit, RouterStep
<1>4. CASE PlaceForRow
  BY <1>4 DEF PlaceForRow, RouterPlace, RouterStep, OrdersStep, MonitorAnyStep
<1>5. CASE CheckTier \/ RecordSubmission
  BY <1>5 DEF CheckTier, RecordSubmission, RouterStep
<1>6. CASE EndExits \/ EndEntries \/ PersistNextPass \/ EndMonitor
  BY <1>6 DEF EndExits, EndEntries, PersistNextPass, EndMonitor
<1>7. CASE StartMonitor
  <2>1. exitIds \cup entryIds \in SUBSET OrderId
    BY DEF ExecInv, ExecTypeOK
  <2> QED
    BY <1>7, <2>1 DEF StartMonitor, MonitorAnyStep
<1>8. CASE MonitorOrders
  BY <1>8 DEF MonitorOrders, MonitorAnyStep
<1>9. CASE \E o \in OrderId : PersistCheck(o)
  BY <1>9 DEF PersistCheck
<1>10. CASE \E o \in OrderId : \/ BookPosition(o) \/ BookExecuted(o)
                               \/ WriteClosedTrade(o) \/ SettleUnfilled(o)
  BY <1>10 DEF BookPosition, BookExecuted, WriteClosedTrade, SettleUnfilled,
               UnchangedByBooking
<1>11. CASE Broker
  BY <1>11 DEF Broker, OrdersStep, RouterStep, MonitorAnyStep
<1>12. CASE Reader
  <2>1. ReadOrders \subseteq OrderId
    BY DEF ReadOrders, ExecInv, ExecTypeOK, RouterInv, RouterTypeOK
  <2>2. ReaderNext(OrderId)
    BY <1>12, <2>1 DEF Reader, ReaderNext
  <2> QED
    BY <1>12, <2>2 DEF Reader, OrdersStep, RouterStep, MonitorAnyStep
<1> QED
  BY <1>1, <1>2, <1>3, <1>4, <1>5, <1>6, <1>7, <1>8, <1>9, <1>10, <1>11, <1>12
  DEF Next, Main

(* What the components keep by themselves survives the end of a process:   *)
(* the record is forgotten, the broker is not.                             *)
LEMMA ComponentsStep ==
  ASSUME ExecInv, [Next]_vars
  PROVE  OrdersInv' /\ RouterInv' /\ MonitorInv'
<1>1. CASE EndSession
  <2>1. OrdersTypeOK' /\ BrokerSound'
    BY <1>1, OrdersAssumption
    DEF EndSession, ExecInv, OrdersInv, OrdersTypeOK, BrokerSound, NoView,
        ViewStatus, OrderId
  <2>2. ViewSound'
    BY <1>1, OrdersAssumption
    DEF EndSession, ExecInv, OrdersInv, OrdersTypeOK, ViewSound, NoView
  <2>3. RouterInv'
    BY <1>1, RouterAssumption
    DEF EndSession, RouterInv, RouterTypeOK, CallTied, GivenUpIsDead, NoOrder
  <2>4. MonitorInv'
    <3>1. /\ mpc' = "off" /\ pending' = {} /\ todo' = {}
          /\ results' = NoResults
      BY <1>1 DEF EndSession, MonitorReset
    <3>2. MonitorTypeOK'
      BY <3>1, NoResultsType DEF MonitorTypeOK
    <3>3. VerdictSound'
      BY <3>1 DEF VerdictSound, NoResults, NoVerdict, EndStatus
    <3> QED
      BY <3>2, <3>3 DEF MonitorInv
  <2> QED
    BY <2>1, <2>2, <2>3, <2>4 DEF OrdersInv
<1>2. CASE /\ [OrdersStep]_orderVars
           /\ [RouterStep]_rvars
           /\ [MonitorAnyStep]_mvars
  BY <1>2, OrdersInvStep, RouterInvStep, MonitorInvStep DEF ExecInv
<1> QED
  BY <1>1, <1>2, StepKinds

(* The order being booked has a row.                                       *)
LEMMA QueueOwned ==
  ASSUME ExecInv, NEW o \in OrderId, AtOrder(o)
  PROVE  owner[o] \in Rows /\ AssetOf[owner[o]] \in Assets
  BY ExecutorAssumption
  DEF ExecInv, ExecTypeOK, OwnersTied, LoopsTied, AtOrder

(* Types: the files and what the session remembers.                        *)
LEMMA ExecTypeStep ==
  ASSUME ExecInv, [Next]_vars
  PROVE  ExecTypeOK'
<1> USE ExecutorAssumption DEF ExecTypeOK, fileVars, historyVars
<1>0. /\ ExecTypeOK
      /\ cur \in OrderId \cup {NoOrder}
      /\ tried \subseteq OrderId
      /\ rpc \in {"check", "accepted", "failed"} => cur \in tried
      /\ \A o \in OrderId : /\ orders[o].permId \in 0 .. MaxOrders
                            /\ results[o].perm \in 0 .. MaxOrders
  BY DEF ExecInv, RouterInv, RouterTypeOK, CallTied, OrdersInv, OrdersTypeOK,
         MonitorInv, MonitorTypeOK
<1>1. CASE UNCHANGED execVars
  BY <1>0, <1>1 DEF execVars, sessionVars
<1>2. CASE StartSession
  <2>1. toSubmit' \in SUBSET Rows
    BY <1>0, <1>2 DEF StartSession
  <2> QED
    BY <1>0, <1>2, <2>1 DEF StartSession, Phases
<1>3. CASE EndSession
  BY <1>0, <1>3 DEF EndSession
<1>4. CASE \E r \in Rows : SkipRow(r) \/ SubmitExit(r) \/ SubmitEntry(r)
  BY <1>0, <1>4 DEF SkipRow, SubmitExit, SubmitEntry, Submit
<1>5. CASE PlaceForRow
  BY <1>0, <1>5 DEF PlaceForRow, sessionVars
<1>6. CASE RecordSubmission
  <2>1. rpc = "accepted" => cur \in OrderId
    BY <1>0
  <2>2. exitIds' \subseteq OrderId /\ entryIds' \subseteq OrderId
    BY <1>0, <1>6, <2>1 DEF RecordSubmission
  <2> QED
    BY <1>0, <1>6, <2>2 DEF RecordSubmission
<1>7. CASE EndExits \/ EndEntries \/ PersistNextPass \/ StartMonitor \/ EndMonitor
  BY <1>0, <1>7 DEF EndExits, EndEntries, PersistNextPass, StartMonitor, EndMonitor,
              Phases
<1>8. ASSUME NEW o \in OrderId, PersistCheck(o) PROVE ExecTypeOK'
  <2>1. rowPerm' \in [Rows -> OrderId \cup {NoOrder}]
    BY <1>0, <1>8 DEF PersistCheck, PersistPendingPerm, OrderId, NoOrder
  <2> QED
    BY <1>0, <1>8, <2>1 DEF PersistCheck
<1>9. ASSUME NEW o \in OrderId, BookPosition(o) PROVE ExecTypeOK'
  <2>1. AssetOf[owner[o]] \in Assets
    BY <1>0, <1>9, QueueOwned DEF BookPosition
  <2>2. positions[AssetOf[owner[o]]] + 1 \in Nat
    BY <1>0, <2>1
  <2>3. positions' \in [Assets -> Nat]
    BY <1>0, <1>9, <2>2 DEF BookPosition, WritePosition
  <2> QED
    BY <1>0, <1>9, <2>3 DEF BookPosition, WritePosition, UnchangedByBooking
<1>10. ASSUME NEW o \in OrderId, BookExecuted(o) PROVE ExecTypeOK'
  BY <1>0, <1>10
  DEF BookExecuted, UpdateSignalStatus, UnchangedByBooking, StatusValue
<1>11. ASSUME NEW o \in OrderId, WriteClosedTrade(o) PROVE ExecTypeOK'
  BY <1>0, <1>11 DEF WriteClosedTrade, UnchangedByBooking
<1>12. ASSUME NEW o \in OrderId, SettleUnfilled(o) PROVE ExecTypeOK'
  <2>1. UnfilledStatus(o) \in StatusValue
    BY DEF UnfilledStatus, StatusValue
  <2>2. rowStatus' \in [Rows -> StatusValue]
    BY <1>0, <1>12, <2>1 DEF SettleUnfilled, UpdateSignalStatus
  <2>3. rowPerm' \in [Rows -> OrderId \cup {NoOrder}]
    BY <1>0, <1>12 DEF SettleUnfilled, PersistPendingPerm, OrderId, NoOrder
  <2> QED
    BY <1>0, <1>12, <2>2, <2>3 DEF SettleUnfilled, UnchangedByBooking
<1> QED
  BY <1>1, <1>2, <1>3, <1>4, <1>5, <1>6, <1>7, <1>8, <1>9, <1>10, <1>11, <1>12
  DEF Next, Main, CheckTier, MonitorOrders, Broker, Reader, Kill, Finish,
      NothingToMonitor, vars

LEMMA OwnersTiedStep ==
  ASSUME ExecInv, [Next]_vars
  PROVE  OwnersTied'
<1> USE DEF OwnersTied, fileVars, historyVars, orderVars, routerVars
<1>0. /\ nextorderId \in 1 .. MaxOrders + 1
      /\ owner \in [OrderId -> Rows \cup {NoRow}]
      /\ exitIds \subseteq OrderId /\ entryIds \subseteq OrderId
      /\ cur \in OrderId \cup {NoOrder}
      /\ curRow \in Rows \cup {NoRow}
      /\ rpc \in {"check", "accepted", "failed"} => cur \in OrderId
      /\ OwnersTied
  BY DEF ExecInv, ExecTypeOK, OrdersInv, OrdersTypeOK, RouterInv,
         RouterTypeOK, CallTied
<1>1. CASE UNCHANGED vars
  BY <1>0, <1>1 DEF vars, execVars, sessionVars
<1>2. CASE StartSession
  BY <1>0, <1>2 DEF StartSession
<1>3. CASE EndSession
  BY <1>0, <1>3 DEF EndSession
<1>4. CASE \E r \in Rows : SkipRow(r) \/ SubmitExit(r) \/ SubmitEntry(r)
  BY <1>0, <1>4, ExecutorAssumption
  DEF SkipRow, SubmitExit, SubmitEntry, Submit, RouterCall
<1>5. CASE PlaceForRow
  <2>1. /\ nextorderId \in OrderId
        /\ nextorderId' = nextorderId + 1
        /\ cur' = nextorderId
        /\ owner' = [owner EXCEPT ![nextorderId] = curRow]
        /\ curRow # NoRow
        /\ UNCHANGED <<exitIds, entryIds, curRow>>
    BY <1>0, <1>5 DEF PlaceForRow, RouterPlace, PlaceOrder, sessionVars
  <2> QED
    BY <1>0, <2>1 DEF OrderId
<1>6. CASE CheckTier
  BY <1>0, <1>6
  DEF CheckTier, RouterLocal, RouterTryNext, RouterGiveUp, RouterAccept,
      execVars, sessionVars
<1>7. CASE RecordSubmission
  BY <1>0, <1>7 DEF RecordSubmission, RouterReturn
<1>8. CASE \/ EndExits \/ EndEntries \/ PersistNextPass \/ StartMonitor
           \/ EndMonitor \/ MonitorOrders
  BY <1>0, <1>8 DEF EndExits, EndEntries, PersistNextPass, StartMonitor,
                    EndMonitor, MonitorOrders, execVars, sessionVars
<1>9. CASE \E o \in OrderId :
             \/ PersistCheck(o) \/ BookPosition(o) \/ BookExecuted(o)
             \/ WriteClosedTrade(o) \/ SettleUnfilled(o)
  BY <1>0, <1>9 DEF PersistCheck, BookPosition, BookExecuted,
                    WriteClosedTrade, SettleUnfilled, UnchangedByBooking
<1>10. CASE Broker \/ Reader
  <2>1. UNCHANGED <<nextorderId, routerVars, execVars>>
    BY <1>10 DEF Broker, Reader, BrokerNext, BrokerAcknowledge, BrokerFill,
                 BrokerCancel, BrokerReject, ReaderNext, OrderStatus,
                 OpenOrder, ErrorCancelled, ErrorRejected
  <2> QED
    BY <1>0, <2>1 DEF execVars, sessionVars
<1> QED
  BY <1>1, <1>2, <1>3, <1>4, <1>5, <1>6, <1>7, <1>8, <1>9, <1>10
  DEF Next, Main, Kill, Finish, NothingToMonitor

LEMMA LoopsTiedStep ==
  ASSUME ExecInv, [Next]_vars
  PROVE  LoopsTied'
<1> USE DEF LoopsTied, fileVars, historyVars
<1>0. LoopsTied /\ queue \subseteq OrderId
  BY DEF ExecInv, ExecTypeOK
<1>1. CASE UNCHANGED <<monitorVars, execVars>>
  BY <1>0, <1>1 DEF execVars, sessionVars, monitorVars, AtOrder, IsFilled
<1>2. CASE StartSession \/ EndExits \/ EndEntries \/ PersistNextPass
  BY <1>0, <1>2 DEF StartSession, EndExits, EndEntries, PersistNextPass
<1>3. CASE EndSession
  BY <1>0, <1>3 DEF EndSession
<1>4. CASE \E r \in Rows : SkipRow(r) \/ SubmitExit(r) \/ SubmitEntry(r)
  BY <1>0, <1>4
  DEF SkipRow, SubmitExit, SubmitEntry, Submit, PhaseOf
<1>5. CASE PlaceForRow
  BY <1>0, <1>5 DEF PlaceForRow, sessionVars, monitorVars, AtOrder, IsFilled
<1>6. CASE RecordSubmission
  BY <1>0, <1>6 DEF RecordSubmission, monitorVars, AtOrder, IsFilled
<1>7. CASE StartMonitor \/ EndMonitor
  BY <1>0, <1>7 DEF StartMonitor, EndMonitor
<1>8. CASE MonitorOrders
  BY <1>0, <1>8 DEF MonitorOrders, execVars, sessionVars
<1>9. ASSUME NEW o \in OrderId, PersistCheck(o) PROVE LoopsTied'
  BY <1>0, <1>9 DEF PersistCheck
<1>10. ASSUME NEW o \in OrderId, BookPosition(o) PROVE LoopsTied'
  <2>1. /\ pc' = "process" /\ queue' = queue /\ results' = results
        /\ AtOrder(o) /\ IsFilled(o)
    BY <1>10 DEF BookPosition, UnchangedByBooking, monitorVars, AtOrder
  <2>2. \A p \in OrderId : AtOrder(p)' => p = o
    BY <2>1 DEF AtOrder, OrderId
  <2> QED
    BY <1>0, <1>10, <2>1, <2>2
    DEF BookPosition, UnchangedByBooking, IsFilled
<1>11. ASSUME NEW o \in OrderId, BookExecuted(o) PROVE LoopsTied'
  BY <1>0, <1>11
  DEF BookExecuted, UnchangedByBooking, monitorVars, AtOrder, IsFilled
<1>12. ASSUME NEW o \in OrderId, WriteClosedTrade(o) \/ SettleUnfilled(o)
       PROVE  LoopsTied'
  BY <1>0, <1>12 DEF WriteClosedTrade, SettleUnfilled, UnchangedByBooking
<1> QED
  BY <1>1, <1>2, <1>3, <1>4, <1>5, <1>6, <1>7, <1>8, <1>9, <1>10, <1>11, <1>12
  DEF Next, Main, CheckTier, Broker, Reader, Kill, Finish, NothingToMonitor,
      vars

LEMMA ExecInvStep == ExecInv /\ [Next]_vars => ExecInv'
  BY ComponentsStep, ExecTypeStep, OwnersTiedStep, LoopsTiedStep DEF ExecInv

LEMMA ExecSpecInv == Spec => []ExecInv
  BY ExecInvInit, ExecInvStep, PTL DEF Spec

-----------------------------------------------------------------------------
(* Types of the whole executor, over all sessions and kills.               *)
THEOREM ExecutorTypeCorrect == Spec => []TypeOK
<1>1. ExecInv => TypeOK
  BY DEF ExecInv, OrdersInv, RouterInv, MonitorInv, TypeOK
<1> QED
  BY <1>1, ExecSpecInv, PTL

(* No two rows share an asset, the case the files are made for.            *)
OneRowPerAsset ==
  \A r, q \in Rows : AssetOf[r] = AssetOf[q] => r = q

(* An order that was filled stays filled, and stays with its row.          *)
LEMMA FilledStays ==
  ASSUME ExecInv, [Next]_vars, NEW o \in OrderId, Filled(o)
  PROVE  Filled(o)' /\ owner'[o] = owner[o]
<1>1. Filled(o)'
  <2>1. CASE EndSession
    BY <2>1 DEF EndSession, Filled
  <2>2. CASE [OrdersStep]_orderVars
    BY <2>2, FinalStays DEF Filled, ExecInv
  <2> QED
    BY <2>1, <2>2, StepKinds
<1>2. owner'[o] = owner[o]
  <2>1. CASE PlaceForRow
    <3>1. o # nextorderId
      BY DEF ExecInv, OrdersInv, OrdersTypeOK, BrokerSound, Filled
    <3> QED
      BY <2>1, <3>1 DEF PlaceForRow, ExecInv, ExecTypeOK
  <2>2. CASE UNCHANGED owner
    BY <2>2
  <2>3. PlaceForRow \/ UNCHANGED owner
    BY DEF Next, vars, execVars, historyVars, sessionVars, fileVars,
           StartSession, Main, Kill, Broker, Reader, EndSession, SkipRow,
           SubmitExit, SubmitEntry, Submit, CheckTier, RecordSubmission,
           EndExits, EndEntries, PersistCheck, PersistNextPass, StartMonitor,
           NothingToMonitor, MonitorOrders, EndMonitor, BookPosition,
           BookExecuted, WriteClosedTrade, SettleUnfilled, Finish,
           UnchangedByBooking
  <2> QED
    BY <2>1, <2>2, <2>3
<1> QED
  BY <1>1, <1>2

(* The only writers of the status column.                                  *)
LEMMA StatusWriters ==
  ASSUME [Next]_vars
  PROVE  \/ UNCHANGED rowStatus
         \/ \E o \in OrderId : BookExecuted(o) \/ SettleUnfilled(o)
  BY DEF Next, vars, execVars, historyVars, sessionVars, fileVars,
         StartSession, Main, Kill, Broker, Reader, EndSession, SkipRow,
         SubmitExit, SubmitEntry, Submit, CheckTier, RecordSubmission,
         PlaceForRow, EndExits, EndEntries, PersistCheck, PersistNextPass,
         StartMonitor, NothingToMonitor, MonitorOrders, EndMonitor,
         BookPosition, WritePosition, WriteClosedTrade, Finish

LEMMA ExecutedIsFilledStep ==
  ASSUME OneRowPerAsset, ExecInv, ExecutedIsFilled, [Next]_vars
  PROVE  ExecutedIsFilled'
<1> SUFFICES ASSUME NEW r \in Rows, rowStatus'[r] = "EXECUTED"
             PROVE  \E o \in OrderId : owner'[o] = r /\ Filled(o)'
  BY DEF ExecutedIsFilled, Owned
<1>1. CASE rowStatus[r] = "EXECUTED"
  <2> PICK o \in OrderId : owner[o] = r /\ Filled(o)
    BY <1>1 DEF ExecutedIsFilled, Owned
  <2> QED
    BY FilledStays
<1>2. ASSUME NEW o \in OrderId, BookExecuted(o), rowStatus[r] # "EXECUTED"
      PROVE  owner[o] = r /\ Filled(o)
  <2>1. AssetOf[r] = AssetOf[owner[o]]
    BY <1>2 DEF BookExecuted, UpdateSignalStatus
  <2>2. owner[o] = r
    BY <1>2, <2>1, QueueOwned DEF BookExecuted, OneRowPerAsset
  <2>3. IsFilled(o)
    BY <1>2 DEF BookExecuted, ExecInv, LoopsTied
  <2> QED
    BY <2>2, <2>3 DEF ExecInv, MonitorInv, VerdictSound, IsFilled, Filled
<1>3. ASSUME NEW o \in OrderId, SettleUnfilled(o)
      PROVE  rowStatus[r] = "EXECUTED"
  <2>1. UnfilledStatus(o) # "EXECUTED"
    BY DEF UnfilledStatus
  <2> QED
    BY <1>3, <2>1 DEF SettleUnfilled, UpdateSignalStatus
<1> QED
  BY <1>1, <1>2, <1>3, StatusWriters, FilledStays

(* A row that says EXECUTED has an order filled in full, over all sessions *)
(* and kills, when no two rows share an asset.  The assumption is needed:  *)
(* _update_signal_status settles every pending row of the asset.           *)
THEOREM ExecutedOnlyWhenFilled ==
  ASSUME OneRowPerAsset
  PROVE  Spec => []ExecutedIsFilled
<1>1. Init => ExecutedIsFilled
  BY DEF Init, ExecInit, ExecutedIsFilled
<1>2. ExecInv /\ ExecutedIsFilled /\ [Next]_vars => ExecutedIsFilled'
  BY ExecutedIsFilledStep
<1> QED
  BY <1>1, <1>2, ExecSpecInv, PTL DEF Spec

(* A settled row is never rewritten, whatever is booked for other rows of  *)
(* its asset.                                                              *)
THEOREM SettledStay == Spec => SettledRowsStay
<1>1. ASSUME [Next]_vars, ExecTypeOK, NEW r \in Rows, ~Pending(r)
      PROVE  rowStatus'[r] = rowStatus[r]
  BY <1>1, StatusWriters
  DEF BookExecuted, SettleUnfilled, UpdateSignalStatus
<1>2. ExecInv /\ [Next]_vars
        => [\A r \in Rows : ~Pending(r) => rowStatus'[r] = rowStatus[r]]_vars
  BY <1>1 DEF ExecInv
<1> QED
  BY <1>2, ExecSpecInv, PTL DEF Spec, SettledRowsStay

-----------------------------------------------------------------------------
(* The contracts of router and monitor, in sessions that may be killed.    *)

LEMMA CallInvInSession ==
  ASSUME ExecInv, CallInv, [Next]_vars
  PROVE  CallInv'
<1>1. CASE EndSession
  BY <1>1
  DEF EndSession, MonitorReset, CallInv, CallGiven, FinalPending, InCall,
      Judged, NoResults, NoVerdict
<1>2. CASE [MonitorAnyStep]_mvars
  BY <1>2, CallInvStep DEF ExecInv
<1> QED
  BY <1>1, <1>2, StepKinds

(* submit_with_fallback as run() calls it, one row after the other and in  *)
(* both phases: every call is one order to the executor, and a call ends   *)
(* without an answer only when the process does.                           *)
THEOREM ExecutorCallsKeepContract == Spec => CallsKeepContract
<1>1. Init => C!Init
  BY OrderCallInit DEF Init
<1>2. ExecInv /\ [Next]_vars => [C!Next \/ EndSession]_(C!callVars)
  BY StepKinds, OrderCallStep DEF ExecInv
<1> QED
  BY <1>1, <1>2, ExecSpecInv, PTL DEF Spec, CallsKeepContract

(* monitor_all as run() calls it, on all orders of the session: what       *)
(* _process_results reads was true when it was told, of every order, and   *)
(* has not been rewritten since.                                           *)
THEOREM ExecutorVerdictsKeepContract == Spec => VerdictsKeepContract
<1>1. Init => CallInv /\ V!Init
  BY CallInvInit, VerdictInit DEF Init
<1>2. ExecInv /\ CallInv /\ [Next]_vars => CallInv'
  BY CallInvInSession
<1>3. ExecInv /\ CallInv /\ [Next]_vars
        => [V!Next \/ EndSession]_(V!verdictVars)
  BY StepKinds, VerdictStep DEF ExecInv
<1> QED
  BY <1>1, <1>2, <1>3, ExecSpecInv, PTL DEF Spec, VerdictsKeepContract

=============================================================================
