----------------------------- MODULE LedgerProofs -----------------------------
(* What the sessions of the executor do to a row: it never has two orders  *)
(* that may trade, and its files go through the states of Ledger.          *)
EXTENDS ExecutorProofs, FiniteSetTheorems

SessionIds == exitIds \cup entryIds

(* Where a session may stand: it submits in two phases, one row at a time. *)
SessionShape ==
  /\ pc = "idle" => exitIds = {} /\ entryIds = {}
  /\ pc \notin {"exits", "entries"} => toSubmit = {} /\ rpc = "idle"
  /\ curRow = NoRow <=> rpc = "idle"
  /\ curRow # NoRow => PhaseOf(curRow) = pc
  /\ rpc \in {"check", "accepted"} => owner[cur] = curRow
  /\ pc = "persist" => queue \subseteq entryIds

(* Each loaded row is still to be looked at, being submitted, or has one   *)
(* order in the list of its side.                                          *)
SessionRows ==
  /\ \A r \in Rows : r \in toSubmit \/ r = curRow => Pending(r)
  /\ curRow \notin toSubmit
  /\ \A o \in SessionIds : owner[o] \notin toSubmit /\ owner[o] # curRow
  /\ \A o \in exitIds : ActionOf[owner[o]] = "SELL"
  /\ \A o \in entryIds : ActionOf[owner[o]] = "BUY"
  /\ \A o, p \in SessionIds : owner[o] = owner[p] => o = p

SessionInv == ExecInv /\ SessionShape /\ SessionRows

LEMMA SessionInvInit == Init => SessionInv
<1> SUFFICES ASSUME Init PROVE SessionInv
  OBVIOUS
<1>1. SessionShape /\ SessionRows
  BY ExecutorAssumption
  DEF Init, ExecInit, RouterInit, SessionShape, SessionRows, SessionIds
<1> QED
  BY <1>1, ExecInvInit DEF SessionInv

LEMMA SessionShapeStep ==
  ASSUME SessionInv, [Next]_vars
  PROVE  SessionShape'
<1> USE DEF SessionShape, PhaseOf, fileVars, historyVars, orderVars, routerVars
<1>0. /\ SessionShape
      /\ nextorderId \in 1 .. MaxOrders + 1
      /\ owner \in [OrderId -> Rows \cup {NoRow}]
      /\ curRow \in Rows \cup {NoRow}
      /\ toSubmit \subseteq Rows
      /\ NoRow \notin Rows
      /\ rpc \in {"idle", "place", "check", "accepted", "failed"}
      /\ pc \in Phases \cup {"idle"}
      /\ waiting \subseteq entryIds
  BY ExecutorAssumption
  DEF LoopsTied, SessionInv, ExecInv, ExecTypeOK, OrdersInv, OrdersTypeOK, RouterInv,
      RouterTypeOK
<1>1. CASE UNCHANGED vars
  BY <1>0, <1>1 DEF vars, execVars, sessionVars
<1>2. CASE StartSession
  BY <1>0, <1>2 DEF StartSession
<1>3. CASE EndSession
  BY <1>0, <1>3 DEF EndSession
<1>4. CASE \E r \in Rows : SkipRow(r) \/ SubmitExit(r) \/ SubmitEntry(r)
  BY <1>0, <1>4 DEF SkipRow, SubmitExit, SubmitEntry, Submit, RouterCall
<1>5. CASE PlaceForRow
  <2>1. /\ nextorderId \in OrderId
        /\ cur' = nextorderId
        /\ owner' = [owner EXCEPT ![nextorderId] = curRow]
        /\ rpc = "place" /\ rpc' = "check"
        /\ UNCHANGED sessionVars
    BY <1>0, <1>5 DEF PlaceForRow, RouterPlace, PlaceOrder
  <2> QED
    BY <1>0, <2>1 DEF sessionVars
<1>6. CASE CheckTier
  BY <1>0, <1>6
  DEF CheckTier, RouterLocal, RouterTryNext, RouterGiveUp, RouterAccept,
      execVars, sessionVars
<1>7. CASE RecordSubmission
  BY <1>0, <1>7 DEF RecordSubmission, RouterReturn, Phases
<1>8. CASE EndExits \/ EndEntries
  BY <1>0, <1>8 DEF EndExits, EndEntries
<1>9. CASE PersistNextPass \/ StartMonitor \/ EndMonitor
  BY <1>0, <1>9 DEF PersistNextPass, StartMonitor, EndMonitor
<1>10. CASE MonitorOrders
  BY <1>0, <1>10 DEF MonitorOrders, execVars, sessionVars
<1>11. CASE \E o \in OrderId :
             \/ PersistCheck(o) \/ BookPosition(o) \/ BookExecuted(o)
             \/ WriteClosedTrade(o) \/ SettleUnfilled(o)
  BY <1>0, <1>11 DEF PersistCheck, BookPosition, BookExecuted,
                    WriteClosedTrade, SettleUnfilled, UnchangedByBooking
<1>12. CASE Broker \/ Reader
  <2>1. UNCHANGED <<routerVars, execVars>>
    BY <1>12 DEF Broker, Reader
  <2> QED
    BY <1>0, <2>1 DEF execVars, sessionVars
<1> QED
  BY <1>1, <1>2, <1>3, <1>4, <1>5, <1>6, <1>7, <1>8, <1>9, <1>10, <1>11, <1>12
  DEF Next, Main, Kill, Finish, NothingToMonitor

LEMMA SessionRowsStep ==
  ASSUME SessionInv, [Next]_vars
  PROVE  SessionRows'
<1> USE DEF SessionRows, SessionIds, Pending, fileVars, historyVars, routerVars
<1>0. /\ SessionRows
      /\ nextorderId \in 1 .. MaxOrders + 1
      /\ owner \in [OrderId -> Rows \cup {NoRow}]
      /\ curRow \in Rows \cup {NoRow}
      /\ toSubmit \subseteq Rows
      /\ exitIds \subseteq OrderId /\ entryIds \subseteq OrderId
      /\ NoRow \notin Rows
  BY ExecutorAssumption
  DEF SessionInv, ExecInv, ExecTypeOK, OrdersInv, OrdersTypeOK
<1>1. CASE UNCHANGED execVars
  BY <1>0, <1>1 DEF execVars, sessionVars
<1>2. CASE StartSession
  <2>1. exitIds = {} /\ entryIds = {} /\ curRow = NoRow
    BY <1>2 DEF SessionInv, SessionShape, StartSession
  <2> QED
    BY <1>0, <1>2, <2>1 DEF StartSession, MayLoad
<1>3. CASE EndSession
  BY <1>0, <1>3 DEF EndSession
<1>4. ASSUME NEW r \in Rows, SkipRow(r) \/ SubmitExit(r) \/ SubmitEntry(r)
      PROVE  SessionRows'
  <2>1. toSubmit' = toSubmit \ {r} /\ r \in toSubmit
    BY <1>4 DEF SkipRow, SubmitExit, SubmitEntry, Submit
  <2>2. UNCHANGED <<owner, exitIds, entryIds, rowStatus>>
    BY <1>4 DEF SkipRow, SubmitExit, SubmitEntry, Submit
  <2>3. curRow' \in {r, curRow}
    BY <1>4 DEF SkipRow, SubmitExit, SubmitEntry, Submit
  <2> QED
    BY <1>0, <2>1, <2>2, <2>3
<1>5. CASE PlaceForRow
  <2>1. nextorderId \notin SessionIds
    BY DEF SessionInv, ExecInv, OwnersTied, ExecTypeOK, OrdersInv, OrdersTypeOK,
           OrderId
  <2>2. /\ owner' = [owner EXCEPT ![nextorderId] = curRow]
        /\ UNCHANGED <<toSubmit, curRow, exitIds, entryIds, rowStatus>>
    BY <1>5 DEF PlaceForRow, sessionVars
  <2>3. \A o \in SessionIds : owner'[o] = owner[o]
    BY <1>0, <2>1, <2>2
  <2> QED
    BY <1>0, <2>2, <2>3
<1>6. CASE RecordSubmission
  <2>1. /\ curRow' = NoRow /\ UNCHANGED <<owner, toSubmit, rowStatus>>
        /\ rpc \in {"accepted", "failed"}
    BY <1>6 DEF RecordSubmission, RouterReturn
  <2>2. CASE UNCHANGED <<exitIds, entryIds>>
    BY <1>0, <2>1, <2>2, ExecutorAssumption DEF SessionInv, ExecInv, OwnersTied
  <2>3. CASE rpc = "accepted"
    <3>1. /\ owner[cur] = curRow /\ curRow \in Rows /\ PhaseOf(curRow) = pc
      BY <1>0, <2>3 DEF SessionInv, SessionShape
    <3>2. \/ /\ exitIds' = exitIds \cup {cur} /\ entryIds' = entryIds
             /\ pc = "exits"
          \/ /\ entryIds' = entryIds \cup {cur} /\ exitIds' = exitIds
             /\ pc = "entries"
      BY <1>6, <2>3, <3>1 DEF RecordSubmission, PhaseOf
    <3>3. pc = "exits" => ActionOf[curRow] = "SELL"
      BY <3>1 DEF PhaseOf
    <3>4. pc = "entries" => ActionOf[curRow] = "BUY"
      BY <3>1, ExecutorAssumption DEF PhaseOf
    <3>5. \A o \in SessionIds : owner[o] \in Rows /\ owner[o] # curRow
      BY <1>0 DEF SessionInv, ExecInv, OwnersTied
    <3> QED
      BY <1>0, <2>1, <3>1, <3>2, <3>3, <3>4, <3>5
  <2> QED
    BY <1>6, <2>1, <2>2, <2>3 DEF RecordSubmission
<1>7. CASE EndExits \/ EndEntries \/ PersistNextPass \/ StartMonitor \/ EndMonitor
  BY <1>0, <1>7 DEF EndExits, EndEntries, PersistNextPass, StartMonitor,
                    EndMonitor
<1>8. CASE \E o \in OrderId : PersistCheck(o)
  BY <1>0, <1>8 DEF PersistCheck
<1>9. CASE \E o \in OrderId : BookPosition(o) \/ BookExecuted(o)
                                \/ WriteClosedTrade(o) \/ SettleUnfilled(o)
  <2>1. toSubmit = {} /\ curRow = NoRow
    BY <1>9 DEF BookPosition, BookExecuted, WriteClosedTrade, SettleUnfilled,
                AtOrder, SessionInv, SessionShape
  <2>2. UNCHANGED <<toSubmit, curRow, owner, exitIds, entryIds>>
    BY <1>9 DEF BookPosition, BookExecuted, WriteClosedTrade, SettleUnfilled,
                UnchangedByBooking
  <2> QED
    BY <1>0, <2>1, <2>2
<1> QED
  BY <1>1, <1>2, <1>3, <1>4, <1>5, <1>6, <1>7, <1>8, <1>9
  DEF Next, Main, CheckTier, MonitorOrders, Broker, Reader, Kill, Finish,
      NothingToMonitor, vars

LEMMA SessionInvStep == SessionInv /\ [Next]_vars => SessionInv'
  BY ExecInvStep, SessionShapeStep, SessionRowsStep DEF SessionInv

LEMMA SpecSessionInv == Spec => []SessionInv
  BY SessionInvInit, SessionInvStep, PTL DEF Spec

-----------------------------------------------------------------------------
(* A session that ran now would submit the row once more.                  *)
MayRepeat(r) ==
  Pending(r) /\ (ActionOf[r] = "SELL" \/ rowPerm[r] = NoOrder)

(* Why a row never has two orders that count: one that could be submitted  *)
(* again has only dead ones, is being submitted, or has its order in the   *)
(* lists of the session; the end of a session with such an order alive is  *)
(* what `unguarded` records.                                               *)
GuardedRow(r) ==
  /\ MayRepeat(r) => \/ \A o \in Owned(r) : Dead(o)
                     \/ r = curRow
                     \/ \E o \in SessionIds : owner[o] = r
  /\ r = curRow => \A o \in Owned(r) : Dead(o) \/ o \in tried
  /\ \A o \in SessionIds : owner[o] = r =>
        \A p \in Owned(r) : p = o \/ Dead(p)
  /\ \A o, p \in Owned(r) : Dead(o) \/ Dead(p) \/ o = p

Guarded == \A r \in Rows \ unguarded : GuardedRow(r)

(* A dead order stays dead over the end of a process too.                  *)
LEMMA DeadForEver ==
  ASSUME ExecInv, [Next]_vars, NEW o \in OrderId, Dead(o)
  PROVE  Dead(o)'
<1>1. CASE EndSession
  BY <1>1 DEF EndSession, Dead
<1>2. CASE [OrdersStep]_orderVars
  BY <1>2, DeadStays DEF ExecInv
<1> QED
  BY <1>1, <1>2, StepKinds

(* The only writers of the entry_perm_id column.                           *)
LEMMA PermWriters ==
  ASSUME [Next]_vars
  PROVE  \/ UNCHANGED rowPerm
         \/ \E o \in OrderId : PersistCheck(o) \/ SettleUnfilled(o)
  BY DEF Next, vars, execVars, historyVars, sessionVars, fileVars,
         StartSession, Main, Kill, Broker, Reader, EndSession, SkipRow,
         SubmitExit, SubmitEntry, Submit, CheckTier, RecordSubmission,
         PlaceForRow, EndExits, EndEntries, PersistNextPass,
         StartMonitor, NothingToMonitor, MonitorOrders, EndMonitor,
         BookPosition, BookExecuted, WritePosition, WriteClosedTrade, Finish

(* No write makes a row submittable that was not.                          *)
LEMMA RepeatShrinks ==
  ASSUME ExecInv, [Next]_vars, NEW r \in Rows, MayRepeat(r)'
  PROVE  MayRepeat(r)
<1>1. Pending(r)
  <2>1. CASE UNCHANGED rowStatus
    BY <2>1 DEF MayRepeat, Pending
  <2>2. ASSUME NEW o \in OrderId, BookExecuted(o) \/ SettleUnfilled(o)
        PROVE  Pending(r)
    BY <2>2 DEF BookExecuted, SettleUnfilled, UpdateSignalStatus, MayRepeat,
                Pending, ExecInv, ExecTypeOK
  <2> QED
    BY <2>1, <2>2, StatusWriters
<1>2. rowPerm'[r] = NoOrder => rowPerm[r] = NoOrder
  <2>1. ASSUME NEW o \in OrderId, PersistCheck(o) \/ SettleUnfilled(o)
        PROVE  rowPerm'[r] = NoOrder => rowPerm[r] = NoOrder
    <3>1. \/ UNCHANGED rowPerm
          \/ \E n \in Nat \ {0} : PersistPendingPerm(o, n)
      BY <2>1 DEF PersistCheck, SettleUnfilled, ExecInv, OrdersInv,
                  OrdersTypeOK, MonitorInv, MonitorTypeOK
    <3> QED
      BY <3>1 DEF PersistPendingPerm, NoOrder
  <2> QED
    BY <2>1, PermWriters
<1> QED
  BY <1>1, <1>2 DEF MayRepeat

LEMMA GuardedStep ==
  ASSUME SessionInv, Guarded, [Next]_vars
  PROVE  Guarded'
<1> USE DEF SessionIds, Owned, GuardedRow
<1>0. /\ nextorderId \in 1 .. MaxOrders + 1
      /\ owner \in [OrderId -> Rows \cup {NoRow}]
      /\ curRow \in Rows \cup {NoRow}
      /\ exitIds \subseteq OrderId /\ entryIds \subseteq OrderId
      /\ NoRow \notin Rows
      /\ \A o \in OrderId : Dead(o) => Dead(o)'
      /\ \A r \in Rows : MayRepeat(r)' => MayRepeat(r)
      /\ Guarded
  BY ExecutorAssumption, DeadForEver, RepeatShrinks
  DEF SessionInv, ExecInv, ExecTypeOK, OrdersInv, OrdersTypeOK
<1>1. CASE UNCHANGED <<owner, unguarded, curRow, exitIds, entryIds, tried>>
  <2> SUFFICES ASSUME NEW r \in Rows \ unguarded
               PROVE  GuardedRow(r)'
    BY <1>1 DEF Guarded
  <2> QED
    BY <1>0, <1>1 DEF Guarded
<1>2. ASSUME NEW s \in Rows, SubmitExit(s) \/ SubmitEntry(s)
      PROVE  Guarded'
  <2>1. /\ UNCHANGED <<owner, unguarded, exitIds, entryIds>>
        /\ curRow' = s /\ s \in toSubmit /\ tried' = {} /\ rpc = "idle"
    BY <1>2 DEF SubmitExit, SubmitEntry, Submit, RouterCall, historyVars
  <2>2. curRow = NoRow
    BY <2>1 DEF SessionInv, SessionShape
  <2>3. MayRepeat(s)
    BY <1>2, <2>1 DEF SubmitExit, SubmitEntry, AlreadySubmitted, MayRepeat,
                      SessionInv, SessionRows
  <2>4. \A o \in SessionIds : owner[o] # s
    BY <2>1 DEF SessionInv, SessionRows
  <2>5. s \notin unguarded => \A o \in Owned(s) : Dead(o)
    BY <1>0, <2>2, <2>3, <2>4 DEF Guarded
  <2> QED
    BY <1>0, <2>1, <2>2, <2>4, <2>5 DEF Guarded
<1>3. CASE PlaceForRow
  <2>1. /\ nextorderId \in OrderId
        /\ owner' = [owner EXCEPT ![nextorderId] = curRow]
        /\ tried' = tried \cup {nextorderId}
        /\ rpc = "place"
        /\ UNCHANGED <<unguarded, curRow, exitIds, entryIds>>
    BY <1>3, <1>0 DEF PlaceForRow, RouterPlace, PlaceOrder, sessionVars
  <2>2. curRow \in Rows /\ owner[nextorderId] = NoRow
    BY <1>0, <2>1 DEF SessionInv, ExecInv, OwnersTied
  <2>3. \A o \in SessionIds : owner[o] # curRow /\ o # nextorderId
    BY <1>0, <2>2 DEF SessionInv, SessionRows, ExecInv, OwnersTied
  <2>4. \A o \in tried : Dead(o)
    BY <2>1 DEF SessionInv, ExecInv, RouterInv, GivenUpIsDead
  <2>5. curRow \notin unguarded => \A o \in Owned(curRow) : Dead(o)
    BY <2>2, <2>4 DEF Guarded
  <2>6. \A r \in Rows : r # curRow => Owned(r)' = Owned(r)
    BY <1>0, <2>1, <2>2
  <2>7. Owned(curRow)' = Owned(curRow) \cup {nextorderId}
    BY <1>0, <2>1, <2>2
  <2>8. \A o \in SessionIds : owner'[o] = owner[o]
    BY <1>0, <2>1, <2>3
  <2> SUFFICES ASSUME NEW r \in Rows \ unguarded
               PROVE  GuardedRow(r)'
    BY <2>1 DEF Guarded
  <2>9. CASE r = curRow
    BY <1>0, <2>1, <2>3, <2>5, <2>7, <2>8, <2>9
  <2>10. CASE r # curRow
    BY <1>0, <2>1, <2>6, <2>8, <2>10 DEF Guarded
  <2> QED
    BY <2>9, <2>10
<1>4. CASE RecordSubmission
  <2>1. /\ curRow' = NoRow /\ UNCHANGED <<owner, unguarded>>
        /\ rpc \in {"accepted", "failed"} /\ curRow \in Rows
        /\ cur \in OrderId
    BY <1>0, <1>4
    DEF RecordSubmission, RouterReturn, historyVars, SessionInv, SessionShape,
        ExecInv, RouterInv, CallTied, RouterTypeOK
  <2>2. CASE rpc = "failed"
    <3>1. \A o \in tried : Dead(o)
      BY <2>2 DEF SessionInv, ExecInv, RouterInv, GivenUpIsDead
    <3>2. UNCHANGED <<exitIds, entryIds>>
      BY <1>4, <2>2 DEF RecordSubmission
    <3> QED
      BY <1>0, <2>1, <3>1, <3>2 DEF Guarded
  <2>3. CASE rpc = "accepted"
    <3>1. owner[cur] = curRow /\ PhaseOf(curRow) = pc
      BY <1>0, <2>1, <2>3 DEF SessionInv, SessionShape
    <3>2. \A o \in tried : Dead(o) \/ o = cur
      BY DEF SessionInv, ExecInv, RouterInv, GivenUpIsDead
    <3>3. SessionIds' = SessionIds \cup {cur}
      BY <1>4, <2>3, <3>1 DEF RecordSubmission, PhaseOf
    <3>4. \A o \in SessionIds : owner[o] # curRow
      BY DEF SessionInv, SessionRows
    <3>5. curRow \notin unguarded =>
            \A o \in Owned(curRow) : Dead(o) \/ o = cur
      BY <2>1, <3>2 DEF Guarded
    <3> SUFFICES ASSUME NEW r \in Rows \ unguarded
                 PROVE  GuardedRow(r)'
      BY <2>1 DEF Guarded
    <3>6. CASE r = curRow
      BY <1>0, <2>1, <3>1, <3>3, <3>4, <3>5, <3>6
    <3>7. CASE r # curRow
      BY <1>0, <2>1, <3>1, <3>3, <3>7 DEF Guarded
    <3> QED
      BY <3>6, <3>7
  <2> QED
    BY <2>1, <2>2, <2>3
<1>5. CASE EndSession
  <2>1. /\ UNCHANGED <<owner, broker, rowStatus, rowPerm>>
        /\ curRow' = NoRow /\ exitIds' = {} /\ entryIds' = {}
    BY <1>5 DEF EndSession, fileVars
  <2>2. unguarded' = unguarded \cup
          {r \in Rows : MayRepeat(r) /\ \E o \in Owned(r) : ~Dead(o)}
    BY <1>5 DEF EndSession, MayRepeat
  <2> QED
    BY <1>0, <2>1, <2>2 DEF Guarded
<1> QED
  BY <1>1, <1>2, <1>3, <1>4, <1>5
  DEF Next, Main, vars, execVars, historyVars, sessionVars, routerVars,
      StartSession, Kill, Broker, Reader, SkipRow, CheckTier, RouterLocal,
      RouterTryNext, RouterGiveUp, RouterAccept, EndExits, EndEntries,
      PersistCheck, PersistNextPass, StartMonitor, NothingToMonitor,
      MonitorOrders, EndMonitor, BookPosition, BookExecuted,
      WriteClosedTrade, SettleUnfilled, Finish, UnchangedByBooking

(* One row never has two orders that may trade or have traded, over all    *)
(* tiers, sessions and kills, but for the rows a session left behind with  *)
(* an order alive and nothing in the file to say so.                       *)
THEOREM OneOrderForOneRow == Spec => []OneOrderPerRow
<1>1. Init => Guarded
  BY ExecutorAssumption
  DEF Init, ExecInit, Guarded, GuardedRow, SessionIds, Owned
<1>2. Guarded => OneOrderPerRow
  BY DEF Guarded, GuardedRow, OneOrderPerRow
<1>3. SessionInv /\ Guarded /\ [Next]_vars => Guarded'
  BY GuardedStep
<1> QED
  BY <1>1, <1>2, <1>3, SpecSessionInv, PTL DEF Spec

-----------------------------------------------------------------------------
(* A permId is always that of the order it is filed under.                 *)
PermSound ==
  \A o \in OrderId : orders[o].permId \in {0, o} /\ results[o].perm \in {0, o}

LEMMA PermSoundStep ==
  ASSUME ExecInv, PermSound, [Next]_vars
  PROVE  PermSound'
<1> USE DEF PermSound
<1>0. /\ orders \in [OrderId -> [status : ViewStatus, filled : 0 .. Qty,
                                 permId : 0 .. MaxOrders]]
      /\ results \in [OrderId -> [status : VerdictStatus, qty : 0 .. Qty,
                                  perm : 0 .. MaxOrders]]
  BY DEF ExecInv, OrdersInv, OrdersTypeOK, MonitorInv, MonitorTypeOK
<1>1. CASE EndSession
  BY <1>1 DEF EndSession, MonitorReset, NoView, NoResults, NoVerdict
<1>2. ASSUME [OrdersStep]_orderVars, NEW o \in OrderId
      PROVE  orders'[o].permId \in {0, o}
  <2>1. CASE UNCHANGED orders
    BY <2>1
  <2>2. ASSUME NEW p \in OrderId,
               \/ OrderStatus(p) \/ OpenOrder(p)
               \/ ErrorCancelled(p) \/ ErrorRejected(p)
        PROVE  orders'[o].permId \in {0, o}
    <3>1. CASE OrderStatus(p)
      <4> PICK s \in WireStatus(broker[p].state) :
               orders' = [orders EXCEPT ![p] = [status |-> s,
                                                filled |-> broker[p].filled,
                                                permId |-> PermId(p)]]
        BY <3>1 DEF OrderStatus
      <4> QED
        BY <1>0 DEF PermId
    <3>2. CASE OpenOrder(p) \/ ErrorCancelled(p) \/ ErrorRejected(p)
      BY <1>0, <3>2 DEF OpenOrder, ErrorCancelled, ErrorRejected, PermId
    <3> QED
      BY <2>2, <3>1, <3>2
  <2> QED
    BY <1>2, <2>1, <2>2
    DEF OrdersStep, orderVars, BrokerNext, BrokerAcknowledge, BrokerFill,
        BrokerCancel, BrokerReject, ReaderNext, PlaceOrder
<1>3. ASSUME [MonitorAnyStep]_mvars, NEW o \in OrderId
      PROVE  results'[o].perm \in {0, o}
  <2>1. ASSUME NEW p \in OrderId, MonitorPoll(p) \/ MonitorFinal(p)
        PROVE  results'[o].perm \in {0, o}
    <3>1. \/ UNCHANGED results
          \/ \E v : v.perm = orders[p].permId
                     /\ results' = [results EXCEPT ![p] = v]
      BY <2>1 DEF MonitorPoll, MonitorFinal, Judge
    <3> QED
      BY <1>0, <3>1
  <2> QED
    BY <1>3, <2>1
    DEF MonitorAnyStep, MonitorStep, MonitorStart, MonitorNextPass,
        MonitorTimeout, MonitorDone, mvars, monitorVars, NoResults, NoVerdict,
        MonitorReset
<1> QED
  BY <1>1, <1>2, <1>3, StepKinds

(* Why no session submits a row again whose permId is on file: the permId  *)
(* is that of the order the last session recorded, and rows with one are   *)
(* never submitted.                                                        *)
Newest ==
  /\ PersistedIsNewest
  /\ \A r \in Rows : rowPerm[r] # NoOrder => ActionOf[r] = "BUY"
  /\ curRow # NoRow => rowPerm[curRow] = NoOrder
  /\ rpc \in {"check", "accepted"} => nextorderId = cur + 1
  /\ \A o \in SessionIds : \A p \in Owned(owner[o]) : p <= o

LEMMA NewestStep ==
  ASSUME OneRowPerAsset, SessionInv, PermSound, Newest, [Next]_vars
  PROVE  Newest'
<1> USE DEF SessionIds, Owned, Newest, PersistedIsNewest
<1>0. /\ nextorderId \in 1 .. MaxOrders + 1
      /\ owner \in [OrderId -> Rows \cup {NoRow}]
      /\ curRow \in Rows \cup {NoRow}
      /\ rowPerm \in [Rows -> OrderId \cup {NoOrder}]
      /\ exitIds \subseteq OrderId /\ entryIds \subseteq OrderId
      /\ cur \in OrderId \cup {NoOrder}
      /\ NoRow \notin Rows
      /\ \A o \in OrderId : owner[o] # NoRow => o < nextorderId
      /\ Newest
  BY ExecutorAssumption
  DEF SessionInv, ExecInv, ExecTypeOK, OrdersInv, OrdersTypeOK, OwnersTied,
      RouterInv, RouterTypeOK
<1>1. CASE UNCHANGED <<owner, rowPerm, curRow, exitIds, entryIds, rpc, cur,
                       nextorderId>>
  BY <1>0, <1>1
<1>2. CASE EndSession
  BY <1>0, <1>2 DEF EndSession, fileVars
<1>3. ASSUME NEW s \in Rows, SubmitExit(s) \/ SubmitEntry(s)
      PROVE  Newest'
  <2>1. rowPerm[s] = NoOrder
    BY <1>0, <1>3 DEF SubmitExit, SubmitEntry, AlreadySubmitted
  <2> QED
    BY <1>0, <1>3, <2>1
    DEF SubmitExit, SubmitEntry, Submit, RouterCall, fileVars, historyVars,
        orderVars
<1>4. CASE PlaceForRow
  <2>1. /\ nextorderId \in OrderId
        /\ owner' = [owner EXCEPT ![nextorderId] = curRow]
        /\ cur' = nextorderId /\ nextorderId' = nextorderId + 1
        /\ rpc = "place"
        /\ UNCHANGED <<rowPerm, curRow, exitIds, entryIds>>
    BY <1>4, <1>0
    DEF PlaceForRow, RouterPlace, PlaceOrder, sessionVars, fileVars
  <2>2. curRow \in Rows /\ owner[nextorderId] = NoRow
    BY <1>0, <2>1 DEF SessionInv, ExecInv, OwnersTied
  <2>3. \A o \in SessionIds : owner[o] # curRow /\ o # nextorderId
    BY <1>0, <2>2 DEF SessionInv, SessionRows, ExecInv, OwnersTied
  <2>4. \A r \in Rows : r # curRow => Owned(r)' = Owned(r)
    BY <1>0, <2>1, <2>2
  <2>5. \A o \in SessionIds : owner'[o] = owner[o] /\ owner[o] \in Rows
    BY <1>0, <2>1, <2>3 DEF SessionInv, ExecInv, OwnersTied
  <2>6. \A r \in Rows : rowPerm[r] # NoOrder =>
          owner'[rowPerm[r]] = owner[rowPerm[r]] /\ r # curRow
    BY <1>0, <2>1, <2>2
  <2> QED
    BY <1>0, <2>1, <2>2, <2>3, <2>4, <2>5, <2>6
<1>5. CASE CheckTier
  BY <1>0, <1>5
  DEF CheckTier, RouterLocal, RouterTryNext, RouterGiveUp, RouterAccept,
      execVars, sessionVars, fileVars, historyVars, orderVars
<1>6. CASE RecordSubmission
  <2>1. /\ curRow' = NoRow /\ rpc' = "idle"
        /\ UNCHANGED <<owner, rowPerm, nextorderId>>
    BY <1>6 DEF RecordSubmission, RouterReturn, historyVars, fileVars, orderVars
  <2>2. CASE UNCHANGED <<exitIds, entryIds>>
    BY <1>0, <2>1, <2>2
  <2>3. CASE rpc = "accepted"
    <3>1. owner[cur] = curRow /\ curRow \in Rows /\ cur \in OrderId
      BY <1>0, <2>3 DEF SessionInv, SessionShape, ExecInv, RouterInv, CallTied,
                        RouterTypeOK
    <3>2. \A p \in Owned(curRow) : p <= cur
      BY <1>0, <2>3, <3>1 DEF OrderId
    <3>3. SessionIds' \subseteq SessionIds \cup {cur}
      BY <1>6 DEF RecordSubmission
    <3> QED
      BY <1>0, <2>1, <3>1, <3>2, <3>3
  <2> QED
    BY <1>6, <2>1, <2>2, <2>3 DEF RecordSubmission
<1>7. ASSUME NEW o \in entryIds, NEW n \in {0, o}, n > 0,
             PersistPendingPerm(o, n),
             UNCHANGED <<owner, curRow, exitIds, entryIds, rpc, cur,
                         nextorderId>>,
             curRow = NoRow
      PROVE  Newest'
  <2>1. owner[o] \in Rows /\ ActionOf[owner[o]] = "BUY" /\ n = o
    BY <1>0, <1>7 DEF SessionInv, SessionRows, ExecInv, OwnersTied
  <2>2. \A r \in Rows : \/ rowPerm'[r] = rowPerm[r]
                        \/ (r = owner[o] /\ rowPerm'[r] = o)
    <3> TAKE r \in Rows
    <3>1. rowPerm'[r] = IF AssetOf[r] = AssetOf[owner[o]] /\ Pending(r)
                          THEN n ELSE rowPerm[r]
      BY <1>7 DEF PersistPendingPerm
    <3>2. AssetOf[r] = AssetOf[owner[o]] => r = owner[o]
      BY <2>1 DEF OneRowPerAsset
    <3> QED
      BY <2>1, <3>1, <3>2
  <2>3. o \in OrderId /\ \A p \in Owned(owner[o]) : p <= o
    BY <1>0, <1>7
  <2>4. PersistedIsNewest'
    <3> SUFFICES ASSUME NEW r \in Rows, rowPerm'[r] # NoOrder
                 PROVE  /\ owner[rowPerm'[r]] = r
                        /\ \A p \in Owned(r) : p <= rowPerm'[r]
      BY <1>7
    <3>1. CASE rowPerm'[r] = rowPerm[r]
      BY <1>0, <3>1
    <3>2. CASE r = owner[o] /\ rowPerm'[r] = o
      BY <2>3, <3>2
    <3> QED
      BY <2>2, <3>1, <3>2
  <2>5. \A r \in Rows : rowPerm'[r] # NoOrder => ActionOf[r] = "BUY"
    BY <1>0, <2>1, <2>2
  <2> QED
    BY <1>0, <1>7, <2>4, <2>5
<1>8. ASSUME NEW o \in OrderId, PersistCheck(o)
      PROVE  Newest'
  <2>1. curRow = NoRow /\ o \in entryIds
    BY <1>8 DEF PersistCheck, SessionInv, SessionShape
  <2>2. UNCHANGED <<owner, curRow, exitIds, entryIds, rpc, cur, nextorderId>>
    BY <1>8 DEF PersistCheck, orderVars, routerVars, historyVars
  <2>3. orders[o].permId \in {0, o}
    BY DEF PermSound
  <2>4. CASE UNCHANGED rowPerm
    BY <1>1, <2>2, <2>4
  <2>5. CASE orders[o].permId > 0 /\ PersistPendingPerm(o, orders[o].permId)
    BY <1>7, <2>1, <2>2, <2>3, <2>5
  <2> QED
    BY <1>8, <2>4, <2>5 DEF PersistCheck
<1>9. ASSUME NEW o \in OrderId, SettleUnfilled(o)
      PROVE  Newest'
  <2>1. curRow = NoRow /\ o \in exitIds \cup entryIds
    BY <1>9 DEF SettleUnfilled, AtOrder, SessionInv, SessionShape, ExecInv,
                LoopsTied
  <2>2. UNCHANGED <<owner, curRow, exitIds, entryIds, rpc, cur, nextorderId>>
    BY <1>9 DEF SettleUnfilled, UnchangedByBooking, orderVars, routerVars,
                historyVars
  <2>3. results[o].perm \in {0, o}
    BY DEF PermSound
  <2>4. CASE UNCHANGED rowPerm
    BY <1>1, <2>2, <2>4
  <2>5. CASE /\ UnfilledStatus(o) = "PENDING"
             /\ results[o].perm > 0 /\ PersistPendingPerm(o, results[o].perm)
    <3>1. o \notin exitIds
      BY <2>5 DEF UnfilledStatus
    <3> QED
      BY <1>7, <2>1, <2>2, <2>3, <2>5, <3>1
  <2> QED
    BY <1>9, <2>4, <2>5 DEF SettleUnfilled
<1> QED
  BY <1>1, <1>2, <1>3, <1>4, <1>5, <1>6, <1>8, <1>9
  DEF Next, Main, vars, execVars, historyVars, sessionVars, routerVars,
      fileVars, orderVars, StartSession, Kill, Broker, BrokerNext,
      BrokerAcknowledge, BrokerFill, BrokerCancel, BrokerReject, Reader,
      ReaderNext, OrderStatus, OpenOrder, ErrorCancelled, ErrorRejected,
      SkipRow, EndExits, EndEntries, PersistNextPass, StartMonitor,
      NothingToMonitor, MonitorOrders, EndMonitor, BookPosition,
      WritePosition, BookExecuted, WriteClosedTrade, Finish,
      UnchangedByBooking

(* When no two rows share an asset, the permId a row carries is that of    *)
(* its newest order, over all sessions and kills: with it on file the row  *)
(* is never submitted again.                                               *)
THEOREM PersistedPermIsNewest ==
  ASSUME OneRowPerAsset
  PROVE  Spec => []PersistedIsNewest
<1>1. Init => PermSound /\ Newest
  BY ExecutorAssumption
  DEF Init, ExecInit, OrdersInit, MonitorInit, RouterInit, NoView, NoResults,
      NoVerdict, PermSound, Newest, PersistedIsNewest, SessionIds, Owned
<1>2. SessionInv /\ PermSound /\ Newest /\ [Next]_vars
        => PermSound' /\ Newest'
  BY PermSoundStep, NewestStep DEF SessionInv
<1>3. Newest => PersistedIsNewest
  BY DEF Newest
<1> QED
  BY <1>1, <1>2, <1>3, SpecSessionInv, PTL DEF Spec

-----------------------------------------------------------------------------
(* Where the booking of an order stands: its row is pending until the      *)
(* position is written, and settled only when the closed trade is left.    *)
BookInv ==
  /\ \A o \in SessionIds : (pc = "process" => o \in queue) =>
        Pending(owner[o]) \/ (AtOrder(o) /\ stage = "status")
  /\ stage = "position" =>
        \A o \in OrderId : AtOrder(o) => L!Booked(owner[o])
  /\ stage = "status" =>
        \A o \in OrderId : AtOrder(o) =>
          o \in exitIds /\ rowStatus[owner[o]] = "EXECUTED"
  /\ \A o \in closed : Filled(o) /\ owner[o] \in Rows

(* The loop is at one order.                                               *)
LEMMA OneAtOrder ==
  ASSUME NEW o \in OrderId, NEW p \in OrderId, AtOrder(o), AtOrder(p)
  PROVE  o = p
  BY DEF AtOrder, OrderId

(* A row settled for an order is no other order's row.                     *)
LEMMA SettlesOneRow ==
  ASSUME OneRowPerAsset, SessionInv, NEW o \in OrderId, AtOrder(o), NEW s,
         UpdateSignalStatus(AssetOf[owner[o]], s)
  PROVE  /\ \A r \in Rows : r # owner[o] => rowStatus'[r] = rowStatus[r]
         /\ \A p \in SessionIds : p # o => rowStatus'[owner[p]] = rowStatus[owner[p]]
<1>1. owner[o] \in Rows /\ o \in SessionIds
  BY QueueOwned DEF SessionInv, ExecInv, LoopsTied, AtOrder, SessionIds
<1>2. \A r \in Rows : r # owner[o] => rowStatus'[r] = rowStatus[r]
  BY <1>1 DEF UpdateSignalStatus, OneRowPerAsset, SessionInv, ExecInv, ExecTypeOK
<1>3. \A p \in SessionIds : p # o => owner[p] \in Rows /\ owner[p] # owner[o]
  BY <1>1 DEF SessionInv, SessionRows, SessionIds, ExecInv, OwnersTied,
              ExecTypeOK
<1> QED
  BY <1>2, <1>3

LEMMA BookInvStep ==
  ASSUME OneRowPerAsset, SessionInv, BookInv, [Next]_vars
  PROVE  BookInv'
<1> USE DEF BookInv, SessionIds, Pending, fileVars, historyVars
<1>0. /\ nextorderId \in 1 .. MaxOrders + 1
      /\ owner \in [OrderId -> Rows \cup {NoRow}]
      /\ rowStatus \in [Rows -> StatusValue]
      /\ exitIds \subseteq OrderId /\ entryIds \subseteq OrderId
      /\ closed \subseteq OrderId
      /\ queue \subseteq SessionIds
      /\ NoRow \notin Rows
      /\ stage # "verdict" => pc = "process"
      /\ stage \in {"verdict", "position", "status"}
      /\ BookInv
  BY ExecutorAssumption
  DEF SessionInv, ExecInv, ExecTypeOK, OrdersInv, OrdersTypeOK, LoopsTied
<1>1. \A o \in closed : Filled(o)' /\ owner'[o] = owner[o]
  BY <1>0, FilledStays DEF SessionInv
<1>2. CASE UNCHANGED <<pc, queue, stage, rowStatus, positions, exitIds,
                       entryIds, closed, owner>>
  BY <1>0, <1>1, <1>2 DEF AtOrder, L!Booked
<1>3. CASE UNCHANGED <<stage, rowStatus, exitIds, entryIds, closed, owner>>
           /\ pc # "process" /\ pc' # "process"
  BY <1>0, <1>1, <1>3 DEF AtOrder
<1>4. CASE StartSession
  BY <1>0, <1>3, <1>4 DEF StartSession
<1>5. CASE EndSession
  BY <1>0, <1>1, <1>5 DEF EndSession
<1>6. CASE PlaceForRow
  <2>1. \A o \in SessionIds : owner'[o] = owner[o]
    <3>1. \A o \in SessionIds : o # nextorderId
      BY <1>0 DEF SessionInv, ExecInv, OwnersTied
    <3> QED
      BY <1>0, <1>6, <3>1 DEF PlaceForRow
  <2>2. pc # "process"
    BY <1>6 DEF PlaceForRow, RouterPlace, SessionInv, SessionShape
  <2> QED
    BY <1>0, <1>1, <1>6, <2>1, <2>2 DEF PlaceForRow, sessionVars, AtOrder
<1>7. CASE RecordSubmission
  <2>1. /\ UNCHANGED <<owner, rowStatus, closed, stage, pc>>
        /\ SessionIds' \subseteq SessionIds \cup (IF rpc = "accepted" THEN {cur}
                                                   ELSE {})
    BY <1>7 DEF RecordSubmission
  <2>2. pc # "process" /\ curRow \in Rows
    BY <1>7 DEF RecordSubmission, RouterReturn, SessionInv, SessionShape,
                ExecInv, ExecTypeOK
  <2>3. rpc = "accepted" => Pending(owner[cur])
    BY <2>2 DEF SessionInv, SessionShape, SessionRows
  <2> QED
    BY <1>0, <1>1, <2>1, <2>2, <2>3 DEF AtOrder
<1>8. CASE EndExits \/ EndEntries \/ PersistNextPass \/ StartMonitor
  BY <1>0, <1>3, <1>8 DEF EndExits, EndEntries, PersistNextPass, StartMonitor
<1>9. CASE EndMonitor
  BY <1>0, <1>1, <1>9 DEF EndMonitor, AtOrder
<1>10. CASE \E o \in OrderId : PersistCheck(o)
  BY <1>0, <1>3, <1>10 DEF PersistCheck
<1>11. ASSUME NEW o \in OrderId, BookPosition(o)
       PROVE  BookInv'
  <2>1. /\ AtOrder(o) /\ stage = "verdict" /\ stage' = "position"
        /\ UNCHANGED <<pc, queue, rowStatus, exitIds, entryIds, closed, owner>>
    BY <1>11 DEF BookPosition, WritePosition, UnchangedByBooking
  <2>2. L!Booked(owner[o])'
    <3>1. owner[o] \in Rows /\ AssetOf[owner[o]] \in Assets
      BY <2>1, QueueOwned DEF SessionInv
    <3>2. o \in exitIds <=> ActionOf[owner[o]] = "SELL"
      BY <1>0, <2>1 DEF SessionInv, SessionRows, AtOrder
    <3>3. positions \in [Assets -> Nat]
      BY DEF SessionInv, ExecInv, ExecTypeOK
    <3>4. positions'[AssetOf[owner[o]]] =
            IF o \in exitIds THEN 0 ELSE positions[AssetOf[owner[o]]] + 1
      BY <1>11, <3>1, <3>3 DEF BookPosition, WritePosition
    <3>5. positions[AssetOf[owner[o]]] \in Nat
      BY <3>1, <3>3
    <3>6. ActionOf[owner[o]] \in {"BUY", "SELL"}
      BY <3>1, ExecutorAssumption
    <3> QED
      BY <2>1, <3>2, <3>4, <3>5, <3>6 DEF L!Booked
  <2>3. \A p \in OrderId : AtOrder(p)' => p = o
    BY <2>1, OneAtOrder DEF AtOrder
  <2> QED
    BY <1>0, <1>1, <2>1, <2>2, <2>3
<1>12. ASSUME NEW o \in OrderId, BookExecuted(o)
       PROVE  BookInv'
  <2>1. /\ AtOrder(o) /\ stage = "position" /\ pc = "process"
        /\ UpdateSignalStatus(AssetOf[owner[o]], "EXECUTED")
        /\ UNCHANGED <<pc, exitIds, entryIds, closed, owner>>
    BY <1>12 DEF BookExecuted, UnchangedByBooking, AtOrder
  <2>2. /\ \A p \in SessionIds : p # o => rowStatus'[owner[p]] = rowStatus[owner[p]]
        /\ owner[o] \in Rows
    BY <2>1, SettlesOneRow, QueueOwned DEF SessionInv
  <2>3. rowStatus'[owner[o]] = "EXECUTED"
    BY <1>0, <2>1, <2>2 DEF UpdateSignalStatus, AtOrder
  <2>4. CASE o \in exitIds /\ stage' = "status" /\ UNCHANGED queue
    <3>1. \A p \in OrderId : AtOrder(p)' => p = o
      BY <2>1, <2>4, OneAtOrder DEF AtOrder
    <3>2. AtOrder(o)'
      BY <2>1, <2>4 DEF AtOrder
    <3> QED
      BY <1>0, <1>1, <2>1, <2>2, <2>3, <2>4, <3>1, <3>2
  <2>5. CASE stage' = "verdict" /\ queue' = queue \ {o}
    BY <1>0, <1>1, <2>1, <2>2, <2>5
  <2> QED
    BY <1>12, <2>4, <2>5 DEF BookExecuted
<1>13. ASSUME NEW o \in OrderId, WriteClosedTrade(o)
       PROVE  BookInv'
  <2>1. /\ AtOrder(o) /\ stage = "status" /\ stage' = "verdict"
        /\ queue' = queue \ {o} /\ closed' = closed \cup {o}
        /\ UNCHANGED <<pc, rowStatus, exitIds, entryIds, owner, broker>>
    BY <1>13 DEF WriteClosedTrade, UnchangedByBooking, orderVars
  <2>2. IsFilled(o) /\ owner[o] \in Rows
    BY <2>1, QueueOwned DEF SessionInv, ExecInv, LoopsTied
  <2>3. Filled(o)
    BY <2>2 DEF SessionInv, ExecInv, MonitorInv, VerdictSound, IsFilled, Filled
  <2>4. \A p \in SessionIds : p # o => ~AtOrder(p)
    BY <1>0, <2>1, OneAtOrder
  <2>5. pc = "process"
    BY <2>1 DEF AtOrder
  <2>6. Filled(o)'
    BY <2>1, <2>3 DEF Filled
  <2> QED
    BY <1>0, <1>1, <2>1, <2>2, <2>4, <2>5, <2>6
<1>14. ASSUME NEW o \in OrderId, SettleUnfilled(o)
       PROVE  BookInv'
  <2>1. /\ AtOrder(o) /\ stage = "verdict" /\ pc = "process"
        /\ queue' = queue \ {o}
        /\ UNCHANGED <<pc, stage, exitIds, entryIds, owner, closed>>
    BY <1>14 DEF SettleUnfilled, UnchangedByBooking, AtOrder
  <2>2. \A p \in SessionIds : p # o => rowStatus'[owner[p]] = rowStatus[owner[p]]
    BY <1>14, <2>1, SettlesOneRow DEF SettleUnfilled
  <2> QED
    BY <1>0, <1>1, <2>1, <2>2
<1> QED
  BY <1>2, <1>4, <1>5, <1>6, <1>7, <1>8, <1>9, <1>10, <1>11, <1>12, <1>13, <1>14
  DEF Next, Main, vars, execVars, sessionVars, Kill, Broker, Reader, SkipRow,
      SubmitExit, SubmitEntry, Submit, CheckTier, NothingToMonitor,
      MonitorOrders, Finish

LEMMA BookInvInit == Init => BookInv
  BY DEF Init, ExecInit, BookInv, SessionIds

(* A step leaves the traded rows alone or is the trade of one row.         *)
LEMMA TradedStep ==
  ASSUME ExecInv, [Next]_vars
  PROVE  \/ Traded' = Traded
         \/ \E r \in Rows \ Traded : /\ Traded' = Traded \cup {r}
                                     /\ UNCHANGED <<rowStatus, positions, closed,
                                                     owner>>
<1> USE DEF Traded, Owned, Filled
<1>0. /\ nextorderId \in 1 .. MaxOrders + 1
      /\ owner \in [OrderId -> Rows \cup {NoRow}]
      /\ broker \in [OrderId -> [state : BrokerState, filled : 0 .. Qty]]
      /\ \A o \in OrderId : o >= nextorderId => broker[o].state = "none"
  BY DEF ExecInv, ExecTypeOK, OrdersInv, OrdersTypeOK, BrokerSound
<1>1. CASE UNCHANGED <<broker, owner>>
  BY <1>1
<1>2. CASE PlaceForRow
  <2>1. /\ nextorderId \in OrderId
        /\ owner' = [owner EXCEPT ![nextorderId] = curRow]
        /\ broker' = [broker EXCEPT ![nextorderId].state = "sent"]
    BY <1>2 DEF PlaceForRow, RouterPlace, PlaceOrder
  <2>2. /\ broker[nextorderId].state = "none"
        /\ broker'[nextorderId].state = "sent"
    BY <1>0, <2>1
  <2>3. \A o \in OrderId : Filled(o)' = Filled(o)
    BY <1>0, <2>1, <2>2
  <2>4. \A o \in OrderId : o # nextorderId => owner'[o] = owner[o]
    BY <1>0, <2>1
  <2>5. ~Filled(nextorderId)
    BY <2>2
  <2> QED
    BY <2>3, <2>4, <2>5
<1>3. CASE Broker
  <2>1. UNCHANGED <<rowStatus, positions, closed, owner>>
    BY <1>3 DEF Broker, execVars, fileVars, historyVars
  <2>2. PICK o \in OrderId : \/ BrokerAcknowledge(o) \/ BrokerFill(o)
                           \/ BrokerCancel(o) \/ BrokerReject(o)
    BY <1>3 DEF Broker, BrokerNext
  <2>3. ~Filled(o) /\ \A p \in OrderId \ {o} : broker'[p] = broker[p]
    BY <1>0, <2>2 DEF BrokerAcknowledge, BrokerFill, BrokerCancel, BrokerReject,
                      Live
  <2>4. CASE ~Filled(o)' \/ owner[o] \notin Rows \/ owner[o] \in Traded
    <3>1. \A p \in OrderId : Filled(p)' <=> Filled(p) \/ (p = o /\ Filled(o)')
      BY <2>3
    <3> QED
      BY <2>1, <2>3, <2>4, <3>1
  <2>5. CASE Filled(o)' /\ owner[o] \in Rows \ Traded
    <3>1. \A p \in OrderId : Filled(p)' <=> Filled(p) \/ p = o
      BY <2>3, <2>5
    <3>2. Traded' = Traded \cup {owner[o]}
      BY <2>1, <2>5, <3>1
    <3> QED
      BY <2>1, <2>5, <3>2
  <2> QED
    BY <1>0, <2>4, <2>5
<1> QED
  BY <1>1, <1>2, <1>3
  DEF Next, Main, vars, execVars, historyVars, sessionVars, fileVars, orderVars,
      StartSession, Kill, EndSession, Reader, ReaderNext, OrderStatus,
      OpenOrder, ErrorCancelled, ErrorRejected, SkipRow, SubmitExit,
      SubmitEntry, Submit, CheckTier, RecordSubmission, EndExits, EndEntries,
      PersistCheck, PersistNextPass, StartMonitor, NothingToMonitor,
      MonitorOrders, EndMonitor, BookPosition, BookExecuted,
      WriteClosedTrade, SettleUnfilled, Finish, UnchangedByBooking

(* The order being booked: its row is one of Ledger's, traded, and on the  *)
(* side of the list it is in.                                              *)
LEMMA BookedOrder ==
  ASSUME SessionInv, NEW o \in OrderId, AtOrder(o)
  PROVE  /\ owner[o] \in Rows
         /\ o \in exitIds <=> ActionOf[owner[o]] = "SELL"
         /\ IsFilled(o) => owner[o] \in Traded
<1>1. owner[o] \in Rows /\ o \in SessionIds
  BY QueueOwned DEF SessionInv, ExecInv, LoopsTied, AtOrder, SessionIds
<1>2. o \in exitIds <=> ActionOf[owner[o]] = "SELL"
  BY <1>1 DEF SessionInv, SessionRows, SessionIds
<1>3. IsFilled(o) => Filled(o)
  BY DEF SessionInv, ExecInv, MonitorInv, VerdictSound, IsFilled, Filled
<1> QED
  BY <1>1, <1>2, <1>3 DEF Traded, Owned

LEMMA LedgerStep ==
  ASSUME OneRowPerAsset, SessionInv, BookInv, [Next]_vars
  PROVE  [L!Next]_(L!ledgerVars)
<1> USE DEF L!ledgerVars
<1>0. /\ owner \in [OrderId -> Rows \cup {NoRow}]
      /\ rowStatus \in [Rows -> StatusValue]
      /\ \A o \in closed : owner'[o] = owner[o]
      /\ closed \subseteq OrderId
  BY FilledStays DEF SessionInv, ExecInv, ExecTypeOK, BookInv
<1>1. CASE UNCHANGED <<rowStatus, positions, closed>>
  <2>1. Recorded' = Recorded
    BY <1>0, <1>1 DEF Recorded
  <2> QED
    BY <1>1, <2>1, TradedStep DEF SessionInv, L!Next, L!Trade
<1>2. ASSUME NEW o \in OrderId,
             \/ BookPosition(o) \/ BookExecuted(o)
             \/ WriteClosedTrade(o) \/ SettleUnfilled(o)
      PROVE  [L!Next]_(L!ledgerVars)
  <2>1. AtOrder(o) /\ UNCHANGED <<broker, owner>>
    BY <1>2 DEF BookPosition, BookExecuted, WriteClosedTrade, SettleUnfilled,
                UnchangedByBooking, orderVars, historyVars
  <2>2. Traded' = Traded
    BY <2>1 DEF Traded, Owned, Filled
  <2>3. closed' = closed => Recorded' = Recorded
    BY <2>1 DEF Recorded
  <2> DEFINE r == owner[o]
  <2>4. /\ r \in Rows
        /\ o \in exitIds <=> ActionOf[r] = "SELL"
        /\ IsFilled(o) => r \in Traded
    BY <2>1, BookedOrder
  <2>5. stage # "status" => rowStatus[r] = "PENDING"
    BY <2>1 DEF BookInv, AtOrder, SessionInv, ExecInv, LoopsTied, SessionIds,
                Pending
  <2>6. stage # "verdict" => r \in Traded
    BY <2>1, <2>4 DEF SessionInv, ExecInv, LoopsTied
  <2>7. CASE BookPosition(o)
    <3>1. r \in Traded /\ stage = "verdict" /\ UNCHANGED <<rowStatus, closed>>
      BY <2>4, <2>7 DEF BookPosition, WritePosition
    <3>2. positions' = [positions EXCEPT
             ![AssetOf[r]] = IF ActionOf[r] = "SELL" THEN 0 ELSE @ + 1]
      BY <2>4, <2>7 DEF BookPosition, WritePosition
    <3>3. L!Book(r)
      BY <2>2, <2>3, <2>5, <3>1, <3>2 DEF L!Book
    <3> QED
      BY <2>4, <3>3 DEF L!Next
  <2>8. CASE BookExecuted(o)
    <3>1. /\ stage = "position" /\ UNCHANGED <<positions, closed>>
          /\ UpdateSignalStatus(AssetOf[r], "EXECUTED")
      BY <2>8 DEF BookExecuted
    <3>2. rowStatus' = [rowStatus EXCEPT ![r] = "EXECUTED"]
      BY <1>0, <2>4, <2>5, <3>1 DEF UpdateSignalStatus, OneRowPerAsset, Pending
    <3>3. L!Execute(r)
      BY <2>1, <2>2, <2>3, <2>5, <2>6, <3>1, <3>2 DEF L!Execute, BookInv
    <3> QED
      BY <2>4, <3>3 DEF L!Next
  <2>9. CASE WriteClosedTrade(o)
    <3>1. /\ stage = "status" /\ closed' = closed \cup {o}
          /\ UNCHANGED <<rowStatus, positions>>
      BY <2>9 DEF WriteClosedTrade
    <3>2. Recorded' = Recorded \cup {r}
      BY <2>1, <3>1 DEF Recorded
    <3>3. ActionOf[r] = "SELL" /\ rowStatus[r] = "EXECUTED"
      BY <2>1, <2>4, <3>1 DEF BookInv
    <3>4. r \notin Recorded => L!Record(r)
      BY <2>2, <3>1, <3>2, <3>3 DEF L!Record
    <3>5. r \in Recorded => UNCHANGED L!ledgerVars
      BY <2>2, <3>1, <3>2
    <3> QED
      BY <2>4, <3>4, <3>5 DEF L!Next
  <2>10. CASE SettleUnfilled(o)
    <3>1. stage = "verdict" /\ UNCHANGED <<positions, closed>>
      BY <2>10 DEF SettleUnfilled
    <3>2. CASE UnfilledStatus(o) = "PENDING"
      BY <2>2, <2>3, <2>10, <3>1, <3>2 DEF SettleUnfilled
    <3>3. CASE UnfilledStatus(o) # "PENDING"
      <4>1. UnfilledStatus(o) \in {"PARTIAL_FILL", "FAILED"}
        BY <3>3 DEF UnfilledStatus
      <4>2. UpdateSignalStatus(AssetOf[r], UnfilledStatus(o))
        BY <2>10, <3>3 DEF SettleUnfilled
      <4>3. rowStatus' = [rowStatus EXCEPT ![r] = UnfilledStatus(o)]
        BY <1>0, <2>4, <2>5, <3>1, <4>2
        DEF UpdateSignalStatus, OneRowPerAsset, Pending
      <4>4. L!Abandon(r)
        BY <2>2, <2>3, <2>5, <3>1, <4>1, <4>3 DEF L!Abandon
      <4> QED
        BY <2>4, <4>4 DEF L!Next
    <3> QED
      BY <3>2, <3>3
  <2> QED
    BY <1>2, <2>7, <2>8, <2>9, <2>10
<1> QED
  BY <1>1, <1>2
  DEF Next, Main, vars, execVars, historyVars, sessionVars, fileVars,
      StartSession, Kill, EndSession, Broker, Reader, SkipRow, SubmitExit,
      SubmitEntry, Submit, PlaceForRow, CheckTier, RecordSubmission, EndExits,
      EndEntries, PersistCheck, PersistNextPass, StartMonitor,
      NothingToMonitor, MonitorOrders, EndMonitor, Finish

LEMMA SpecBookInv ==
  ASSUME OneRowPerAsset
  PROVE  Spec => [](SessionInv /\ BookInv)
<1>1. SessionInv /\ BookInv /\ [Next]_vars => BookInv'
  BY BookInvStep
<1> QED
  BY <1>1, BookInvInit, SpecSessionInv, PTL DEF Spec

(* The CSV files of the executor go through the states of Ledger, when no  *)
(* two rows share an asset, whatever is killed and run again.              *)
THEOREM ExecutorImplementsLedger ==
  ASSUME OneRowPerAsset
  PROVE  Spec => ImplementsLedger
<1>1. Init => L!Init
  BY ExecutorAssumption
  DEF Init, ExecInit, L!Init, Traded, Owned, Recorded, Initially, L!Initially
<1>2. SessionInv /\ BookInv /\ [Next]_vars => [L!Next]_(L!ledgerVars)
  BY LedgerStep
<1> QED
  BY <1>1, <1>2, SpecBookInv, PTL DEF Spec, ImplementsLedger, L!Spec

-----------------------------------------------------------------------------
(* Settled for good: by the steps of Ledger alone.                         *)
Settled ==
  /\ positions \in [Assets -> Nat]
  /\ rowStatus \in [Rows -> StatusValue]
  /\ \A r \in Rows : rowStatus[r] = "EXECUTED" => L!Booked(r)
  /\ \A r \in Recorded : rowStatus[r] = "EXECUTED" /\ ActionOf[r] = "SELL"

LEMMA SettledStep ==
  ASSUME OneRowPerAsset, Settled, [L!Next]_(L!ledgerVars)
  PROVE  Settled'
<1> USE ExecutorAssumption DEF Settled, L!Booked, StatusValue
<1>1. CASE UNCHANGED L!ledgerVars
  BY <1>1 DEF L!ledgerVars
<1>2. ASSUME NEW r \in Rows, L!Trade(r) PROVE Settled'
  BY <1>2 DEF L!Trade
<1>3. ASSUME NEW r \in Rows, L!Book(r) PROVE Settled'
  <2>1. AssetOf[r] \in Assets /\ positions[AssetOf[r]] + 1 \in Nat
    OBVIOUS
  <2>2. \A q \in Rows : AssetOf[q] = AssetOf[r] => q = r
    BY DEF OneRowPerAsset
  <2>3. \A a \in Assets : a # AssetOf[r] => positions'[a] = positions[a]
    BY <1>3 DEF L!Book
  <2>4. positions' \in [Assets -> Nat]
    BY <1>3, <2>1 DEF L!Book
  <2>5. \A q \in Rows : rowStatus[q] = "EXECUTED" =>
          positions'[AssetOf[q]] = positions[AssetOf[q]]
    BY <1>3, <2>2, <2>3 DEF L!Book
  <2> QED
    BY <1>3, <2>4, <2>5 DEF L!Book
<1>4. ASSUME NEW r \in Rows, L!Execute(r) PROVE Settled'
  BY <1>4 DEF L!Execute
<1>5. ASSUME NEW r \in Rows, L!Abandon(r) PROVE Settled'
  BY <1>5 DEF L!Abandon
<1>6. ASSUME NEW r \in Rows, L!Record(r) PROVE Settled'
  BY <1>6 DEF L!Record
<1> QED
  BY <1>1, <1>2, <1>3, <1>4, <1>5, <1>6 DEF L!Next

LEMMA SpecSettled ==
  ASSUME OneRowPerAsset
  PROVE  Spec => []Settled
<1>1. Init => Settled
  BY ExecInvInit DEF Init, ExecInit, Settled, Recorded, ExecInv, ExecTypeOK
<1>2. SessionInv /\ BookInv /\ Settled /\ [Next]_vars => Settled'
  BY LedgerStep, SettledStep
<1> QED
  BY <1>1, <1>2, SpecBookInv, PTL DEF Spec

(* A row that says EXECUTED is booked, and stays booked: the position is   *)
(* there for an entry and gone for an exit, whatever is killed.            *)
THEOREM ExecutedStaysBooked ==
  ASSUME OneRowPerAsset
  PROVE  Spec => []ExecutedIsBooked
<1>1. Settled => ExecutedIsBooked
  BY DEF Settled, ExecutedIsBooked, L!Booked
<1> QED
  BY <1>1, SpecSettled, PTL

(* A closed_trades record is of an exit that filled, whose row is settled  *)
(* and whose position is gone.                                             *)
THEOREM ClosedOnlyWhenSettled ==
  ASSUME OneRowPerAsset
  PROVE  Spec => []ClosedIsSettled
<1>1. Settled /\ BookInv => ClosedIsSettled
  BY DEF Settled, BookInv, ClosedIsSettled, L!Booked, Recorded
<1> QED
  BY <1>1, SpecSettled, SpecBookInv, PTL

-----------------------------------------------------------------------------
(* The monitor watches or has judged every order of the session, and its   *)
(* results are used only when it is done.                                  *)
Watched ==
  /\ pc \notin {"monitor", "process"} => mpc = "off"
  /\ pc = "monitor" => mpc # "off"
  /\ pc = "process" => mpc = "done"
  /\ mpc # "off" => \A o \in SessionIds : Judged(o) \/ o \in pending
  /\ mpc = "final" => pending \subseteq todo
  /\ mpc = "done" => pending = {}

LEMMA WatchedStep ==
  ASSUME SessionInv, Watched, [Next]_vars
  PROVE  Watched'
<1> USE DEF Watched, SessionIds, Judged, monitorVars
<1>0. /\ exitIds \subseteq OrderId /\ entryIds \subseteq OrderId
      /\ mpc \in {"off", "pass", "final", "done"}
      /\ pending \subseteq OrderId /\ todo \subseteq pending
      /\ results \in [OrderId -> [status : VerdictStatus, qty : 0 .. Qty,
                                  perm : 0 .. MaxOrders]]
      /\ Watched
  BY DEF SessionInv, ExecInv, ExecTypeOK, MonitorInv, MonitorTypeOK
<1>1. CASE UNCHANGED <<monitorVars, pc, exitIds, entryIds>>
  BY <1>0, <1>1
<1>2. CASE UNCHANGED monitorVars
           /\ {pc, pc'} \cap {"monitor", "process"} = {}
  BY <1>0, <1>2
<1>3. CASE EndSession
  BY <1>3 DEF EndSession, MonitorReset
<1>4. CASE StartSession \/ EndExits \/ EndEntries
  BY <1>2, <1>4 DEF StartSession, EndExits, EndEntries
<1>5. CASE RecordSubmission
  BY <1>2, <1>5
  DEF RecordSubmission, RouterReturn, SessionInv, SessionShape
<1>6. CASE StartMonitor
  BY <1>6 DEF StartMonitor, MonitorStart
<1>7. CASE EndMonitor
  BY <1>0, <1>7 DEF EndMonitor
<1>8. CASE MonitorOrders
  <2>1. UNCHANGED <<pc, exitIds, entryIds>> /\ pc = "monitor" /\ MonitorStep
    BY <1>8 DEF MonitorOrders, execVars, sessionVars
  <2>2. ASSUME NEW o \in OrderId, MonitorPoll(o) \/ MonitorFinal(o)
        PROVE  Watched'
    <3>1. mpc' = mpc /\ mpc \in {"pass", "final"} /\ todo' = todo \ {o}
      BY <2>2 DEF MonitorPoll, MonitorFinal
    <3>2. CASE UNCHANGED <<pending, results>> /\ MonitorPoll(o)
      BY <1>0, <2>1, <3>1, <3>2 DEF MonitorPoll
    <3>3. CASE \E v \in Verdicts : v.status # "none" /\ Judge(o, v)
      <4>1. PICK v \in Verdicts : v.status # "none" /\ Judge(o, v)
        BY <3>3
      <4>2. /\ pending' = pending \ {o}
            /\ \A p \in OrderId : results'[p] = IF p = o THEN v ELSE results[p]
        BY <1>0, <4>1 DEF Judge
      <4> QED
        BY <1>0, <2>1, <3>1, <4>1, <4>2
    <3>4. CASE UNCHANGED <<pending, results>> /\ MonitorFinal(o)
      <4>1. o \in pending /\ o \notin pending'
        BY <1>0, <3>4 DEF MonitorFinal, Judge
      <4> QED
        BY <3>4, <4>1
    <3> QED
      BY <2>2, <3>2, <3>3, <3>4, PollIsSound DEF SessionInv, ExecInv, MonitorInv
  <2>3. CASE MonitorNextPass \/ MonitorTimeout
    BY <1>0, <2>1, <2>3 DEF MonitorNextPass, MonitorTimeout
  <2>4. CASE MonitorDone
    BY <1>0, <2>1, <2>4 DEF MonitorDone
  <2> QED
    BY <2>1, <2>2, <2>3, <2>4 DEF MonitorStep
<1> QED
  BY <1>1, <1>3, <1>4, <1>5, <1>6, <1>7, <1>8
  DEF Next, Main, vars, execVars, sessionVars, Kill, Broker, Reader, SkipRow,
      SubmitExit, SubmitEntry, Submit, PlaceForRow, CheckTier, PersistCheck,
      PersistNextPass, NothingToMonitor, BookPosition, BookExecuted,
      WriteClosedTrade, SettleUnfilled, Finish, UnchangedByBooking

LEMMA FailedIsDeadStep ==
  ASSUME OneRowPerAsset, SessionInv, Guarded, Watched, FailedIsDead, [Next]_vars
  PROVE  FailedIsDead'
<1>0. /\ owner \in [OrderId -> Rows \cup {NoRow}]
      /\ \A o \in OrderId : Dead(o) => Dead(o)'
      /\ FailedIsDead
  BY DeadForEver DEF SessionInv, ExecInv, ExecTypeOK
<1>1. unguarded \subseteq unguarded'
  BY DEF Next, vars, execVars, historyVars, StartSession, Main, Kill, Broker,
         Reader, EndSession, SkipRow, SubmitExit, SubmitEntry, Submit,
         CheckTier, RecordSubmission, PlaceForRow, EndExits, EndEntries,
         PersistCheck, PersistNextPass, StartMonitor, NothingToMonitor,
         MonitorOrders, EndMonitor, BookPosition, BookExecuted,
         WriteClosedTrade, SettleUnfilled, Finish, UnchangedByBooking
<1>2. CASE UNCHANGED <<rowStatus, owner>>
  BY <1>0, <1>1, <1>2 DEF FailedIsDead, Owned
<1>3. CASE PlaceForRow
  <2>1. /\ owner' = [owner EXCEPT ![nextorderId] = curRow]
        /\ UNCHANGED rowStatus
        /\ Pending(curRow)
    BY <1>3 DEF PlaceForRow, fileVars, RouterPlace, SessionInv, SessionShape,
                SessionRows, ExecInv, ExecTypeOK
  <2>2. \A r \in Rows : rowStatus[r] = "FAILED" =>
          \A o \in OrderId : owner'[o] = r => owner[o] = r
    BY <1>0, <2>1 DEF Pending
  <2> QED
    BY <1>0, <1>1, <2>1, <2>2 DEF FailedIsDead, Owned
<1>4. ASSUME NEW o \in OrderId, SettleUnfilled(o)
      PROVE  FailedIsDead'
  <2>1. /\ AtOrder(o) /\ ~IsFilled(o)
        /\ UNCHANGED <<owner, unguarded>>
        /\ owner[o] \in Rows
        /\ o \in SessionIds
    BY <1>4, QueueOwned
    DEF SettleUnfilled, UnchangedByBooking, historyVars, SessionInv, ExecInv,
        LoopsTied, AtOrder, SessionIds
  <2>2. CASE UNCHANGED rowStatus
    BY <1>2, <2>1, <2>2
  <2>3. CASE UpdateSignalStatus(AssetOf[owner[o]], UnfilledStatus(o))
    <3>1. \A r \in Rows : r # owner[o] => rowStatus'[r] = rowStatus[r]
      BY <2>1, <2>3, SettlesOneRow
    <3>2. CASE rowStatus'[owner[o]] = rowStatus[owner[o]]
      BY <1>0, <2>1, <3>1, <3>2 DEF FailedIsDead, Owned
    <3>3. CASE UnfilledStatus(o) # "FAILED"
      <4>1. \A r \in Rows : rowStatus'[r] = "FAILED" => rowStatus[r] = "FAILED"
        BY <2>3, <3>3 DEF UpdateSignalStatus
      <4> QED
        BY <1>0, <2>1, <4>1 DEF FailedIsDead, Owned
    <3>4. CASE UnfilledStatus(o) = "FAILED"
      <4>1. /\ results[o].status \in VerdictStatus
            /\ results[o].status # "none"
        BY <2>1 DEF SessionInv, ExecInv, MonitorInv, MonitorTypeOK, Watched,
                    AtOrder, Judged
      <4>2. results[o].status \in EndStatus \cup {"Rejected"}
        BY <2>1, <3>4, <4>1 DEF UnfilledStatus, IsFilled, VerdictStatus
      <4>3. Dead(o)
        BY <4>2 DEF SessionInv, ExecInv, MonitorInv, VerdictSound
      <4>4. owner[o] \notin unguarded => \A p \in Owned(owner[o]) : Dead(p)
        BY <2>1, <4>3 DEF Guarded, GuardedRow
      <4> QED
        BY <1>0, <2>1, <3>1, <4>4 DEF FailedIsDead, Owned
    <3> QED
      BY <3>3, <3>4
  <2> QED
    BY <1>4, <2>2, <2>3 DEF SettleUnfilled
<1>5. ASSUME NEW o \in OrderId, BookExecuted(o)
      PROVE  FailedIsDead'
  <2>1. \A r \in Rows : rowStatus'[r] = "FAILED" => rowStatus[r] = "FAILED"
    BY <1>5 DEF BookExecuted, UpdateSignalStatus
  <2>2. UNCHANGED owner
    BY <1>5 DEF BookExecuted, UnchangedByBooking, historyVars
  <2> QED
    BY <1>0, <1>1, <2>1, <2>2 DEF FailedIsDead, Owned
<1>6. PlaceForRow \/ UNCHANGED owner
  BY DEF Next, vars, execVars, historyVars, StartSession, Main, Kill, Broker,
         Reader, EndSession, SkipRow, SubmitExit, SubmitEntry, Submit,
         CheckTier, RecordSubmission, EndExits, EndEntries, PersistCheck,
         PersistNextPass, StartMonitor, NothingToMonitor, MonitorOrders,
         EndMonitor, BookPosition, BookExecuted, WriteClosedTrade,
         SettleUnfilled, Finish, UnchangedByBooking
<1> QED
  BY <1>2, <1>3, <1>4, <1>5, <1>6, StatusWriters

(* FAILED is given only when every order of the row is dead, over all      *)
(* sessions and kills, when no two rows share an asset and no session has  *)
(* left the row with an order alive and nothing in the file to say so.     *)
THEOREM FailedOnlyWhenDead ==
  ASSUME OneRowPerAsset
  PROVE  Spec => []FailedIsDead
<1>1. Init => Guarded /\ Watched /\ FailedIsDead
  BY ExecutorAssumption
  DEF Init, ExecInit, MonitorInit, Guarded, GuardedRow, Watched, FailedIsDead,
      SessionIds, Owned
<1>2. /\ SessionInv /\ Guarded /\ Watched /\ FailedIsDead /\ [Next]_vars
      => Guarded' /\ Watched' /\ FailedIsDead'
  BY GuardedStep, WatchedStep, FailedIsDeadStep
<1> QED
  BY <1>1, <1>2, SpecSessionInv, PTL DEF Spec

-----------------------------------------------------------------------------
(* The books against the broker.                                           *)

(* The filled orders of one side of an asset.                              *)
FilledFor(a, side) ==
  {o \in OrderId : /\ owner[o] # NoRow
                   /\ AssetOf[owner[o]] = a
                   /\ ActionOf[owner[o]] = side
                   /\ Filled(o)}

(* Orders whose position this session may still write: those in its lists  *)
(* and the one the router is at; while results are booked, what is left of *)
(* the queue without the order whose position is written.                  *)
ToBook ==
  IF pc = "process"
    THEN {o \in queue : stage = "verdict" \/ ~AtOrder(o)}
    ELSE SessionIds \cup {cur}

(* Orders that have filled and whose position no session will write again: *)
(* an entry stands for one row of the file at most, an exit for one time   *)
(* the rows were dropped.                                                  *)
Accounted(a, side) == FilledFor(a, side) \ ToBook

Accounts ==
  \A a \in Assets :
    /\ positions[a] + removals[a]
         <= Initially(a) + Cardinality(Accounted(a, "BUY"))
    /\ removals[a] <= Cardinality(Accounted(a, "SELL"))

LEMMA FilledForFinite ==
  ASSUME NEW S \in SUBSET OrderId
  PROVE  IsFiniteSet(S) /\ Cardinality(S) \in Nat
<1>1. IsFiniteSet(OrderId)
  BY FS_Interval, OrdersAssumption DEF OrderId
<1>2. IsFiniteSet(S)
  BY <1>1, FS_Subset
<1> QED
  BY <1>2, FS_CardinalityType

(* What is filled for an asset stays so.                                   *)
LEMMA FilledForGrows ==
  ASSUME SessionInv, [Next]_vars, NEW a, NEW side
  PROVE  FilledFor(a, side) \subseteq FilledFor(a, side)'
BY FilledStays DEF FilledFor, SessionInv

(* The orders left to book only lose orders, but for one just placed.      *)
LEMMA ToBookStep ==
  ASSUME SessionInv, [Next]_vars, NEW o \in ToBook', o \in OrderId
  PROVE  o \in ToBook \/ ~Filled(o)'
<1> USE DEF ToBook, SessionIds, historyVars, routerVars
<1>0. /\ queue \subseteq SessionIds
      /\ queue \subseteq OrderId
      /\ stage # "verdict" => pc = "process"
      /\ stage \in {"verdict", "position", "status"}
      /\ o # NoOrder
      /\ pc \in Phases \cup {"idle"}
  BY DEF SessionInv, ExecInv, ExecTypeOK, LoopsTied, OrderId, NoOrder
<1>1. CASE UNCHANGED <<pc, queue, stage, exitIds, entryIds, cur>>
  BY <1>1 DEF AtOrder
<1>2. CASE /\ pc # "process" /\ pc' # "process"
           /\ UNCHANGED <<exitIds, entryIds, cur>>
  BY <1>2
<1>3. CASE EndSession
  BY <1>0, <1>3 DEF EndSession
<1>4. CASE \E r \in Rows : SubmitExit(r) \/ SubmitEntry(r)
  BY <1>0, <1>4 DEF SubmitExit, SubmitEntry, Submit, RouterCall
<1>5. CASE PlaceForRow
  <2>1. /\ cur' = nextorderId /\ nextorderId \in OrderId
        /\ broker' = [broker EXCEPT ![nextorderId].state = "sent"]
        /\ UNCHANGED <<pc, exitIds, entryIds>>
        /\ rpc = "place"
    BY <1>5 DEF PlaceForRow, RouterPlace, PlaceOrder, sessionVars
  <2>2. pc # "process"
    BY <2>1 DEF SessionInv, SessionShape
  <2>3. o = nextorderId => ~Filled(o)'
    BY <2>1 DEF Filled, SessionInv, ExecInv, OrdersInv, OrdersTypeOK
  <2> QED
    BY <2>1, <2>2, <2>3
<1>6. CASE RecordSubmission
  <2>1. pc # "process"
    BY <1>6 DEF RecordSubmission, RouterReturn, SessionInv, SessionShape
  <2> QED
    BY <1>0, <1>6, <2>1 DEF RecordSubmission, RouterReturn
<1>7. CASE EndMonitor
  BY <1>0, <1>7 DEF EndMonitor
<1>8. CASE \E p \in OrderId : BookPosition(p)
  BY <1>8 DEF BookPosition, WritePosition, UnchangedByBooking
<1>9. CASE \E p \in OrderId : BookExecuted(p) \/ WriteClosedTrade(p)
                                \/ SettleUnfilled(p)
  <2> PICK p \in OrderId : BookExecuted(p) \/ WriteClosedTrade(p)
                                \/ SettleUnfilled(p)
    BY <1>9
  <2>1. AtOrder(p) /\ pc = "process" /\ UNCHANGED pc
    BY DEF BookExecuted, WriteClosedTrade, SettleUnfilled, UnchangedByBooking,
       AtOrder
  <2>2. CASE queue' = queue \ {p}
    BY <1>0, <2>1, <2>2, OneAtOrder
  <2>3. CASE UNCHANGED queue /\ stage # "verdict" /\ stage' # "verdict"
    BY <2>1, <2>3 DEF AtOrder
  <2> QED
    BY <2>2, <2>3 DEF BookExecuted, WriteClosedTrade, SettleUnfilled
<1>10. CASE Broker \/ Reader
  BY <1>1, <1>10 DEF Broker, Reader, execVars, sessionVars
<1>11. CASE CheckTier
  BY <1>1, <1>11 DEF CheckTier, RouterLocal, RouterTryNext, RouterGiveUp,
     RouterAccept, execVars, sessionVars
<1>12. CASE \/ StartSession \/ EndExits \/ EndEntries \/ PersistNextPass
            \/ StartMonitor \/ \E p \in OrderId : PersistCheck(p)
  BY <1>2, <1>12 DEF StartSession, EndExits, EndEntries, PersistNextPass,
     StartMonitor, PersistCheck
<1>13. CASE (\E r \in Rows : SkipRow(r)) \/ MonitorOrders \/ UNCHANGED vars
  BY <1>1, <1>13 DEF SkipRow, MonitorOrders, vars, execVars, sessionVars
<1> QED
  BY <1>3, <1>4, <1>5, <1>6, <1>7, <1>8, <1>9, <1>10, <1>11, <1>12, <1>13
  DEF Next, Main, Kill, Finish, NothingToMonitor

(* The only writer of active_positions.csv.                                *)
LEMMA PositionWriters ==
  ASSUME [Next]_vars
  PROVE  UNCHANGED positions \/ \E o \in OrderId : BookPosition(o)
BY DEF Next, vars, execVars, historyVars, sessionVars, fileVars,
       StartSession, Main, Kill, Broker, Reader, EndSession, SkipRow,
       SubmitExit, SubmitEntry, Submit, CheckTier, RecordSubmission,
       PlaceForRow, EndExits, EndEntries, PersistCheck, PersistNextPass,
       StartMonitor, NothingToMonitor, MonitorOrders, EndMonitor,
       BookExecuted, SettleUnfilled, WriteClosedTrade, Finish,
       UnchangedByBooking

(* Nor do rows disappear otherwise, nor those of another asset.            *)
LEMMA RemovalsKept ==
  ASSUME SessionInv, [Next]_vars, NEW a \in Assets
  PROVE  /\ (\A o \in OrderId : ~BookPosition(o)) => removals' = removals
         /\ positions'[a] = positions[a] => removals'[a] = removals[a]
<1>1. removals \in [Assets -> Nat] /\ positions \in [Assets -> Nat]
  BY DEF SessionInv, ExecInv, ExecTypeOK
<1>2. (\A o \in OrderId : ~BookPosition(o)) => removals' = removals
  BY DEF Next, vars, execVars, historyVars, sessionVars, fileVars,
       StartSession, Main, Kill, Broker, Reader, EndSession, SkipRow,
       SubmitExit, SubmitEntry, Submit, CheckTier, RecordSubmission,
       PlaceForRow, EndExits, EndEntries, PersistCheck, PersistNextPass,
       StartMonitor, NothingToMonitor, MonitorOrders, EndMonitor,
       BookExecuted, SettleUnfilled, WriteClosedTrade, Finish
<1>3. ASSUME NEW o \in OrderId, BookPosition(o), positions'[a] = positions[a]
      PROVE  removals'[a] = removals[a]
  BY <1>1, <1>3 DEF BookPosition
<1> QED
  BY <1>2, <1>3

(* A position is written for one filled order that no session writes       *)
(* again.                                                                  *)
LEMMA BooksOne ==
  ASSUME SessionInv, [Next]_vars, NEW o \in OrderId, BookPosition(o)
  PROVE  /\ \A a, side : a = AssetOf[owner[o]] /\ side = ActionOf[owner[o]]
                         => o \in FilledFor(a, side)'
         /\ o \in ToBook /\ o \notin ToBook'
         /\ \A a \in Assets : a # AssetOf[owner[o]]
              => positions'[a] = positions[a]
         /\ positions'[AssetOf[owner[o]]] =
              IF ActionOf[owner[o]] = "SELL"
                THEN 0 ELSE positions[AssetOf[owner[o]]] + 1
<1>1. /\ AtOrder(o) /\ IsFilled(o) /\ stage = "verdict" /\ stage' = "position"
      /\ UNCHANGED <<pc, queue, owner>>
  BY DEF BookPosition, WritePosition, UnchangedByBooking, historyVars
<1>2. owner[o] \in Rows /\ AssetOf[owner[o]] \in Assets
  BY <1>1, QueueOwned DEF SessionInv
<1>3. o \in exitIds <=> ActionOf[owner[o]] = "SELL"
  BY <1>1, BookedOrder
<1>4. Filled(o)
  BY <1>1 DEF SessionInv, ExecInv, MonitorInv, VerdictSound, IsFilled, Filled
<1>5. Filled(o)' /\ owner'[o] = owner[o]
  BY <1>4, FilledStays DEF SessionInv
<1>6. \A a, side : a = AssetOf[owner[o]] /\ side = ActionOf[owner[o]]
                  => o \in FilledFor(a, side)'
  BY <1>2, <1>5, ExecutorAssumption DEF FilledFor
<1>7. o \in ToBook /\ o \notin ToBook'
  BY <1>1 DEF ToBook, AtOrder
<1>8. positions \in [Assets -> Nat]
  BY DEF SessionInv, ExecInv, ExecTypeOK
<1> QED
  BY <1>2, <1>3, <1>6, <1>7, <1>8 DEF BookPosition, WritePosition

(* What is accounted for stays so, and is finite.                          *)
LEMMA AccountedGrows ==
  ASSUME SessionInv, [Next]_vars, NEW a, NEW side
  PROVE  /\ Accounted(a, side) \subseteq Accounted(a, side)'
         /\ IsFiniteSet(Accounted(a, side)) /\ IsFiniteSet(Accounted(a, side)')
         /\ Cardinality(Accounted(a, side)) \in Nat
         /\ Cardinality(Accounted(a, side)') \in Nat
         /\ Cardinality(Accounted(a, side)) <= Cardinality(Accounted(a, side)')
<1>1. Accounted(a, side) \subseteq Accounted(a, side)'
  BY FilledForGrows, ToBookStep DEF Accounted, FilledFor
<1>2. Accounted(a, side) \in SUBSET OrderId
      /\ Accounted(a, side)' \in SUBSET OrderId
  BY DEF Accounted, FilledFor
<1>3. /\ IsFiniteSet(Accounted(a, side)) /\ IsFiniteSet(Accounted(a, side)')
      /\ Cardinality(Accounted(a, side)) \in Nat
      /\ Cardinality(Accounted(a, side)') \in Nat
  BY <1>2, FilledForFinite, OrdersAssumption
<1> QED
  BY <1>1, <1>3, FS_Subset

(* Booking an order accounts for one more.                                 *)
LEMMA AccountedAdds ==
  ASSUME SessionInv, [Next]_vars, NEW o \in OrderId, BookPosition(o),
         NEW a, NEW side, a = AssetOf[owner[o]], side = ActionOf[owner[o]]
  PROVE  Cardinality(Accounted(a, side)) + 1 <= Cardinality(Accounted(a, side)')
<1> DEFINE A == Accounted(a, side)
           B == Accounted(a, side)'
<1>1. o \in B /\ o \notin A
  BY BooksOne DEF Accounted
<1>2. A \subseteq B /\ IsFiniteSet(A) /\ IsFiniteSet(B)
      /\ Cardinality(A) \in Nat /\ Cardinality(B) \in Nat
  BY AccountedGrows
<1> HIDE DEF A, B
<1>3. Cardinality(A \cup {o}) = Cardinality(A) + 1
  BY <1>1, <1>2, FS_AddElement
<1>4. A \cup {o} \in SUBSET B
  BY <1>1, <1>2
<1>5. Cardinality(A \cup {o}) <= Cardinality(B)
  BY <1>2, <1>4, FS_Subset
<1> QED
  BY <1>3, <1>5 DEF A, B

LEMMA AccountsStep ==
  ASSUME SessionInv, Accounts, [Next]_vars
  PROVE  Accounts'
<1> SUFFICES ASSUME NEW a \in Assets
             PROVE  (/\ positions[a] + removals[a]
                          <= Initially(a) + Cardinality(Accounted(a, "BUY"))
                     /\ removals[a] <= Cardinality(Accounted(a, "SELL")))'
  BY DEF Accounts
<1> DEFINE n(side) == Cardinality(Accounted(a, side))
           m(side) == Cardinality(Accounted(a, side)')
<1>0. /\ positions[a] \in Nat /\ removals[a] \in Nat
      /\ Initially(a) \in Nat /\ Initially(a)' = Initially(a)
      /\ positions[a] + removals[a] <= Initially(a) + n("BUY")
      /\ removals[a] <= n("SELL")
  BY DEF SessionInv, ExecInv, ExecTypeOK, Initially, Accounts
<1>1. /\ n("BUY") \in Nat /\ m("BUY") \in Nat /\ n("BUY") <= m("BUY")
      /\ n("SELL") \in Nat /\ m("SELL") \in Nat /\ n("SELL") <= m("SELL")
  BY AccountedGrows
<1>2. ASSUME NEW o \in OrderId, BookPosition(o), AssetOf[owner[o]] = a,
             NEW side, side = ActionOf[owner[o]]
      PROVE  n(side) + 1 <= m(side)
  BY <1>2, AccountedAdds
<1> SUFFICES /\ positions'[a] + removals'[a] <= Initially(a) + m("BUY")
             /\ removals'[a] <= m("SELL")
  BY <1>0
<1> HIDE DEF n, m
<1>3. CASE positions'[a] = positions[a] /\ removals'[a] = removals[a]
  BY <1>0, <1>1, <1>3
<1>4. ASSUME NEW o \in OrderId, BookPosition(o), AssetOf[owner[o]] = a
      PROVE  /\ positions'[a] + removals'[a] <= Initially(a) + m("BUY")
             /\ removals'[a] <= m("SELL")
  <2>1. ActionOf[owner[o]] \in {"BUY", "SELL"}
    <3>1. owner[o] \in Rows
      BY <1>4, QueueOwned DEF SessionInv, BookPosition
    <3> QED
      BY <3>1, ExecutorAssumption
  <2>2. removals'[a] =
          removals[a] + IF positions'[a] < positions[a] THEN 1 ELSE 0
    BY <1>4 DEF BookPosition
  <2>3. CASE ActionOf[owner[o]] = "SELL"
    <3>1. positions'[a] = 0
      BY <1>4, <2>3, BooksOne
    <3>2. n("SELL") + 1 <= m("SELL")
      BY <1>2, <1>4, <2>3
    <3> QED
      BY <1>0, <1>1, <2>2, <3>1, <3>2
  <2>4. CASE ActionOf[owner[o]] = "BUY"
    <3>1. positions'[a] = positions[a] + 1
      BY <1>4, <2>4, BooksOne
    <3>2. n("BUY") + 1 <= m("BUY")
      BY <1>2, <1>4, <2>4
    <3> QED
      BY <1>0, <1>1, <2>2, <3>1, <3>2
  <2> QED
    BY <2>1, <2>3, <2>4
<1>5. \/ positions'[a] = positions[a] /\ removals'[a] = removals[a]
      \/ \E o \in OrderId : BookPosition(o) /\ AssetOf[owner[o]] = a
  BY PositionWriters, BooksOne, RemovalsKept
<1> QED
  BY <1>3, <1>4, <1>5

(* LedgerSound: over all sessions and kills, and however the rows share    *)
(* assets, no filled entry is booked twice, and the rows of an asset are   *)
(* dropped no more often than exits of it have filled.                     *)
THEOREM BooksNeverExceedBroker == Spec => []LedgerSound
<1>1. Init => Accounts
  <2> SUFFICES ASSUME Init, NEW a \in Assets
               PROVE  /\ positions[a] + removals[a]
                           <= Initially(a) + Cardinality(Accounted(a, "BUY"))
                      /\ removals[a] <= Cardinality(Accounted(a, "SELL"))
    BY DEF Accounts
  <2>1. /\ positions[a] = Initially(a) /\ Initially(a) \in Nat
        /\ removals[a] = 0
    BY DEF Init, ExecInit, Initially
  <2>2. /\ Cardinality(Accounted(a, "BUY")) \in Nat
        /\ Cardinality(Accounted(a, "SELL")) \in Nat
    <3>1. /\ Accounted(a, "BUY") \in SUBSET OrderId
          /\ Accounted(a, "SELL") \in SUBSET OrderId
      BY DEF Accounted, FilledFor
    <3> QED
      BY <3>1, FilledForFinite, OrdersAssumption
  <2> QED
    BY <2>1, <2>2
<1>2. SessionInv /\ Accounts /\ [Next]_vars => Accounts'
  BY AccountsStep
<1>3. SessionInv /\ Accounts => LedgerSound
  <2> SUFFICES ASSUME SessionInv, Accounts, NEW a \in Assets
               PROVE  /\ positions[a] + removals[a]
                           <= Initially(a) + Cardinality(FilledFor(a, "BUY"))
                      /\ removals[a] <= Cardinality(FilledFor(a, "SELL"))
    BY DEF LedgerSound, FilledFor
  <2>1. ASSUME NEW side
        PROVE  /\ Cardinality(FilledFor(a, side)) \in Nat
               /\ Cardinality(Accounted(a, side)) \in Nat
               /\ Cardinality(Accounted(a, side))
                    <= Cardinality(FilledFor(a, side))
    <3>1. /\ FilledFor(a, side) \in SUBSET OrderId
          /\ Accounted(a, side) \in SUBSET FilledFor(a, side)
          /\ Accounted(a, side) \in SUBSET OrderId
      BY DEF Accounted, FilledFor
    <3>2. /\ Cardinality(FilledFor(a, side)) \in Nat
          /\ Cardinality(Accounted(a, side)) \in Nat
          /\ IsFiniteSet(FilledFor(a, side))
      BY <3>1, FilledForFinite, OrdersAssumption
    <3> QED
      BY <3>1, <3>2, FS_Subset
  <2>2. positions[a] \in Nat /\ removals[a] \in Nat /\ Initially(a) \in Nat
    BY DEF SessionInv, ExecInv, ExecTypeOK, Initially
  <2> QED
    BY <2>1, <2>2 DEF Accounts
<1> QED
  BY <1>1, <1>2, <1>3, SpecSessionInv, PTL DEF Spec

=============================================================================
