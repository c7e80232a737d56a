------------------------------- MODULE Executor -------------------------------
(***************************************************************************)
(* BaseExecutor.run (execution/base_executor.py) for a single-leg strategy: *)
(* load the PENDING rows of pending_signals.csv, submit exits, submit      *)
(* entries, persist the entries' permIds, monitor every order, book the    *)
(* verdicts.  The CSV files outlive a session; everything the              *)
(* ConnectionManager, SmartRouter and FillMonitor hold does not.  A        *)
(* session can be killed between any two writes, and an exception caught   *)
(* by run() ends it the same way.                                          *)
(***************************************************************************)
EXTENDS SmartRouter, FillMonitor

CONSTANTS
  Rows,       \* rows of pending_signals.csv
  Assets,     \* values of the signal column
  AssetOf,    \* asset of each row
  ActionOf,   \* normalize_action of each row: "BUY" or "SELL"
  SelfSized,  \* SELL rows that carry their own number of shares
  KillAt,     \* phases in which the process may be killed
  NoRow       \* no row

Phases == {"exits", "entries", "persist", "monitor", "process"}

ASSUME ExecutorAssumption ==
  /\ AssetOf \in [Rows -> Assets]
  /\ ActionOf \in [Rows -> {"BUY", "SELL"}]
  /\ SelfSized \subseteq Rows
  /\ KillAt \subseteq Phases
  /\ NoRow \notin Rows

VARIABLES
  rowStatus,  \* pending_signals.csv: status
  rowPerm,    \* pending_signals.csv: entry_perm_id, named by its order id
  positions,  \* active_positions.csv: rows of each asset, Qty shares each
  closed,     \* closed_trades.csv: the exit orders recorded there
  owner,      \* external: the row an order was placed for (its orderRef)
  unguarded,  \* history: rows a session left PENDING with an order that may
              \* trade and nothing in the row to say so
  removals,   \* history: times the rows of an asset were dropped from
              \* active_positions.csv
  pc,         \* phase of run()
  toSubmit,   \* loaded rows not yet looked at
  curRow,     \* row being submitted
  exitIds,    \* exit_order_ids
  entryIds,   \* entry_order_ids
  waiting,    \* _persist_entry_perm_ids: entries without a permId so far
  queue,      \* orders still to handle in this pass of a loop
  stage       \* last write done for the order being booked

fileVars == <<rowStatus, rowPerm, positions, closed>>
historyVars == <<owner, unguarded, removals>>
sessionVars ==
  <<pc, toSubmit, curRow, exitIds, entryIds, waiting, queue, stage>>
execVars == <<fileVars, historyVars, sessionVars>>
vars == <<orderVars, routerVars, monitorVars, execVars>>

StatusValue == {"PENDING", "EXECUTED", "PARTIAL_FILL", "FAILED"}

Pending(r) == rowStatus[r] = "PENDING"

Owned(r) == {o \in OrderId : owner[o] = r}

Initially(a) ==
  IF \E r \in Rows : ActionOf[r] = "SELL" /\ AssetOf[r] = a THEN 1 ELSE 0

ExecTypeOK ==
  /\ rowStatus \in [Rows -> StatusValue]
  /\ rowPerm \in [Rows -> OrderId \cup {NoOrder}]
  /\ positions \in [Assets -> Nat]
  /\ closed \subseteq OrderId
  /\ owner \in [OrderId -> Rows \cup {NoRow}]
  /\ unguarded \subseteq Rows
  /\ removals \in [Assets -> Nat]
  /\ pc \in Phases \cup {"idle"}
  /\ toSubmit \subseteq Rows
  /\ curRow \in Rows \cup {NoRow}
  /\ exitIds \subseteq OrderId
  /\ entryIds \subseteq OrderId
  /\ waiting \subseteq OrderId
  /\ queue \subseteq OrderId
  /\ stage \in {"verdict", "position", "status"}

ExecInit ==
  /\ rowStatus = [r \in Rows |-> "PENDING"]
  /\ rowPerm = [r \in Rows |-> NoOrder]
  /\ positions = [a \in Assets |-> Initially(a)]
  /\ closed = {}
  /\ owner = [o \in OrderId |-> NoRow]
  /\ unguarded = {}
  /\ removals = [a \in Assets |-> 0]
  /\ pc = "idle"
  /\ toSubmit = {}
  /\ curRow = NoRow
  /\ exitIds = {}
  /\ entryIds = {}
  /\ waiting = {}
  /\ queue = {}
  /\ stage = "verdict"

Init == OrdersInit /\ RouterInit /\ MonitorInit /\ ExecInit

-----------------------------------------------------------------------------
(* Faulty variants: the permId of an earlier run not looked at; anything   *)
(* but a refusal taken for a complete fill; the row settled instead of the *)
(* position written first; the closed trade written before the row is      *)
(* settled; an order that timed out called FAILED; the writes for two      *)
(* orders mixed up.                                                        *)
SkipNothing(r) == FALSE

NotRefused(o) ==
  results[o].status \notin EndStatus \cup {"Rejected"}

ExecutedFirst(o) ==
  /\ stage = "verdict"
  /\ stage' = "position"
  /\ rowStatus' = [rowStatus EXCEPT ![owner[o]] = "EXECUTED"]
  /\ UNCHANGED <<rowPerm, positions>>

ClosedFirst(o) ==
  /\ stage = "verdict"
  /\ stage' = IF o \in exitIds THEN "status" ELSE "position"
  /\ positions' = [positions EXCEPT
       ![AssetOf[owner[o]]] = IF o \in exitIds THEN 0 ELSE @ + 1]
  /\ UNCHANGED <<rowStatus, rowPerm>>

FailTimeouts(o) ==
  IF results[o].status = "PartialFill" THEN "PARTIAL_FILL" ELSE "FAILED"

AnyQueued(o) == pc = "process" /\ o \in queue

-----------------------------------------------------------------------------
(* The CSV writes: each rewrites the whole file, and both writers of       *)
(* pending_signals.csv touch every PENDING row of the asset.               *)

UpdateSignalStatus(a, s) ==
  rowStatus' = [r \in Rows |->
                  IF AssetOf[r] = a /\ Pending(r) THEN s ELSE rowStatus[r]]

PersistPendingPerm(o, perm) ==
  rowPerm' = [r \in Rows |->
                IF AssetOf[r] = AssetOf[owner[o]] /\ Pending(r)
                  THEN perm ELSE rowPerm[r]]

-----------------------------------------------------------------------------
(* A session.                                                              *)

(* load_signals: the PENDING rows, without those that are stale by now,    *)
(* which may be any.                                                       *)
MayLoad(live) == live \in SUBSET {r \in Rows : Pending(r)}

(* A session that is on hold, does not connect or loads no row changes     *)
(* nothing.  active_positions is read here and saved at every change, so   *)
(* memory and file agree.  The guard on order ids is the bound.            *)
StartSession ==
  /\ pc = "idle"
  /\ \E live \in SUBSET Rows \ {{}} :
       /\ MayLoad(live)
       /\ nextorderId + NTiers * Cardinality(live) <= MaxOrders + 1
       /\ toSubmit' = live
  /\ pc' = "exits"
  /\ UNCHANGED <<orderVars, routerVars, monitorVars, fileVars, historyVars,
                 curRow, exitIds, entryIds, waiting, queue, stage>>

(* What the end of the process leaves behind: the files and the broker.    *)
EndSession ==
  /\ pc' = "idle"
  /\ toSubmit' = {}
  /\ curRow' = NoRow
  /\ exitIds' = {}
  /\ entryIds' = {}
  /\ waiting' = {}
  /\ queue' = {}
  /\ stage' = "verdict"
  /\ rpc' = "idle" /\ tier' = 0 /\ cur' = NoOrder /\ tried' = {}
  /\ MonitorReset
  /\ orders' = NoView
  /\ order_errors' = {}
  /\ unguarded' = unguarded \cup
       {r \in Rows : /\ Pending(r)
                     /\ ActionOf[r] = "SELL" \/ rowPerm[r] = NoOrder
                     /\ \E o \in Owned(r) : ~Dead(o)}
  /\ UNCHANGED <<broker, nextorderId, fileVars, owner, removals>>

-----------------------------------------------------------------------------
(* Phases 1 and 2: submission.                                             *)

PhaseOf(r) == IF ActionOf[r] = "SELL" THEN "exits" ELSE "entries"

(* The idempotent check on entry_perm_id.                                  *)
AlreadySubmitted(r) == rowPerm[r] # NoOrder

(* _get_exit_shares > 0: from the signal, else from the position.          *)
HasExitShares(r) == r \in SelfSized \/ positions[AssetOf[r]] > 0

(* The `continue`s: already submitted, contract not resolved, no shares.   *)
SkipRow(r) ==
  /\ pc = PhaseOf(r)
  /\ rpc = "idle"
  /\ r \in toSubmit
  /\ toSubmit' = toSubmit \ {r}
  /\ UNCHANGED <<orderVars, routerVars, monitorVars, fileVars, historyVars,
                 pc, curRow, exitIds, entryIds, waiting, queue, stage>>

Submit(r) ==
  /\ r \in toSubmit
  /\ RouterCall
  /\ curRow' = r
  /\ toSubmit' = toSubmit \ {r}
  /\ UNCHANGED <<orderVars, monitorVars, fileVars, historyVars,
                 pc, exitIds, entryIds, waiting, queue, stage>>

SubmitExit(r) ==
  /\ pc = "exits"
  /\ ActionOf[r] = "SELL"
  /\ HasExitShares(r)
  /\ Submit(r)

SubmitEntry(r) ==
  /\ pc = "entries"
  /\ ActionOf[r] = "BUY"
  /\ ~AlreadySubmitted(r)
  /\ Submit(r)

(* The router's steps; the order it places carries the row's orderRef.     *)
PlaceForRow ==
  /\ RouterPlace
  /\ owner' = [owner EXCEPT ![nextorderId] = curRow]
  /\ UNCHANGED <<monitorVars, fileVars, unguarded, removals, sessionVars>>

CheckTier ==
  /\ RouterLocal
  /\ UNCHANGED <<orderVars, monitorVars, execVars>>

(* An id is remembered for the monitor; a row that all tiers refused stays *)
(* PENDING.                                                                *)
RecordSubmission ==
  /\ RouterReturn
  /\ exitIds' = IF rpc = "accepted" /\ pc = "exits"
                  THEN exitIds \cup {cur} ELSE exitIds
  /\ entryIds' = IF rpc = "accepted" /\ pc = "entries"
                   THEN entryIds \cup {cur} ELSE entryIds
  /\ curRow' = NoRow
  /\ UNCHANGED <<orderVars, monitorVars, fileVars, historyVars,
                 pc, toSubmit, waiting, queue, stage>>

EndExits ==
  /\ pc = "exits"
  /\ rpc = "idle"
  /\ \A r \in toSubmit : ActionOf[r] = "BUY"
  /\ pc' = "entries"
  /\ UNCHANGED <<orderVars, routerVars, monitorVars, fileVars, historyVars,
                 toSubmit, curRow, exitIds, entryIds, waiting, queue, stage>>

EndEntries ==
  /\ pc = "entries"
  /\ rpc = "idle"
  /\ toSubmit = {}
  /\ pc' = "persist"
  /\ waiting' = entryIds
  /\ queue' = entryIds
  /\ UNCHANGED <<orderVars, routerVars, monitorVars, fileVars, historyVars,
                 toSubmit, curRow, exitIds, entryIds, stage>>

-----------------------------------------------------------------------------
(* _persist_entry_perm_ids: whole passes until nothing waits or 3 s are    *)
(* over; the deadline is looked at after a pass.                           *)

PersistCheck(o) ==
  /\ pc = "persist"
  /\ o \in queue
  /\ queue' = queue \ {o}
  /\ \/ /\ orders[o].permId > 0
        /\ PersistPendingPerm(o, orders[o].permId)
        /\ waiting' = waiting \ {o}
     \/ /\ orders[o].permId = 0
        /\ UNCHANGED <<rowPerm, waiting>>
  /\ UNCHANGED <<orderVars, routerVars, monitorVars, rowStatus, positions,
                 closed, historyVars, pc, toSubmit, curRow, exitIds, entryIds,
                 stage>>

PersistNextPass ==
  /\ pc = "persist"
  /\ queue = {}
  /\ waiting # {}
  /\ queue' = waiting
  /\ UNCHANGED <<orderVars, routerVars, monitorVars, fileVars, historyVars,
                 pc, toSubmit, curRow, exitIds, entryIds, waiting, stage>>

(* Phase 3 starts: monitor_all over the exits and the entries.             *)
StartMonitor ==
  /\ pc = "persist"
  /\ queue = {}
  /\ MonitorStart(exitIds \cup entryIds)
  /\ pc' = "monitor"
  /\ waiting' = {}
  /\ UNCHANGED <<orderVars, routerVars, fileVars, historyVars,
                 toSubmit, curRow, exitIds, entryIds, queue, stage>>

NothingToMonitor ==
  /\ pc = "persist"
  /\ exitIds \cup entryIds = {}
  /\ EndSession

MonitorOrders ==
  /\ pc = "monitor"
  /\ MonitorStep
  /\ UNCHANGED <<orderVars, routerVars, execVars>>

EndMonitor ==
  /\ pc = "monitor"
  /\ mpc = "done"
  /\ pc' = "process"
  /\ queue' = exitIds \cup entryIds
  /\ UNCHANGED <<orderVars, routerVars, monitorVars, fileVars, historyVars,
                 toSubmit, curRow, exitIds, entryIds, waiting, stage>>

-----------------------------------------------------------------------------
(* _process_results: exits first, then entries, one order after the other; *)
(* a complete fill is booked in two or three separate writes.              *)

(* The order the loops are at: both lists are in the order of submission,  *)
(* and a session submits its exits first.                                  *)
AtOrder(o) ==
  /\ pc = "process"
  /\ o \in queue
  /\ \A p \in queue : o <= p

IsFilled(o) == results[o].status = "Filled"

UnchangedByBooking ==
  UNCHANGED <<orderVars, routerVars, monitorVars, owner, unguarded,
              pc, toSubmit, curRow, exitIds, entryIds, waiting>>

(* _remove_position drops every row of the asset.                          *)
WritePosition(o) ==
  /\ stage = "verdict"
  /\ stage' = "position"
  /\ positions' = [positions EXCEPT
       ![AssetOf[owner[o]]] = IF o \in exitIds THEN 0 ELSE @ + 1]
  /\ UNCHANGED <<rowStatus, rowPerm>>

BookPosition(o) ==
  /\ AtOrder(o)
  /\ IsFilled(o)
  /\ WritePosition(o)
  /\ removals' = [a \in Assets |->
       removals[a] + IF positions'[a] < positions[a] THEN 1 ELSE 0]
  /\ UNCHANGED <<closed, queue>>
  /\ UnchangedByBooking

BookExecuted(o) ==
  /\ AtOrder(o)
  /\ stage = "position"
  /\ UpdateSignalStatus(AssetOf[owner[o]], "EXECUTED")
  /\ \/ o \in exitIds /\ stage' = "status" /\ UNCHANGED queue
     \/ o \in entryIds /\ stage' = "verdict" /\ queue' = queue \ {o}
  /\ UNCHANGED <<rowPerm, positions, closed, removals>>
  /\ UnchangedByBooking

WriteClosedTrade(o) ==
  /\ AtOrder(o)
  /\ stage = "status"
  /\ closed' = closed \cup {o}
  /\ stage' = "verdict"
  /\ queue' = queue \ {o}
  /\ UNCHANGED <<rowStatus, rowPerm, positions, removals>>
  /\ UnchangedByBooking

(* The status an order that did not fill gives its row, "PENDING" for an   *)
(* entry that timed out: that one only gets its permId, if known.          *)
UnfilledStatus(o) ==
  CASE results[o].status = "PartialFill" -> "PARTIAL_FILL"
    [] results[o].status = "Timeout" ->
         IF o \in exitIds THEN "PARTIAL_FILL" ELSE "PENDING"
    [] OTHER -> "FAILED"

SettleUnfilled(o) ==
  /\ AtOrder(o)
  /\ stage = "verdict"
  /\ ~IsFilled(o)
  /\ queue' = queue \ {o}
  /\ IF UnfilledStatus(o) = "PENDING"
       THEN /\ UNCHANGED rowStatus
            /\ \/ results[o].perm > 0 /\ PersistPendingPerm(o, results[o].perm)
               \/ results[o].perm = 0 /\ UNCHANGED rowPerm
       ELSE /\ UpdateSignalStatus(AssetOf[owner[o]], UnfilledStatus(o))
            /\ UNCHANGED rowPerm
  /\ UNCHANGED <<positions, closed, removals, stage>>
  /\ UnchangedByBooking

Finish ==
  /\ pc = "process"
  /\ queue = {}
  /\ EndSession

(* The process is killed, or run() catches an exception.                   *)
Kill ==
  /\ pc \in KillAt
  /\ EndSession

-----------------------------------------------------------------------------
Main ==
  \/ \E r \in Rows : SkipRow(r) \/ SubmitExit(r) \/ SubmitEntry(r)
  \/ PlaceForRow
  \/ CheckTier
  \/ RecordSubmission
  \/ EndExits
  \/ EndEntries
  \/ \E o \in OrderId : PersistCheck(o)
  \/ PersistNextPass
  \/ StartMonitor
  \/ NothingToMonitor
  \/ MonitorOrders
  \/ EndMonitor
  \/ \E o \in OrderId : BookPosition(o) \/ BookExecuted(o)
                         \/ WriteClosedTrade(o) \/ SettleUnfilled(o)
  \/ Finish

Broker == BrokerNext /\ UNCHANGED <<routerVars, monitorVars, execVars>>

(* The orders whose record the main thread may still read; a callback      *)
(* about any other order changes nothing that is ever used.                *)
ReadOrders ==
  IF pc \in {"idle", "process"} THEN {} ELSE tried \cup exitIds \cup entryIds

Reader ==
  /\ ReaderNext(ReadOrders)
  /\ UNCHANGED <<routerVars, monitorVars, execVars>>

Next == StartSession \/ Main \/ Kill \/ Broker \/ Reader

Spec == Init /\ [][Next]_vars

(* The main thread never waits without a bound: every wait of it is a      *)
(* sleep, and the two loops that can go round again look at the clock.     *)
FairSpec ==
  /\ Spec
  /\ WF_vars(Main)
  /\ SF_vars(StartMonitor)
  /\ SF_vars(MonitorOrders /\ MonitorTimeout)

-----------------------------------------------------------------------------
TypeOK == OrdersTypeOK /\ RouterTypeOK /\ MonitorTypeOK /\ ExecTypeOK

Buys == {r \in Rows : ActionOf[r] = "BUY"}

Filled(o) == broker[o].state = "filled"

(* A row says EXECUTED only if an order placed for it was filled in full,  *)
(* whatever was killed and re-run on the way.                              *)
ExecutedIsFilled ==
  \A r \in Rows : rowStatus[r] = "EXECUTED" => \E o \in Owned(r) : Filled(o)

(* The position file is written before the row is settled: a kill between  *)
(* the two writes never leaves a row that says EXECUTED and a position     *)
(* that is missing (entry) or still there (exit).                          *)
ExecutedIsBooked ==
  \A r \in Rows : rowStatus[r] = "EXECUTED" =>
    IF ActionOf[r] = "BUY" THEN positions[AssetOf[r]] > 0
                           ELSE positions[AssetOf[r]] = 0

(* The ledger against the broker, over all sessions and kills.  Every row  *)
(* that is there, and every time the rows of an asset were dropped, stands *)
(* for a lot held at the start or a filled entry of its own: none is       *)
(* booked twice.  Every time rows were dropped, bought ones included,      *)
(* stands for a filled exit of its own: a sale drops rows once, and no     *)
(* earlier sale pays for it.  One sale drops every row of the asset,       *)
(* however many there are.                                                 *)
LedgerSound ==
  \A a \in Assets :
    LET filled(side) == {o \in OrderId : /\ owner[o] # NoRow
                                         /\ AssetOf[owner[o]] = a
                                         /\ ActionOf[owner[o]] = side
                                         /\ Filled(o)}
    IN /\ positions[a] + removals[a]
            <= Initially(a) + Cardinality(filled("BUY"))
       /\ removals[a] <= Cardinality(filled("SELL"))

(* A closed_trades record is the last write of an exit that really filled: *)
(* its row is settled and its position gone.                               *)
ClosedIsSettled ==
  \A o \in closed :
    /\ Filled(o)
    /\ rowStatus[owner[o]] = "EXECUTED"
    /\ positions[AssetOf[owner[o]]] = 0

(* One row never has two orders that may trade or have traded, over all    *)
(* tiers of the router and all sessions, unless a session ended with an    *)
(* order of the row alive and nothing in the row to say so.                *)
OneOrderPerRow ==
  \A r \in Rows \ unguarded :
    \A o, p \in Owned(r) : Dead(o) \/ Dead(p) \/ o = p

(* FAILED, which invites a retry by hand, is given only when every order   *)
(* of the row is dead at the broker.                                       *)
FailedIsDead ==
  \A r \in Rows \ unguarded :
    rowStatus[r] = "FAILED" => \A o \in Owned(r) : Dead(o)

(* Once a row carries a permId it is that of its newest order: no session  *)
(* submits the row again.                                                  *)
PersistedIsNewest ==
  \A r \in Rows : rowPerm[r] # NoOrder =>
    /\ owner[rowPerm[r]] = r
    /\ \A o \in Owned(r) : o <= rowPerm[r]

(* A settled row never changes again, not even when a later verdict is     *)
(* booked for another row of the same asset.                               *)
SettledRowsStay ==
  [][\A r \in Rows : ~Pending(r) => rowStatus'[r] = rowStatus[r]]_vars

(* A session ends, however silent the broker is.                           *)
SessionEnds == (pc # "idle") ~> (pc = "idle")

-----------------------------------------------------------------------------
(* The files as their readers see them.                                    *)
Traded == {r \in Rows : \E o \in Owned(r) : Filled(o)}

Recorded == {owner[o] : o \in closed}

L == INSTANCE Ledger WITH
       traded <- Traded, status <- rowStatus, recorded <- Recorded

(* Over all sessions and kills the files go through trade, position,       *)
(* status, record, one row at a time: nothing is booked that was not       *)
(* traded, nothing settled that is not booked, nothing booked again after. *)
ImplementsLedger == L!Spec

(* Inside run() the router and the monitor keep their contracts whatever   *)
(* the other does, and nothing cuts a call short but the process's end.    *)
CallsKeepContract == C!Init /\ [][C!Next \/ EndSession]_(C!callVars)

VerdictsKeepContract == V!Init /\ [][V!Next \/ EndSession]_(V!verdictVars)

-----------------------------------------------------------------------------
(* What a test of the repository says, and the code breaks.                *)

(* "no double position", "the next run can ... skip": a BUY row has one    *)
(* order that may trade or has traded.                                     *)
OneEntryPerRow ==
  \A r \in Buys : \A o, p \in Owned(r) : Dead(o) \/ Dead(p) \/ o = p

=============================================================================
