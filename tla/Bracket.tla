------------------------------- MODULE Bracket -------------------------------
(***************************************************************************)
(* A strategy with protective stops: BracketBuilder (execution/bracket.py) *)
(* and the branches of BaseExecutor.run that use it.  Every entry is a     *)
(* parent order with a stop attached to it; every exit first cancels the   *)
(* stop of the position it sells, found by the permId in the position's    *)
(* row, and is then sent whatever came of that.                            *)
(*                                                                         *)
(* One asset, one lot per order.  Executor has the writes of a verdict one *)
(* by one and several assets, SmartRouter the tiers behind an exit,        *)
(* FillMonitor the loop behind a verdict; here an exit is the one order    *)
(* the router returns, and a verdict what the record shows when it is      *)
(* booked.                                                                 *)
(***************************************************************************)
EXTENDS Orders, Integers, Sequences

CONSTANTS
  Rows,      \* rows the strategy ever writes to pending_signals.csv
  ActionOf,  \* normalize_action of each row
  KillAt,    \* places in run() where the process may be killed
  NoRow      \* no row

Places == {"exits", "resolve", "retry", "confirm", "sell", "entries", "child",
           "persist", "process"}

ASSUME BracketAssumption ==
  /\ ActionOf \in [Rows -> {"BUY", "SELL"}]
  /\ KillAt \subseteq Places
  /\ NoRow \notin Rows
  /\ Qty = 1

VARIABLES
  ticket,     \* external: what each order is: kind, parentId, row (orderRef)
  cancelling, \* external: orders TWS was asked to cancel
  rowStatus,  \* pending_signals.csv: status, "absent" before it is written
  rowPerm,    \* pending_signals.csv: entry_perm_id
  positions,  \* active_positions.csv, in file order
  failed_stp_cancels, \* BracketBuilder: permIds of the cancels not confirmed
  pc,         \* place in run()
  todo,       \* loaded rows not yet looked at
  curRow,     \* the row in hand
  confirmed,  \* what cancel_stop_order returned for it
  sent,       \* exit_order_ids and entry_order_ids
  queue,      \* orders still to persist, then to book
  stage,      \* last write done for the order being booked
  against,    \* history: the stop an exit was sent against
  unguarded,  \* history: rows left PENDING with an entry alive, no permId
  slips,      \* history: what sessions have let slip, see SlipKind
  bared,      \* history: stops asked to go with no exit sent for them
  asked,      \* history: stops this session has set out to cancel
  unnoted     \* history: those of them it would not note if that failed

outsideVars == <<orderVars, ticket, cancelling>>
fileVars == <<rowStatus, rowPerm, positions>>
cancelVars == <<failed_stp_cancels, confirmed>>
rowVars == <<todo, curRow>>
bookVars == <<sent, queue, stage>>
askVars == <<asked, unnoted>>
historyVars == <<against, unguarded, slips, bared, askVars>>
bracketVars == <<ticket, cancelling, fileVars, cancelVars, pc, rowVars, bookVars,
                 historyVars>>
vars == <<orderVars, bracketVars>>

(* "blind": an exit was sent without a confirmed cancel;  "resold": one    *)
(* was sent against a stop that another exit, alive or filled, was sent    *)
(* against;  "rearmed": update_stp_after_fill sent a second stop.          *)
SlipKind == {"blind", "resold", "rearmed"}

NoTicket == [kind |-> "none", parent |-> NoOrder, row |-> NoRow]

Position == [entry : OrderId \cup {NoOrder},
             stop_order_id : OrderId \cup {NoOrder},
             stop_perm_id : OrderId \cup {NoOrder}]

NoPosition ==
  [entry |-> NoOrder, stop_order_id |-> NoOrder, stop_perm_id |-> NoOrder]

BracketTypeOK ==
  /\ OrdersTypeOK
  /\ ticket \in [OrderId -> [kind : {"none", "entry", "stop", "exit"},
                             parent : OrderId \cup {NoOrder},
                             row : Rows \cup {NoRow}]]
  /\ cancelling \subseteq OrderId
  /\ rowStatus \in [Rows -> {"absent", "PENDING", "EXECUTED", "PARTIAL_FILL",
                             "FAILED"}]
  /\ rowPerm \in [Rows -> OrderId \cup {NoOrder}]
  /\ positions \in Seq(Position)
  /\ failed_stp_cancels \subseteq OrderId
  /\ pc \in Places \cup {"idle"}
  /\ todo \subseteq Rows
  /\ curRow \in Rows \cup {NoRow}
  /\ confirmed \in BOOLEAN
  /\ sent \subseteq OrderId
  /\ queue \subseteq OrderId
  /\ stage \in {"verdict", "hook", "position", "backfill"}
  /\ against \in [OrderId -> OrderId \cup {NoOrder}]
  /\ unguarded \subseteq Rows
  /\ slips \subseteq SlipKind
  /\ bared \subseteq OrderId
  /\ asked \subseteq OrderId
  /\ unnoted \subseteq OrderId

(* Nothing held; or one lot held with its stop working since an earlier    *)
(* day, its row carrying the permId, or the order id alone, which another  *)
(* component may write.                                                    *)
Init ==
  /\ orders = NoView
  /\ order_errors = {}
  /\ \/ /\ positions = <<>>
        /\ nextorderId = 1
        /\ broker = [o \in OrderId |-> [state |-> "none", filled |-> 0]]
        /\ ticket = [o \in OrderId |-> NoTicket]
     \/ /\ \E perm \in {1, NoOrder} :
             positions = <<[entry |-> NoOrder, stop_order_id |-> 1,
                            stop_perm_id |-> perm]>>
        /\ nextorderId = 2
        /\ broker = [o \in OrderId |->
             [state |-> IF o = 1 THEN "working" ELSE "none", filled |-> 0]]
        /\ ticket = [o \in OrderId |->
             IF o = 1 THEN [NoTicket EXCEPT !.kind = "stop"] ELSE NoTicket]
  /\ cancelling = {}
  /\ rowStatus = [r \in Rows |-> "absent"]
  /\ rowPerm = [r \in Rows |-> NoOrder]
  /\ failed_stp_cancels = {}
  /\ pc = "idle"
  /\ todo = {}
  /\ curRow = NoRow
  /\ confirmed = FALSE
  /\ sent = {}
  /\ queue = {}
  /\ stage = "verdict"
  /\ against = [o \in OrderId |-> NoOrder]
  /\ unguarded = {}
  /\ slips = {}
  /\ bared = {}
  /\ asked = {}
  /\ unnoted = {}

-----------------------------------------------------------------------------
IsEntry(o) == ticket[o].kind = "entry"

IsStop(o) == ticket[o].kind = "stop"

IsExit(o) == ticket[o].kind = "exit"

Pending(r) == rowStatus[r] = "PENDING"

(* The first row of the asset, the one whose stop and shares are taken.    *)
Held == IF positions = <<>> THEN NoPosition ELSE positions[1]

(* Its stop, by whichever number the row carries.                          *)
StopInHand ==
  IF Held.stop_perm_id # NoOrder THEN Held.stop_perm_id ELSE Held.stop_order_id

(* _bracket_child: the stop attached to an entry.                          *)
ChildOf(p) == {c \in OrderId : ticket[c].parent = p /\ p # NoOrder}

-----------------------------------------------------------------------------
(* Faulty variants: stop with the default tif; any status but Submitted    *)
(* taken for a confirmed cancel; the order id noted, which an unresolved   *)
(* permId has not; the idempotent check left out; the parent's permId      *)
(* written back.                                                           *)
DayOrder(o) == FALSE

NoLongerSubmitted == orders[Held.stop_perm_id].status # "Submitted"

NotedId == orders[Held.stop_perm_id].permId

SkipNothing(r) == FALSE

ParentPerm(o) == orders[o].permId

-----------------------------------------------------------------------------
(* The broker (external).  TWS holds a parent that came with transmit =    *)
(* False until a child with transmit = True arrives; a child trades only   *)
(* when its parent has; a GTC order ends only on request.                  *)

(* parent.transmit = False.                                                *)
Transmitted(o) == IsEntry(o) => ChildOf(o) # {}

(* tif: GTC for the stops, DAY for everything else.                        *)
GoodTillCancelled(o) == IsStop(o)

Activated(o) ==
  LET p == ticket[o].parent IN p # NoOrder => broker[p].state = "filled"

BrokerStep ==
  /\ \E o \in OrderId :
       \/ Transmitted(o) /\ BrokerAcknowledge(o)
       \/ Activated(o) /\ BrokerFill(o)
       \/ GoodTillCancelled(o) /\ o \in cancelling /\ BrokerCancel(o)
       \/ ~GoodTillCancelled(o) /\ BrokerCancel(o)
       \/ BrokerReject(o)
  /\ UNCHANGED bracketVars

(* A parent that dies takes its child with it.                             *)
BrokerDropsChild ==
  /\ \E o \in OrderId :
       /\ Live(o)
       /\ ticket[o].parent # NoOrder
       /\ Dead(ticket[o].parent)
       /\ broker' = [broker EXCEPT ![o].state = "cancelled"]
  /\ UNCHANGED <<orders, order_errors, nextorderId, bracketVars>>

(* The order _process_results is at: exits first, then entries, as they    *)
(* were submitted.                                                         *)
AtOrder(o) ==
  /\ pc = "process"
  /\ o \in queue
  /\ \A p \in queue : o <= p

(* The orders whose record the main thread is about to read.  Of an order  *)
(* of an earlier session TWS sends something only while it is open or once *)
(* it has shown up; it may withhold any of them.                           *)
ReadOrders ==
  CASE pc \in {"resolve", "retry", "confirm"} ->
         {o \in {Held.stop_perm_id} :
            Live(o) \/ orders[o].status # "absent"}
    [] pc = "persist" -> queue
    [] pc = "process" ->
         UNION {IF stage = "verdict" THEN {o} ELSE ChildOf(o) :
                  o \in {p \in queue : AtOrder(p)}}
    [] OTHER -> {}

(* The reader thread; a callback about any other order changes nothing     *)
(* that is ever used.                                                      *)
Reader ==
  /\ ReaderNext(ReadOrders)
  /\ UNCHANGED bracketVars

-----------------------------------------------------------------------------
(* placeOrder of an order with the given ticket.                           *)
Send(t) ==
  /\ PlaceOrder
  /\ ticket' = [ticket EXCEPT ![nextorderId] = t]

(* The strategy appends a row while no session runs.                       *)
AppendSignal(r) ==
  /\ pc = "idle"
  /\ rowStatus[r] = "absent"
  /\ rowStatus' = [rowStatus EXCEPT ![r] = "PENDING"]
  /\ UNCHANGED <<outsideVars, rowPerm, positions, cancelVars, pc, rowVars,
                 bookVars, historyVars>>

(* Two orders for an entry, one for an exit.                               *)
OrdersNeeded(live) ==
  Cardinality(live) + Cardinality({r \in live : ActionOf[r] = "BUY"})

(* run(): connect, get_all_open_orders_sync (the reader is on from here),  *)
(* load the PENDING rows that are not stale.  The guard is the bound.      *)
StartSession ==
  /\ pc = "idle"
  /\ \E live \in SUBSET {r \in Rows : Pending(r)} \ {{}} :
       /\ nextorderId + OrdersNeeded(live) <= MaxOrders + 1
       /\ todo' = live
  /\ pc' = "exits"
  /\ UNCHANGED <<outsideVars, fileVars, cancelVars, curRow, bookVars,
                 historyVars>>

(* The `continue`s: an exit without a position has nothing to cancel, and  *)
(* no shares to sell unless its row names them; an entry may be submitted  *)
(* already, have no contract or no shares.                                 *)
SkipRow(r) ==
  /\ r \in todo
  /\ \/ pc = "exits" /\ ActionOf[r] = "SELL" /\ positions = <<>>
     \/ pc = "entries"
  /\ todo' = todo \ {r}
  /\ UNCHANGED <<outsideVars, fileVars, cancelVars, pc, curRow, bookVars,
                 historyVars>>

(* What the end of the process leaves: the files and the broker.           *)
Forget ==
  /\ pc' = "idle"
  /\ todo' = {}
  /\ curRow' = NoRow
  /\ confirmed' = FALSE
  /\ sent' = {}
  /\ queue' = {}
  /\ stage' = "verdict"
  /\ failed_stp_cancels' = {}
  /\ asked' = {}
  /\ unnoted' = {}
  /\ orders' = NoView
  /\ order_errors' = {}
  /\ unguarded' = unguarded \cup
       {r \in Rows : /\ Pending(r)
                     /\ rowPerm[r] = NoOrder
                     /\ \E o \in OrderId : /\ ticket[o].row = r
                                           /\ IsEntry(o) /\ Transmitted(o)
                                           /\ ~Dead(o)}
  /\ UNCHANGED <<broker, nextorderId, ticket, cancelling, fileVars, against, slips>>

-----------------------------------------------------------------------------
(* Phase 1: _execute_exits, _cancel_stp_for_exit, cancel_stop_order.       *)

(* _cancel_stp_for_exit: no position, or no stop in its row; a permId to   *)
(* be resolved; or the order id alone, cancelled on the spot unless        *)
(* cancelOrder raises, with nothing confirmed and nothing noted.           *)
BeginExit(r) ==
  /\ pc = "exits"
  /\ r \in todo
  /\ ActionOf[r] = "SELL"
  /\ todo' = todo \ {r}
  /\ curRow' = r
  /\ confirmed' = FALSE
  /\ asked' = asked \cup ({StopInHand} \ {NoOrder})
  /\ IF Held.stop_perm_id # NoOrder
       THEN pc' = "resolve" /\ UNCHANGED <<cancelling, unnoted>>
       ELSE /\ pc' = "sell"
            /\ unnoted' = unnoted \cup ({StopInHand} \ {NoOrder})
            /\ \/ UNCHANGED cancelling
               \/ /\ Held.stop_order_id # NoOrder
                  /\ cancelling' = cancelling \cup {Held.stop_order_id}
  /\ UNCHANGED <<orderVars, ticket, fileVars, failed_stp_cancels, bookVars,
                 against, unguarded, slips, bared>>

(* perm_id_map: filled by every callback that carries the permId.          *)
Resolved == orders[Held.stop_perm_id].permId # 0

CancelStep ==
  UNCHANGED <<orderVars, ticket, fileVars, rowVars, bookVars, historyVars>>

(* Not in the map: get_all_open_orders_sync, then one more look.           *)
RefreshOpenOrders ==
  /\ pc = "resolve"
  /\ ~Resolved
  /\ pc' = "retry"
  /\ UNCHANGED <<cancelling, cancelVars>>
  /\ CancelStep

CancelStop ==
  /\ pc \in {"resolve", "retry"}
  /\ Resolved
  /\ cancelling' = cancelling \cup {Held.stop_perm_id}
  /\ pc' = "confirm"
  /\ UNCHANGED cancelVars
  /\ CancelStep

StopIsCancelled ==
  orders[Held.stop_perm_id].status \in {"Cancelled", "ApiCancelled"}

CancelConfirmed ==
  /\ pc = "confirm"
  /\ StopIsCancelled
  /\ confirmed' = TRUE
  /\ pc' = "sell"
  /\ UNCHANGED <<cancelling, failed_stp_cancels>>
  /\ CancelStep

(* "unresolvable", the text of an exception of cancelOrder, "timeout": the *)
(* permId is noted and False returned.                                     *)
NotedPermId == Held.stop_perm_id

CancelUnconfirmed ==
  /\ \/ pc = "retry" /\ ~Resolved
     \/ pc \in {"resolve", "retry"} /\ Resolved
     \/ pc = "confirm" /\ ~StopIsCancelled
  /\ failed_stp_cancels' = failed_stp_cancels \cup {NotedPermId}
  /\ pc' = "sell"
  /\ UNCHANGED <<cancelling, confirmed>>
  /\ CancelStep

(* Another exit was sent against the same stop: its lot is sold or on sale.*)
StopIsSpent ==
  /\ StopInHand # NoOrder
  /\ \E x \in OrderId : against[x] = StopInHand /\ ~Dead(x)

(* The exit goes out, with the result of the cancel not looked at.         *)
SendExit ==
  /\ pc = "sell"
  /\ Send([kind |-> "exit", parent |-> NoOrder, row |-> curRow])
  /\ sent' = sent \cup {nextorderId}
  /\ against' = [against EXCEPT ![nextorderId] = StopInHand]
  /\ slips' = slips \cup (IF confirmed THEN {} ELSE {"blind"})
                    \cup (IF StopIsSpent THEN {"resold"} ELSE {})
  /\ pc' = "exits"
  /\ curRow' = NoRow
  /\ UNCHANGED <<cancelling, fileVars, cancelVars, todo, queue, stage,
                 unguarded, bared, askVars>>

(* The stop of the exit in hand, if it was asked to go.                    *)
CutShort ==
  IF pc \in {"confirm", "sell"} THEN {StopInHand} \cap cancelling ELSE {}

(* The contract is not resolved, the shares are missing or every tier of   *)
(* the router refuses: the row is left, the cancel stands.                 *)
DropExit ==
  /\ pc = "sell"
  /\ bared' = bared \cup CutShort
  /\ pc' = "exits"
  /\ curRow' = NoRow
  /\ UNCHANGED <<outsideVars, fileVars, cancelVars, todo, bookVars, against,
                 unguarded, slips, askVars>>

EndExits ==
  /\ pc = "exits"
  /\ \A r \in todo : ActionOf[r] = "BUY"
  /\ pc' = "entries"
  /\ UNCHANGED <<outsideVars, fileVars, cancelVars, rowVars, bookVars,
                 historyVars>>

-----------------------------------------------------------------------------
(* Phase 2: _execute_entries with submit_bracket_entry, and                *)
(* _persist_entry_perm_ids.                                                *)

AlreadySubmitted(r) == rowPerm[r] # NoOrder

PlaceParent(r) ==
  /\ pc = "entries"
  /\ r \in todo
  /\ ~AlreadySubmitted(r)
  /\ Send([kind |-> "entry", parent |-> NoOrder, row |-> r])
  /\ todo' = todo \ {r}
  /\ curRow' = r
  /\ pc' = "child"
  /\ UNCHANGED <<cancelling, fileVars, cancelVars, bookVars, historyVars>>

(* The child carries parentId and the row's orderRef; nobody looks whether *)
(* either of the two is refused.                                           *)
PlaceChild ==
  /\ pc = "child"
  /\ LET parent == nextorderId - 1 IN
       /\ Send([kind |-> "stop", parent |-> parent, row |-> curRow])
       /\ sent' = sent \cup {parent}
  /\ pc' = "entries"
  /\ curRow' = NoRow
  /\ UNCHANGED <<cancelling, fileVars, cancelVars, todo, queue, stage,
                 historyVars>>

EndEntries ==
  /\ pc = "entries"
  /\ todo = {}
  /\ pc' = "persist"
  /\ queue' = {o \in sent : IsEntry(o)}
  /\ UNCHANGED <<outsideVars, fileVars, cancelVars, rowVars, sent, stage,
                 historyVars>>

(* _persist_pending_perm: every PENDING row of the asset.                  *)
PersistPendingPerm(perm) ==
  rowPerm' = [r \in Rows |-> IF Pending(r) THEN perm ELSE rowPerm[r]]

PersistPerm(o) ==
  /\ pc = "persist"
  /\ o \in queue
  /\ orders[o].permId > 0
  /\ PersistPendingPerm(orders[o].permId)
  /\ queue' = queue \ {o}
  /\ UNCHANGED <<outsideVars, rowStatus, positions, cancelVars, pc, rowVars,
                 sent, stage, historyVars>>

(* Everything persisted, or three seconds over; the monitor returns.       *)
EndPersist ==
  /\ pc = "persist"
  /\ pc' = "process"
  /\ queue' = sent
  /\ UNCHANGED <<outsideVars, fileVars, cancelVars, rowVars, sent, stage,
                 historyVars>>

-----------------------------------------------------------------------------
(* _process_results.                                                       *)

(* The three kinds of verdict FillMonitor gives.                           *)
IsFilled(o) == orders[o].status = "Filled"

IsDead(o) == orders[o].status \in EndStatus \/ HasOrderErrors(o)

TimedOut(o) == ~IsFilled(o) /\ ~IsDead(o)

(* _update_signal_status: every PENDING row of the asset.                  *)
UpdateSignalStatus(s) ==
  rowStatus' = [r \in Rows |-> IF Pending(r) THEN s ELSE rowStatus[r]]

BookingStep ==
  UNCHANGED <<cancelling, cancelVars, pc, rowVars, sent, historyVars>>

(* _remove_position: every row of the asset.                               *)
RemovePosition(o) ==
  /\ AtOrder(o) /\ IsExit(o) /\ IsFilled(o)
  /\ stage = "verdict"
  /\ positions' = <<>>
  /\ stage' = "backfill"
  /\ UNCHANGED <<orderVars, ticket, rowStatus, rowPerm, queue>>
  /\ BookingStep

(* on_entry_fill of a strategy that calls update_stp_after_fill: the old   *)
(* stop is asked to go, unless cancelOrder raises, and a second one sent   *)
(* without waiting for it.                                                 *)
UpdateStpAfterFill(o) ==
  /\ AtOrder(o) /\ IsEntry(o) /\ IsFilled(o)
  /\ stage = "verdict"
  /\ Send([NoTicket EXCEPT !.kind = "stop"])
  /\ \/ /\ cancelling' = cancelling \cup ChildOf(o)
        /\ bared' = bared \cup ChildOf(o)
     \/ UNCHANGED <<cancelling, bared>>
  /\ asked' = asked \cup ChildOf(o)
  /\ unnoted' = unnoted \cup ChildOf(o)
  /\ slips' = slips \cup {"rearmed"}
  /\ stage' = "hook"
  /\ UNCHANGED <<fileVars, cancelVars, pc, rowVars, sent, queue, against,
                 unguarded>>

AddPosition(o) ==
  /\ AtOrder(o) /\ IsEntry(o) /\ IsFilled(o)
  /\ stage \in {"verdict", "hook"}
  /\ positions' = Append(positions, [entry |-> o, stop_order_id |-> NoOrder,
                                     stop_perm_id |-> NoOrder])
  /\ stage' = "position"
  /\ UNCHANGED <<orderVars, ticket, rowStatus, rowPerm, queue>>
  /\ BookingStep

(* _backfill_bracket_stp: the child's permId, if it is known by now, into  *)
(* every row of the asset.                                                 *)
BackfilledPerm(o) == orders[CHOOSE c \in ChildOf(o) : TRUE].permId

BackfillBracketStp(o) ==
  /\ AtOrder(o)
  /\ stage = "position"
  /\ LET perm == BackfilledPerm(o) IN
       positions' = IF perm > 0
                      THEN [i \in DOMAIN positions |->
                              [positions[i] EXCEPT !.stop_order_id = perm,
                                                   !.stop_perm_id = perm]]
                      ELSE positions
  /\ stage' = "backfill"
  /\ UNCHANGED <<orderVars, ticket, rowStatus, rowPerm, queue>>
  /\ BookingStep

MarkExecuted(o) ==
  /\ AtOrder(o)
  /\ stage = "backfill"
  /\ UpdateSignalStatus("EXECUTED")
  /\ stage' = "verdict"
  /\ queue' = queue \ {o}
  /\ UNCHANGED <<orderVars, ticket, rowPerm, positions>>
  /\ BookingStep

(* Dead: FAILED.  Timed out: an exit is PARTIAL_FILL, an entry stays       *)
(* PENDING and gets its permId if that is known.                           *)
SettleUnfilled(o) ==
  /\ AtOrder(o) /\ ~IsFilled(o)
  /\ stage = "verdict"
  /\ \/ IsDead(o) /\ UpdateSignalStatus("FAILED") /\ UNCHANGED rowPerm
     \/ /\ TimedOut(o) /\ IsExit(o)
        /\ UpdateSignalStatus("PARTIAL_FILL")
        /\ UNCHANGED rowPerm
     \/ /\ TimedOut(o) /\ IsEntry(o)
        /\ IF orders[o].permId > 0 THEN PersistPendingPerm(orders[o].permId)
                                   ELSE UNCHANGED rowPerm
        /\ UNCHANGED rowStatus
  /\ queue' = queue \ {o}
  /\ UNCHANGED <<orderVars, ticket, positions, stage>>
  /\ BookingStep

(* report_failed_cancels, the last statement of the try block.             *)
Finish ==
  /\ pc = "process"
  /\ queue = {}
  /\ UNCHANGED bared
  /\ Forget

(* The end comes before report_failed_cancels.                             *)
Abort ==
  /\ bared' = bared \cup CutShort
  /\ Forget

(* The process is killed, or run() catches an exception.                   *)
Kill == pc \in KillAt /\ Abort

(* An empty stop_perm_id beside a stop_order_id is a NaN and not a 0: it   *)
(* passes for true and int() of it raises, which ends the session.         *)
EmptyPermRaises ==
  /\ pc = "exits"
  /\ \E r \in todo : ActionOf[r] = "SELL"
  /\ Held.stop_order_id # NoOrder
  /\ Held.stop_perm_id = NoOrder
  /\ Abort

-----------------------------------------------------------------------------
Main ==
  \/ \E r \in Rows : SkipRow(r) \/ BeginExit(r) \/ PlaceParent(r)
  \/ RefreshOpenOrders
  \/ CancelStop
  \/ CancelConfirmed
  \/ CancelUnconfirmed
  \/ SendExit
  \/ DropExit
  \/ EndExits
  \/ PlaceChild
  \/ EndEntries
  \/ EndPersist
  \/ \E o \in OrderId : \/ PersistPerm(o) \/ RemovePosition(o)
                        \/ UpdateStpAfterFill(o) \/ AddPosition(o)
                        \/ BackfillBracketStp(o) \/ MarkExecuted(o)
                        \/ SettleUnfilled(o)
  \/ Finish

Next ==
  \/ \E r \in Rows : AppendSignal(r)
  \/ StartSession
  \/ Main
  \/ Kill
  \/ EmptyPermRaises
  \/ BrokerStep
  \/ BrokerDropsChild
  \/ Reader

Spec == Init /\ [][Next]_vars

-----------------------------------------------------------------------------
(* Properties.                                                             *)

Filled(o) == broker[o].state = "filled"

FilledOf(kind) == {o \in OrderId : ticket[o].kind = kind /\ Filled(o)}

(* Lots held at the broker: the one at the start, if there is one, what    *)
(* entries have bought, less what exits and stops have sold.               *)
Net ==
  (IF IsStop(1) THEN 1 ELSE 0) + Cardinality(FilledOf("entry"))
    - Cardinality(FilledOf("exit")) - Cardinality(FilledOf("stop"))

(* Why a stop may have been cancelled: for the exit in hand;  for one that *)
(* was sent;  with no exit after it, by a drop, a kill or an update.       *)
GivenUp(s) ==
  \/ pc \in {"confirm", "sell"} /\ StopInHand = s
  \/ \E x \in OrderId : against[x] = s
  \/ s \in bared

(* What becomes of a stop that is sent.  One that TWS refuses is not       *)
(* missed by anybody.                                                      *)
Kept(s) ==
  Live(s) \/ Filled(s) \/ broker[s].state = "rejected" \/ GivenUp(s)

(* A lot keeps its stop, over all sessions and kills: a filled entry has   *)
(* one, and neither that one, nor the stop of the lot held at the start,   *)
(* nor one that replaced it goes, but by selling the lot, by a refusal of  *)
(* TWS, or for an exit or a slip of its own.                               *)
LotKeepsStop ==
  /\ \A p \in OrderId :
       IsEntry(p) /\ Filled(p) => \E c \in ChildOf(p) : IsStop(c) /\ Kept(c)
  /\ \A s \in OrderId :
       IsStop(s) /\ ticket[s].parent = NoOrder => Kept(s)

(* The position is never sold twice, over all sessions and kills, unless   *)
(* an exit was sent although its cancel was not confirmed, or against a    *)
(* stop another exit had used up, or a second stop was sent: a confirmed   *)
(* cancel is one, and a stop stands for one lot.                           *)
NeverShort ==
  Net >= 0 \/ slips \cap {"blind", "resold", "rearmed"} # {}

(* Of every stop the session has set out to cancel: it is cancelled, or    *)
(* the cancel is being made or waited for, or it is on the list the        *)
(* operator gets at the end of the session, if the session gets there;     *)
(* but for a cancel by the order id alone, and update_stp_after_fill's.    *)
UnconfirmedIsReported ==
  \A s \in asked \ unnoted :
    \/ broker[s].state = "cancelled"
    \/ pc \in {"resolve", "retry", "confirm"} /\ StopInHand = s
    \/ s \in failed_stp_cancels

(* Whatever is killed, a row has one entry that can trade, unless a        *)
(* session died or ended with an entry alive and no permId in the row.     *)
OneEntryPerRow ==
  \A r \in Rows \ unguarded :
    Cardinality({o \in OrderId : /\ ticket[o].row = r
                                 /\ IsEntry(o) /\ Transmitted(o)
                                 /\ ~Dead(o)}) <= 1

(* The permId in a position's row is that of an active stop, sent with the *)
(* row's own entry or a later one: never the permId of the entry itself,   *)
(* which the row holds as well.                                            *)
RecordedStopIsStop ==
  \A i \in DOMAIN positions :
    LET s == positions[i].stop_perm_id
    IN  s # NoOrder => IsStop(s) /\ Activated(s) /\ s > positions[i].entry

-----------------------------------------------------------------------------
(* "Cancel existing STP order before selling position": refuted.           *)
NeverBothArmed ==
  \A x \in OrderId :
    IsExit(x) /\ Live(x) /\ against[x] # NoOrder => ~Live(against[x])

=============================================================================
