# A TLA+ verification of ibkr-framework

`src/ibkr` trades a file of signals through Interactive Brokers: it connects to
TWS, submits exits and entries, watches the orders and writes the outcome back to
CSV files. This directory holds TLA+ modules that model the program, TLC
configurations that check them, and TLAPS proofs. All paths below are relative
to `src/ibkr` unless they say otherwise.

1. [The system](#1-the-system)
2. [Modules and the code they model](#2-modules-and-the-code-they-model)
3. [Runs](#3-runs)
4. [Fairness](#4-fairness)
5. [Proofs](#5-proofs)
6. [Where code and documentation disagree](#6-where-code-and-documentation-disagree)
7. [What is not modelled](#7-what-is-not-modelled)
8. [Plan](#8-plan)

---

## 1. The system

Two threads share one `ConnectionManager`. The **main thread** runs
`BaseExecutor.run()` and blocks in sleeps and in waits with a timeout. A **reader
thread** (one for each connection attempt) runs `EClient.run()` and dispatches
callbacks, which write dictionaries the main thread polls. There is no lock
around those dictionaries; the one lock of the program guards `disconnect()`.
**TWS** holds the orders and outlives everything. The **CSV files** outlive the
process and are all a later session knows.

```
  pending_signals.csv   active_positions.csv   closed_trades.csv
          |  load, persist permId, settle           ^
          v                                         | book
  +------------------- BaseExecutor.run (main thread) -------------------+
  |  hold guard > connect > refresh id > exits > entries > persist >     |
  |  monitor > process results > disconnect                              |
  +------+------------------------+------------------------+-------------+
         | submit_with_fallback   | monitor_all            | connect / disconnect
         v                        v                        v
  SmartRouter / BracketBuilder  FillMonitor         ConnectionManager
         | placeOrder,            | orders, order_errors   | orders, order_errors,
         | cancelOrder            | (polled)               | nextorderId, events
         v                        v                        ^ callbacks (reader thread)
  ------------------------------- TWS --------------------------------------
```

| Component | State it keeps | Operations | What makes it hard | What makes it correct |
|---|---|---|---|---|
| Order tracking, `core/connection.py` | `orders`, `order_errors` | callbacks `orderStatus`, `openOrder`, `error` in two wire formats; readers `get_order_status`, `has_order_errors` | callbacks come late, in any order with respect to the main thread's looks, and from another thread | the record may lag behind the broker but never contradicts it |
| Order ids, `core/connection.py` | `nextorderId`, `_connected_event` | `next_order_id`, `refresh_order_id`, callback `nextValidId` | read and write of the counter are two steps; a refresh may be answered after its timeout | no order id is used twice |
| Connection, `core/connection.py` | `connected`, `_disconnecting`, `_disconnect_lock`, the `EClient` underneath | `connect_with_retry`, `disconnect`, `_safe_disconnect`, `disconnect_gracefully`, `connectionClosed`, `_run_reader` | main thread and reader both tear down; a retry reuses event, id and flags | no use of a reset connection, ready only with an id, everything ends closed |
| SmartRouter, `execution/order_router.py` | the tier of a call | `submit_with_fallback` | it decides 1.5 s after `placeOrder` whether the order was refused | it never leaves two living orders behind one call |
| FillMonitor, `execution/fill_monitor.py` | pending orders, results | `monitor_all` | the record changes between any two reads; the clock runs out in the middle | verdicts are true and stay true, none is missing, the call returns |
| BaseExecutor, `execution/base_executor.py` | signal rows, positions, closed trades; order ids of the session | `run` and its phases | kills between writes, re-runs, permIds that come late, rows found by asset | what the files say happened did happen; no row is bought twice |
| BracketBuilder, `execution/bracket.py` | `failed_stp_cancels`; the executor's `_bracket_child`, the stop columns of the position file | `submit_bracket_entry`, `cancel_stop_order`, `update_stp_after_fill`, `report_failed_cancels` | two orders that must live and die together; a cancel that is asked for and not awaited; permIds that come late | a lot loses its stop only by a sale, a refusal of TWS or an exit of its own; it is not sold twice; a cancel that was not confirmed is reported |
| Synchronous requests, `core/connection.py` | result buffers and events | clear, request, wait with a timeout; callbacks append and set | callbacks do not look at the request id: a late answer of one request ends the next | an answer belongs to its request; a call returns |
| Contracts, `core/contracts.py` | conId cache, tick-table cache | `resolve_conid`, `get_tick_table`, `get_tick_size`, `round_to_tick` | a late answer is cached for the wrong contract; a rounded price may fall into another band | the caches are right; a price is one the exchange accepts |
| Errors, `core/errors.py` | none | `classify` | | refusals and cancellations are recognised |

Order builders, configuration, logging, the price patch and the examples have no
state of their own. `PROJECT.json` lists every component with its status and, under
`hazards`, every place where the code can go wrong in a way a unit test would
hardly reach, with the properties that watch it.

---

## 2. Modules and the code they model

`PROJECT.json` maps every definition to the lines it stands for.

```
              Orders                      OrderIds   Ticks     Connection
            /        \                          \     /
    SmartRouter   FillMonitor                  Requests --- MCRequests
      :     \        /    :
  OrderCall  Executor   OrderVerdicts          Orders <--- Bracket --- MCBracket
                :    \
              Ledger  MCExecutor

  a dotted line leads from a module to the specification it implements

  proofs: OrdersProofs < SmartRouterProofs, FillMonitorProofs < ExecutorProofs
          < LedgerProofs;  OrdersProofs < BracketProofs;  RequestsProofs;
          ConnectionProofs
```

**Orders.** `broker` is TWS: for each order id a state (`sent`, `working`,
`filled`, `cancelled`, `rejected`) and the shares traded. It is external, inferred
from the statuses and error codes that `src/` tests. `orders` and `order_errors`
are the dictionaries of the same names, `nextorderId` the counter. Each callback is an action:
`OrderStatus` overwrites the record, `OpenOrder` creates the key and writes the permId
but never a status, `ErrorCancelled` (code 202) marks only a key that exists, `ErrorRejected`
(codes of `ORDER_REJECTION_CODES`) adds to `order_errors`. A callback carries
the broker's state at the moment it is dispatched. It may be dispatched at any time or
never, so the record is as stale as any sequence of late callbacks can make it, but a
message overtaken by a newer one before either is dispatched is not
distinguished from its absence. Two details of the data are folded: statuses that the
code treats alike (`PreSubmitted`, `PendingSubmit`, `Submitted`) are `Submitted`.
`ApiCancelled` is a status of its own, because the code does not treat it as `Cancelled` everywhere: the monitor and
`cancel_stop_order` take it for an end (`EndStatus`), the router does not take it for a refusal (`execution/order_router.py:94`). A permId is named by the order id it belongs to; 0 is "not known yet".
Two conventions of the broker are assumed: an order is refused only before it has traded, and
a terminal state is final.

**SmartRouter.** One action for each place where the loop of `submit_with_fallback`
reads or writes something shared: `RouterPlace` (take an id and `placeOrder`), then, after
the sleep, `RouterTryNext`, `RouterGiveUp` or `RouterAccept`. The tiers differ in exchange
and order type, which changes nothing in this control, so a tier is a number.
The module can run alone under a caller that submits again and again, or be
driven by `Executor`.

**OrderCall.** What a caller of `submit_with_fallback` may rely on, without tiers and callbacks: the orders of a call are
placed one at a time, the next only when the one before is dead; `None` means that all are dead; an id names the one order that
may trade or has filled. `SmartRouter!ImplementsOrderCall` is the refinement: `Alive` is the set of orders of the call that
TWS has neither refused nor cancelled, `Answer` what has been returned. It says "one order", not "one quantity": what an
order traded before it was cancelled is outside the contract, and the run `router_overfill` shows why.

**FillMonitor.** `MonitorPoll(o)` is the loop body for one order, its branches in the order
of the code; callbacks interleave between any two orders. `MonitorTimeout` is the
`while` condition becoming false, possible at the head of every pass: how long a
pass takes is left open. `MonitorFinal(o)` is the loop after it, which looks at the filled quantity
only. Status and errors of one order are read at one moment; reading them apart would
only change which of two refusal verdicts is given, and the executor treats them alike. The wait for
a commission, up to two seconds, changes an amount and no decision; it is left out.

**OrderVerdicts.** What a caller of `monitor_all` may rely on, without polls, passes and a clock: every order it hands over
gets one verdict, which is true of the broker at that moment and is not rewritten, and the call returns when all have theirs.
`FillMonitor!ImplementsVerdicts` is the refinement. `Told` folds the three words for a dead order into one. The contract gives a dead
order the quantity 0, as the code does, whatever has traded (section 6).

**OrderIds.** `next_order_id` is a read and a write because the reader
thread may store an id between them. The socket is first-in first-out in both directions,
so an answer's value is fixed by the orders TWS has received before the
request: `answers` holds the values on their way. `UseForRequest` is an id taken for a
request: TWS does not count it and the next answer may fall back behind it.

**Connection.** The threads of `ConnectionManager` from `connect_with_retry` to
`disconnect_gracefully`. `disconnect()` is four steps (mark, check, close,
reset), taken by the main thread or a reader, under the lock.
`EClient` is not in the repository: what its `connect`, `run` and `disconnect` do is taken from
the docstrings of `disconnect` and `_run_reader` and from
`tests/test_connection_disconnect_race.py`. `OldReadersGone` guards a retry by the end of
the previous reader: the sleep before a retry is at least two seconds, a reader
looks at the connection at least every 0.2 s. That is an assumption about time
and the only one in this module.

**Executor.** Composes `Orders`, `SmartRouter` and `FillMonitor` under `BaseExecutor.run()` for a
single-leg strategy. `rowStatus`, `rowPerm`, `positions` and `closed` are the CSV
files; each write of a file is one action, so a kill can come between any two.
`EndSession` is what the end of a process leaves: files and broker stay, the rest is reset.
`Kill` is that in the middle of a phase, by a signal or by an exception `run()` catches.
How names correspond:

| Model | Code |
|---|---|
| `StartSession`, `MayLoad` | `run` up to the loading of the rows; `load_signals` (rows may be dropped as stale) |
| `SubmitExit`, `SubmitEntry`, `SkipRow` | the bodies of `_execute_exits`, `_execute_entries` and their `continue`s |
| `PlaceForRow`, `CheckTier`, `RecordSubmission` | `submit_with_fallback` called for the row |
| `PersistCheck`, `PersistNextPass` | `_persist_entry_perm_ids` |
| `StartMonitor`, `MonitorOrders`, `EndMonitor` | `monitor_all` in `run` |
| `BookPosition`, `BookExecuted`, `WriteClosedTrade`, `SettleUnfilled` | `_process_results`, write by write |
| `UpdateSignalStatus`, `PersistPendingPerm` | the CSV writers, which find rows by asset and `PENDING` |

`owner` records the row an order was placed for; the code has it in `orderRef` and
in the tuples of `entry_order_ids`. `unguarded` is a history variable: rows that a session left `PENDING`
with a living order and no permId in the file. For those rows the code offers no
protection, and the properties that speak of double orders exempt exactly them. `removals` is another: it counts how
often rows of an asset were dropped from the position file, so that `LedgerSound` can hold a lost row against a sale. `ReadOrders`
limits callbacks to orders whose record the session may still read; a callback about any other order
changes entries nobody reads until the process ends and drops them. `CallsKeepContract` and `VerdictsKeepContract` say that
inside `run()` router and monitor implement their contracts, on whatever orders the session has, and that only
`EndSession` cuts a call short; no run repeats them, as the two components' own runs check the contracts. A session that is on hold, fails to connect
or loads nothing changes no file and is not a step.

**Ledger.** What the executor promises to a reader of its files, without sessions: a row is traded, then
the position is written, then the row is settled, then the closed trade is recorded, each in one write
for one row. `Executor!ImplementsLedger` is the refinement: `traded` is the set of rows with an order
filled in full at the broker, the other variables are the files. It holds when no two rows share an asset.

**Bracket.** `BracketBuilder` and the branches of `run()` for a strategy with stops, on top of `Orders`; one asset.
`ticket` says what an order at TWS is: entry, stop or exit, its parent, the row its `orderRef` names.
TWS holds an entry until its child comes, activates the child when the parent
is filled and drops it when the parent dies; all of that is external. What `Executor` has in detail is
one step here: an exit is the one order the router returns, and a verdict is what the
record shows when it is booked, which is later than what the monitor saw and so no stronger.

| Model | Code |
|---|---|
| `AppendSignal` | the signal generator: rows appear between sessions |
| `BeginExit` | `_cancel_stp_for_exit`: the first row of the asset, its stop by permId or by order id |
| `RefreshOpenOrders`, `CancelStop`, `CancelConfirmed`, `CancelUnconfirmed` | `cancel_stop_order`, exit by exit of the function |
| `SendExit`, `DropExit` | the rest of the body of `_execute_exits` |
| `PlaceParent`, `PlaceChild` | `submit_bracket_entry`, one `placeOrder` each |
| `RemovePosition`, `UpdateStpAfterFill`, `AddPosition`, `BackfillBracketStp`, `MarkExecuted`, `SettleUnfilled` | `_process_results`; `update_stp_after_fill` is called by an `on_entry_fill` that chooses to |

`Init` is a strategy that holds nothing or one lot from an earlier day with its stop working; the row of that
lot has the permId, or the order id alone, which the code provides for. `StopInHand` is that stop, by whichever number the row has.
With the order id alone there are two outcomes: `BeginExit` cancels on the spot, confirms nothing and notes nothing; or, when the
empty permId is a NaN, `int(perm_id)` raises and the session ends (`EmptyPermRaises`). `Abort` is the end
of a session before `report_failed_cancels`, which that and `Kill` have in common.

Six history variables let the properties say what is true, and of what:

- `against`: the stop an exit was sent against (`StopInHand` at that moment).
- `slips`: what sessions have let happen that the code does nothing against. "blind": an exit was sent without a confirmed cancel, which
  includes an exit of a row that names its own shares and has no position behind it. "resold": an exit was sent against a stop that
  another exit, alive or filled, had been sent against: the same row in a later session, or a second row of the asset. "rearmed":
  a second stop was sent after the fill.
- `bared`: the stops that were asked to go with no exit sent for them, by a dropped exit, by a session cut short, or by
  `update_stp_after_fill`. `GivenUp` is such a stop, the stop of the exit in hand, or one an exit was sent against.
- `asked` and `unnoted`: the stops this session has set out to cancel, and those of them whose failure the code would not note
  (by order id alone, and those of `update_stp_after_fill`).
- `unguarded`, as in `Executor`.

A child that TWS refuses stays refused: no place in the code looks at the child of a bracket, so `Kept` names that as
an end of a stop.

**Requests.** `get_contract_details_sync` and `get_market_rule_sync`, and the two caches behind them, on top of
`OrderIds`, whose counter they share with the orders. `wire` holds the answers under way, in the order they were asked for.
A callback appends to the one buffer and sets the one event, whoever asked; `overdue` records that a
request has given up with its answer still under way, which is when that begins to matter. `DetailsTimeOut` uses what
the buffer holds, as the code does. A market rule is a tick table; the rule names it. A rule TWS does not
answer for is in `silent`. `marketRule` stores the table and then sets the event;
the wait can end between the two, so they are two messages on `wire`, as the details and their end are. `Resolve` leaves out the table
of manual conIds (`core/contracts.py:120`), which answers without a request, and takes several
`contractDetails` of one answer for one, as the code uses the first.

**Ticks.** `get_tick_size`, `round_to_tick` and `calculate_stop_price` as functions of whole numbers, and what is
assumed of the tables exchanges publish (`Published`): bands from zero up, and an edge is a price of both
bands it parts. The code sorts nothing, so the order is an assumption about TWS.
`Requests` uses the tables as market rules.

**MCExecutor**, **MCBracket** and **MCRequests** give rows, assets, contracts and tables their values for TLC.

---

## 3. Runs

A name in **bold** is a run; "V" marks a run that must end in a violation (section 6).

| Run | Instance | Question |
|---|---|---|
| **router** | 4 tiers, 4 orders (one call through all tiers), 2 shares | Can the router give up an order that still trades (`GivenUpIsDead`)? Does the local record ever contradict the broker (`ViewSound`)? Does a call look like one order to its caller (`ImplementsOrderCall`)? Does it return (`CallReturns`)? |
| **router_overfill** V | same | Can one call buy more than it was asked for (`NeverOverfilled`)? |
| **monitor** | 2 orders, 2 shares | Is a verdict ever contradicted (`VerdictSound`), an order dropped (`EveryOrderJudged`), a verdict rewritten (`ImplementsVerdicts`)? Does the call return (`MonitorReturns`)? |
| **requests** | 2 contracts, 3 market rules, 2 ids, 2 messages on their way; 9 fills, 8 stop losses | Is an id used twice while refreshes are answered in time (`UniqueOrderIds`), or used for a request and an order (`NoSharedIds`)? Does a cache take what belongs to another contract (`ResolvedIsOwn`), or a table finer than one it was shown (`TickTableIsCoarsest`)? Does a call return (`CallReturns`)? Is a stop price accepted (`StopsConform`), and the same however its loss is written (`PercentIsFraction`)? |
| **order_ids_late** V | 5 ids, 2 answers on their way | And if a refresh is answered late (`NoDuplicateOrderId`)? |
| **connection** | 3 attempts | Do teardowns collide (`NoneIsNeverUsed`), is a stale event or id taken for a new one (`ReadyHasId`), does a teardown look like a fault (`TeardownIsQuiet`), does everything end closed (`EventuallyTornDown`)? |
| **reader_fault** V | 1 attempt | Does a fault of the reader stay visible (`FaultsStayVisible`)? |
| **executor_sessions** | one row to sell, one to buy, 3 orders, killed in any phase | Do files and broker agree over all sessions: `ExecutedIsBooked`, `LedgerSound`, `ClosedIsSettled`, `FailedIsDead`, `OneOrderPerRow`, `PersistedIsNewest`? Do the files implement the ledger (`ImplementsLedger`)? |
| **executor_entries** | two rows to buy, 2 shares each, killed in two phases | Are the writes for one row ever made to the other, or made for a partial fill (`ExecutedIsFilled`)? Does the session end (`SessionEnds`)? |
| **timeout_resubmit** V | one row to buy, no kill | Can a row be bought twice without any kill (`OneEntryPerRow`)? |
| **bracket** | one row to buy, one to sell, 4 orders, with or without a lot held at the start, killed in two places | Does a lot, bought or held at the start, keep its stop until it is sold or the stop is refused or given up (`LotKeepsStop`)? Is a position sold twice other than through a named slip (`NeverShort`)? Is every cancel by permId that was not confirmed on the list (`UnconfirmedIsReported`)? Is a row bought twice (`OneEntryPerRow`)? Does a row name a stop (`RecordedStopIsStop`)? |
| **bracket_oversell** V | same | Can stop and exit be working together (`NeverBothArmed`)? |

**The bounds, and why they are enough.**

- *Orders.* Orders do not interact at the broker, and the code handles one order
  at a time; what can go wrong between orders needs two. `executor_sessions` allows three, so
  that after a session of two another can submit. `bracket` allows four: an entry with its stop, an exit, and a second stop,
  a second exit or the next session's; or two brackets in two sessions. A
  session starts only while enough ids are left for it, so that the bound never cuts a
  session in the middle.
- *Shares.* Two distinguish nothing, some and all. Where a property does not
  tell some from all, one share is enough. `Bracket` assumes one: an order there fills or does not.
- *Tiers.* The four of the code in `router`, for one call: several calls in a row are in the executor's runs and in the proofs; one where
  the fallback is not the question. `OneOrderPerRow` with several tiers and kills is proved, not run.
- *Rows.* Each of the two phases, and two rows of one phase. All files find
  rows by asset; rows of one asset are discussed in section 6.
- *Ids.* Five ids, two answers: one answer in time, one late, and orders before, between and after.
  In `requests` two ids are enough for one to be used and one to be counted or forgotten, and two messages are one whole answer, which the
  next request can find still under way.
- *Contracts and rules.* One contract whose conId is asked for and one whose table is: an answer can be for the other. The coarsest of
  three rules is in the middle, so that it is neither the first kept nor the last tried.
- *Tables and prices.* Bands of 2, 5 and 10 with fills on both sides of each edge, stops in the band below, and one
  stop that is rounded up onto an edge.
- *Places of a kill* in `bracket`: after the cancel was sent, and between parent and child, which is also after any exits of the session
  and before their booking. Kills between the writes of a booking are in `executor_sessions`; the proofs allow every place in both modules.
- *Attempts.* Three attempts give a retry that follows a retry; nothing in the code depends
  on the number otherwise, and the safety proof holds for every number.

Deadlock checking is off everywhere: all of these programs end, by returning, by
closing the connection, or at the bound of order ids.

Every property has a mutant in `PROJECT.json`: a variant of one definition, such as a
dropped guard or a swapped order of writes, with which TLC finds the property violated. The variants
stand in the modules under the heading "Faulty variants" and are used nowhere else.

---

## 4. Fairness

- **Main thread** (`RouterMain`, `MonitorStep`, `Main`, `MainStep`, `CallStep`, `TakeId`): weak fairness. Every
  wait of the main thread is a `time.sleep` or an `Event.wait(timeout)`; it never waits for
  the broker without a bound.
- **The clock** (`MonitorTimeout`, `StartMonitor`): strong fairness. The monitor's loop and the
  loop of `_persist_entry_perm_ids` look at the clock once in each pass. Time only increases,
  so a deadline possible at every pass cannot be missed for ever. Weak fairness would
  not do: the action is disabled in the middle of a pass.
- **Reader threads** (`ReaderStep`, in `Connection` only): weak fairness, as the thread is
  runnable and takes the lock without a condition. In the other modules callbacks have no
  fairness at all.
- **TWS** owes nothing anywhere: it may stay silent for ever, and every liveness
  property holds nevertheless.

Fairness is put on a thread, never on one of its actions, except for the clock.

---

## 5. Proofs

TLAPS checks the following for every value of the constants that satisfies the
modules' assumptions (positive bounds; `AssetOf` and `ActionOf` functions on `Rows`;
`NoRow` no row; in `Bracket` orders of one lot; in `Requests` tables as exchanges publish them and stop losses below 100 percent).

| Module | Theorem | Statement |
|---|---|---|
| SmartRouterProofs | `RouterTypeCorrect`, `ViewIsSound`, `RouterGivesUpOnlyTheDead` | `RouterSpec => []SafetyTypeOK`, `[]ViewSound`, `[]GivenUpIsDead` |
| | `RouterImplementsOrderCall` | `RouterSpec => ImplementsOrderCall` |
| FillMonitorProofs | `MonitorTypeCorrect`, `VerdictsAreSound`, `EveryOrderIsJudged` | `MonitorSpec => []MonitorSafetyTypeOK`, `[]VerdictSound`, `[]EveryOrderJudged` |
| | `MonitorImplementsVerdicts` | `MonitorSpec => ImplementsVerdicts` |
| ExecutorProofs | `ExecutorTypeCorrect` | `Spec => []TypeOK` |
| | `ExecutedOnlyWhenFilled` | `Spec => []ExecutedIsFilled`, if no two rows share an asset |
| | `SettledStay` | `Spec => SettledRowsStay`: a settled row is never rewritten, for all rows |
| | `ExecutorCallsKeepContract`, `ExecutorVerdictsKeepContract` | `Spec => CallsKeepContract`, `Spec => VerdictsKeepContract`, for all rows |
| LedgerProofs | `OneOrderForOneRow` | `Spec => []OneOrderPerRow`, for all rows |
| | `ExecutorImplementsLedger` | `Spec => ImplementsLedger`, if no two rows share an asset |
| | `PersistedPermIsNewest`, `ExecutedStaysBooked`, `ClosedOnlyWhenSettled`, `FailedOnlyWhenDead` | `Spec => []PersistedIsNewest`, `[]ExecutedIsBooked`, `[]ClosedIsSettled`, `[]FailedIsDead`, if no two rows share an asset |
| | `BooksNeverExceedBroker` | `Spec => []LedgerSound` (rows held, and rows dropped, each answered for by a fill of its own), for all rows, shared assets included |
| BracketProofs | `BracketTypeCorrect`, `LotsKeepTheirStop`, `RecordedStopIsTheStop`, `UnconfirmedAreReported` | `Spec => []BracketTypeOK`, `[]LotKeepsStop`, `[]RecordedStopIsStop`, `[]UnconfirmedIsReported` |
| | `RowsHaveOneEntry` | `Spec => []OneEntryPerRow` |
| | `NothingSoldTwice` | `Spec => []NeverShort` |
| RequestsProofs | `TypeCorrect`, `CounterStaysAhead`, `OrderIdsUnique` | `OrderIds` alone: `Spec => []TypeOK`, `[]CounterAhead`, `[]UniqueOrderIds` |
| | `RequestsKeepCounter`, `OrdersShareNoIds` | with requests: the same three, and `[]NoSharedIds` |
| | `RequestsTypeCorrect`, `ResolvedStaysOwn`, `CoarsestTableIsKept` | `RequestsSpec => []RequestsTypeOK`, `[]ResolvedIsOwn`, `TickTableIsCoarsest` |
| | `StopsAreAccepted`, `PercentIsItsFraction` | `RequestsSpec => []StopsConform`, `[]PercentIsFraction` |
| ConnectionProofs | `ConnectionTypeCorrect`, `NoneNeverUsed`, `ReadyWithId`, `TeardownQuiet` | `Spec => []TypeOK`, `[]NoneIsNeverUsed`, `[]ReadyHasId`, `[]TeardownIsQuiet` |

**The argument.** The invariants are built like the modules.

- `OrdersInv` adds to `ViewSound` what the broker itself guarantees (`BrokerSound`: an id not taken
  has no order, an order not acknowledged has no fill, a filled order is full). Without it
  `ViewSound` is not inductive: a record that says "Filled" must carry the whole quantity.
  `FinalStays` is the fact everything else leans on: a terminal state at the broker is final.
- `RouterInv` adds `CallTied`: while a tier is checked, `cur` is one of the
  orders of the call. With `RefusedIsDead` (what the router takes for a refusal is one, from
  `ViewSound`) the step to the next tier keeps `GivenUpIsDead`, and `DeadStays` keeps it
  under the steps of the broker.
- `MonitorInv` is the types and `VerdictSound`. `PollIsSound` says that a poll makes
  nothing of an order, or a verdict the record backs, which `ViewSound` carries over to the broker. That no order is dropped
  needs `FinalPending` besides: during the final loop every pending order is still ahead.
- The two contracts follow from the same invariants, step by step. A tier on the wire is a `Place` because all earlier orders are
  dead; the look at a tier is an `Accept`, a `GiveUp` or a stutter; a step of TWS kills at most one order. A poll is a `Judge` or a
  stutter (`PollIsSound`, with `CallGiven`: who is pending was handed over and has been told nothing), `MonitorDone` is the
  `Return`, and passes and the clock are stutters.
- `ExecInv` puts the three together. `StepKinds` shows that each step of the executor
  is a session's end or a step of all three components in their own terms, so their
  invariants carry over by the lemmas already proved. `OwnersTied` (an order the session knows has a row) and
  `LoopsTied` (once a write is made for an order, its verdict was a complete fill) then give `ExecutedIsFilled`: the row that `BookExecuted`
  settles is, when no two rows share an asset, the order's own. `SettledStay` needs no
  invariant beyond the types.
- The contracts hold in composition, `EndSession` apart: by `StepKinds` every other step of the executor is one of the router's
  steps or leaves its variables to the broker, and the same for the monitor, so the lemmas of the two refinements apply as they
  are. Those of the monitor need `CallInv` too (`CallInvInSession`): a call in progress has orders, none of them both pending and judged,
  nothing is told of an order not judged, and the final loop still has every pending order before it.
- `LedgerProofs` strengthens `ExecInv` by what a session knows of its rows (`SessionShape`, `SessionRows`: a row
  is either still to be looked at or has one order in the session). `Guarded` is the reason for `OneOrderPerRow`: a
  row's living orders are the session's, or the file has a permId. `PermSound` and `Newest` tie that permId to the newest order. `BookInv` says how far
  the writes for the order in hand have come, from which each write is a step of
  the ledger, and `Settled`, a fact about the ledger, gives `ExecutedIsBooked` and
  `ClosedIsSettled`. `Watched` (every order submitted is judged before its row is settled) gives `FailedIsDead`.
- `BooksNeverExceedBroker` counts. `LedgerSound` itself is not inductive: between a fill and its booking the file lags behind,
  and nothing in it says that a fill is not booked twice. `Accounts` makes both comparisons with the filled orders that no session
  will book any more (`Accounted(a, side)`, that is all but those in `ToBook`): rows and `removals` together with the purchases,
  `removals` alone with the sales. Booking an order adds a row or drops the rows once, and takes the order out of `ToBook`; an order enters
  `ToBook` only when it is placed, and a new order has not filled. A kill only empties `ToBook`.
- `BracketInv` has a conjunct for each thing a stop hangs on. `Recorded`: the record is true, permIds included. `Tickets`:
  ids are used in order, a child is younger than its parent, an entry that can trade has one. `Session`: what each
  place in `run()` knows of the orders sent. `Book`: rows of the position file are older than whatever is still to be booked, and their stops
  active; the order of booking (exits first, in the order of ids) makes this inductive. `Cancels` is the reason for `LotKeepsStop`:
  whatever TWS was asked to cancel is a stop that is given up, and a stop is cancelled only on request or dropped with its parent. The hard step
  is the end of a session, which takes the exit in hand away: what it had asked for must be in `bared` by then (`EndsForget`).
  `Exits`: only an exit is sent against a stop, and `UnconfirmedIsReported`, which is inductive with the rest: `ConfirmedIsCancelled`
  turns the status the main thread saw into the state of the broker.
- `Resubmission` (on top of `BracketInv`) gives `OneEntryPerRow`. `RowGuarded`: a row that is not unguarded has at most one entry that
  can trade (`CountedFor`), and none while another may yet be placed (`MayBePlaced`: the row is pending without a permId and still ahead
  of this session or the next, or its parent is on the wire and its child is not).
- `Lots` gives `NeverShort` by an injection instead of a sum. `Stops`: a stop sells, and an exit is sent against it, only after its
  entry has filled; an entry has one child. `Confirmed`: a confirmed cancel in hand is one at the broker. `ExitsCovered`: without "blind" every
  exit was sent against a cancelled stop, without "resold" no two exits that are alive or filled were sent against the same one. So every sale, by
  a stop or by an exit, maps to the lot of its stop (`LotOf`), every such lot was bought (`SoldWasBought`) and no two sales map to the
  same (`SoldOnce`); the inequality is then `FS_Injection` of the library. It is proved for any number of rows, where the
  run has one lot to sell at a time.
- `CounterAhead` is the inductive invariant of the order ids; it says why they are
  unique: no answer is under way unless the main thread is waiting for it. The requests step as `OrderIds` does or leave the
  counter alone, so it carries over; `RequestsBehind` adds that a request's id is behind the counter until a refresh follows it.
- The caches: `OwnInv` follows one request from its clearing to its use, and says that buffer and wire hold answers to it
  alone while nothing is overdue; `BestInv` with `Compared` is the loop invariant of `get_tick_table`.
- The prices: `Rounded` says that rounding passes no multiple of the tick. An edge is a multiple of the ticks on both
  its sides, so a rounded price stays in its band or reaches the next edge (`RoundedConforms`).
- `ConnInv`: `LockSafe` (the holder of the lock is exactly the thread between check and reset, and the
  connection is there) gives `NoneIsNeverUsed`; `CallsTied` and `AttemptTied` tie the
  program counters to each other, so that no thread is inside `disconnect()` while a
  new attempt connects. `ReadyInv` adds `IdTied` (the event stands for an id of this attempt) and `MarkedDown` (whatever a reader
  can trip over was reset by a teardown that had set the flag before).

**Only model-checked.** The liveness properties (`CallReturns` of the router and of the requests, `MonitorReturns`, `SessionEnds`,
`EventuallyTornDown`): liveness under fairness is out of the prover's reach. Every other property of a passing run is a theorem.

---

## 6. Where code and documentation disagree

Five runs end in a counterexample; each states what a docstring, comment
or test of the repository says.

1. **router_overfill.** `submit_with_fallback` offers "automatic fallback on rejection". It takes
   `Cancelled` for a rejection also when the cancelled order had traded a part, and submits the
   full quantity with the next tier.
2. **order_ids_late.** `next_order_id` promises to "prevent Error 103 (duplicate order ID)". `run()`
   ignores the result of `refresh_order_id`; an answer that comes after the five seconds moves
   `nextorderId` back behind orders placed meanwhile.
3. **timeout_resubmit.** A test says "Timeout -> stays PENDING + entry_perm_id persisted (idempotent re-run)". With
   the permId still unknown nothing is written, and the next run submits the row again.
4. **reader_fault.** "A fault mid-session still propagates" says `_run_reader`. The `finally` of
   `run()` sets `_disconnecting` first, so the except clause takes every fault for a teardown.
5. **bracket_oversell.** "Cancel existing STP order before selling position" says `_cancel_stp_for_exit`. It does not look
   at what `cancel_stop_order` returns, and the exit is sent with the stop still working. A stop known by its order id alone is
   cancelled without even a wait for the answer.

Read in the code and stated here without a run of its own:

- A comment (`execution/base_executor.py:706`) says that marking shares to be reconciled FAILED "would drop it from
  reconciliation". An order cancelled after a partial fill gets a verdict without quantity
  (`execution/fill_monitor.py:125`) and its row becomes `FAILED`.
- The table kept is the coarsest at 50.0 (`core/contracts.py:224`); the comment above it says "at our price level".
- `failed_stp_cancels` is there to "track failed STP cancels for end-of-run warning" (`execution/bracket.py:37`). The
  cancel by order id alone (`execution/base_executor.py:435-443`) adds nothing to it, whatever comes of it (`unnoted`).
- `_remove_position` says "Remove a position from active_positions" (`execution/base_executor.py:784`). It drops every row of the asset and
  returns the first: two lots held, one sold, and the file knows of none.
- `_backfill_bracket_stp` speaks of "the just-added active_positions row" and writes the permId into every row of the asset; the
  stop of an older row is then known to nobody.
- `_fetch_ibkr_bar` waits for `_historical_data`, which no callback of `ConnectionManager` fills
  (`utils/price_patch.py:122`): the patch from IBKR never finds a bar.

Behaviours that contradict no text of the repository, so that they are
exempted in the properties and have no run:

- A kill between an entry's submission and the persist pass leaves a row the next run buys again;
  exits have no idempotent check at all (`unguarded`, "resold"). For the same reason two SELL rows of one asset are both
  sent in one session: the first cancels the stop, the second finds it cancelled, which counts as confirmed, and sells again.
- An exit that is dropped after its stop was cancelled leaves the position without one (`bared`), and so does a session cut short
  in between; `update_stp_after_fill` sends the second stop without waiting for the first ("rearmed").
- A stop that TWS refuses is missed by nobody: `submit_bracket_entry` returns both ids and no one looks at the child again. `LotKeepsStop`
  names the refusal, so it does not say that every lot is protected; it says which other ways there are to lose one.
- The warning about cancels that failed is inside the `try` of `run()`: an exception in any phase skips it, and the next session starts
  with an empty list. `UnconfirmedIsReported` is therefore about the session, up to that statement.
- An empty `stop_perm_id` read from the file is a NaN, which is true, and `int()` of it ends the session (`EmptyPermRaises`).
- An answer that comes after its request has given up is taken for that of the next one, and is cached for the
  session (`overdue`); a table chosen while TWS was silent about a rule is cached as well (`silent`).
- A row can be settled without its permId when the verdict is terminal.
- A kill between `EXECUTED` and the closed-trade record loses that record for ever.
- Rows are settled by asset: with a sale and a purchase of one asset pending, the fill of
  one marks both. `ExecutedIsFilled` and the ledger are therefore proved for rows of different assets; `LedgerSound` and
  `SettledRowsStay`, proved for all rows, say how far the damage goes: how many rows one sale drops is not bounded by either.
- `connectionClosed` may run before `connected = True` is stored; the attribute is then
  true on a dead connection until `disconnect_gracefully`.

---

## 7. What is not modelled

- P&L, commissions, currency, and the amounts in positions and closed trades: no decision of the control depends on them. Of
  prices, the stop price is in `Ticks`; a contract without a table gets a default tick, which TWS may refuse.
- Position quantities: `positions` counts rows of an asset, or lots in `Bracket`. Sizing (`calculate_shares`, the cap)
  is a number greater than zero or a `SkipRow`.
- `load_signals` is any subset of the pending rows. Which ones are stale is `numpy.busday_count` of two
  dates against a limit; the only reference for it would be its own definition.
- The requests for positions, executions, completed orders, account summary and PnL have the shape of those in
  `Requests`; the executor does not use them.
- The composition of `Connection` and `OrderIds` with `Executor` and `Bracket`: a session there has a
  connection that stays up and ids that are new. A lost connection looks to it like a broker
  that is silent, which is covered; a moved-back counter is not.
- `Bracket` with several assets, with the router's tiers behind an exit, or with the monitor's loop: those are in
  `Executor`, `SmartRouter` and `FillMonitor`.
- Exceptions are an end of the session like a kill, at the places where a kill is modelled. A dictionary that changes
  size while the main thread iterates over it (`core/connection.py:1006`) is one of their causes.
- Order builders beyond `transmit`, `parentId` and `tif`, `orderRef` formatting, configuration, logging, account queries,
  the price patch and the examples: no state, or I/O only.

---

## 8. Plan

Done: all modules above, their runs and proofs.

What would add most, in this order:

1. **Lots.** `Bracket` with quantities: what an exit may sell when a row was bought twice.
2. **A moved-back counter** under `Executor`: `Requests` shows when it happens, not what the session makes of a refused duplicate.
3. **An abstract specification of `Bracket`**: a lot is bought, protected and sold once, with the slips as its only other steps.

The runs stay few: a new question takes the place of one that a larger composition subsumes.
