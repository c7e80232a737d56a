------------------------------- MODULE OrderIds -------------------------------
(***************************************************************************)
(* ConnectionManager.nextorderId (core/connection.py): the main thread     *)
(* takes ids from it by a read and a write, the reader thread overwrites   *)
(* it with every nextValidId, and refresh_order_id asks for one and waits  *)
(* five seconds.  Requests take their ids from the same counter.           *)
(*                                                                         *)
(* The socket is first-in first-out in both directions, so the value TWS   *)
(* answers is settled by what was sent before the request: `answers` holds *)
(* the answers on their way back.                                          *)
(***************************************************************************)
EXTENDS Naturals, Sequences

CONSTANTS
  MaxId,      \* bound: ids ever taken
  MaxAnswers  \* bound: answers on their way at one time

ASSUME IdsAssumption ==
  /\ MaxId \in Nat \ {0}
  /\ MaxAnswers \in Nat

VARIABLES
  nextorderId,      \* ConnectionManager.nextorderId
  connected_event,  \* _connected_event, set by nextValidId
  answers,          \* external: nextValidId messages not yet dispatched
  placed,           \* external: order ids TWS has received
  mainPc,           \* main thread
  oid,              \* next_order_id: the value read
  reused,           \* an order was sent under an id TWS already has
  late              \* history: a refresh has given up waiting

idVars == <<nextorderId, connected_event, answers, placed, mainPc, oid,
            reused, late>>

Id == 1 .. MaxId + 1

Init ==
  /\ nextorderId = 1
  /\ connected_event = TRUE
  /\ answers = <<>>
  /\ placed = {}
  /\ mainPc = "ready"
  /\ oid = 1
  /\ reused = FALSE
  /\ late = FALSE

-----------------------------------------------------------------------------
(* Faulty variant: the counter not advanced.                               *)
KeepId == nextorderId' = oid

-----------------------------------------------------------------------------
(* TWS answers with the id after the last order it has received.           *)
IsNextId(n) ==
  /\ n \in Id
  /\ \A p \in placed : p < n
  /\ n = 1 \/ n - 1 \in placed

(* next_order_id, `oid = self.nextorderId`; the guard is the bound.        *)
ReadId ==
  /\ mainPc = "ready"
  /\ nextorderId <= MaxId
  /\ oid' = nextorderId
  /\ mainPc' = "read"
  /\ UNCHANGED <<nextorderId, connected_event, answers, placed, reused, late>>

(* next_order_id, `self.nextorderId = oid + 1`.                            *)
AdvanceId == nextorderId' = oid + 1

WriteId ==
  /\ mainPc = "read"
  /\ AdvanceId
  /\ mainPc' = "use"
  /\ UNCHANGED <<connected_event, answers, placed, oid, reused, late>>

(* placeOrder(oid, ...).                                                   *)
UseForOrder ==
  /\ mainPc = "use"
  /\ placed' = placed \cup {oid}
  /\ reused' = (reused \/ oid \in placed)
  /\ mainPc' = "ready"
  /\ UNCHANGED <<nextorderId, connected_event, answers, oid, late>>

(* reqExecutions, reqContractDetails and the like: TWS does not count it.  *)
UseForRequest ==
  /\ mainPc = "use"
  /\ mainPc' = "ready"
  /\ UNCHANGED <<nextorderId, connected_event, answers, placed, oid, reused,
                 late>>

(* refresh_order_id: clear, reqIds.                                        *)
Refresh ==
  /\ mainPc = "ready"
  /\ Len(answers) < MaxAnswers
  /\ connected_event' = FALSE
  /\ \E n \in Id :
       /\ IsNextId(n)
       /\ answers' = Append(answers, n)
  /\ mainPc' = "wait"
  /\ UNCHANGED <<nextorderId, placed, oid, reused, late>>

RefreshReturns ==
  /\ mainPc = "wait"
  /\ connected_event
  /\ mainPc' = "ready"
  /\ UNCHANGED <<nextorderId, connected_event, answers, placed, oid, reused,
                 late>>

(* wait(timeout=5.0) returns False, which run() does not look at.          *)
RefreshTimesOut ==
  /\ mainPc = "wait"
  /\ ~connected_event
  /\ late' = TRUE
  /\ mainPc' = "ready"
  /\ UNCHANGED <<nextorderId, connected_event, answers, placed, oid, reused>>

(* The reader thread dispatches nextValidId.                               *)
NextValidId ==
  /\ answers # <<>>
  /\ nextorderId' = Head(answers)
  /\ answers' = Tail(answers)
  /\ connected_event' = TRUE
  /\ UNCHANGED <<placed, mainPc, oid, reused, late>>

Next ==
  \/ ReadId
  \/ WriteId
  \/ UseForOrder
  \/ UseForRequest
  \/ Refresh
  \/ RefreshReturns
  \/ RefreshTimesOut
  \/ NextValidId

Spec == Init /\ [][Next]_idVars

-----------------------------------------------------------------------------
TypeOK ==
  /\ nextorderId \in Id
  /\ connected_event \in BOOLEAN
  /\ answers \in Seq(Id)
  /\ placed \subseteq Id
  /\ mainPc \in {"ready", "read", "use", "wait"}
  /\ oid \in Id
  /\ mainPc \in {"read", "use"} => oid <= MaxId
  /\ reused \in BOOLEAN
  /\ late \in BOOLEAN

(* "always increment after use to prevent Error 103 (duplicate order ID)": *)
(* while every refresh was answered in time, no order is sent under an id  *)
(* TWS already has.                                                        *)
UniqueOrderIds == late \/ ~reused

(* Why: between two uses the counter is beyond every order placed; an      *)
(* answer is on its way only while the main thread waits for it, alone,    *)
(* and is beyond every order placed too.                                   *)
CounterAhead ==
  \/ late
  \/ /\ \A p \in placed : p < nextorderId
     /\ mainPc \in {"read", "use"} => \A p \in placed : p < oid
     /\ mainPc = "use" => oid < nextorderId
     /\ answers # <<>> => mainPc = "wait" /\ ~connected_event
     /\ Len(answers) <= 1
     /\ \A i \in 1 .. Len(answers) : \A p \in placed : p < answers[i]

(* The same without the proviso: refused by what a late answer does.       *)
NoDuplicateOrderId == ~reused

=============================================================================
