------------------------------ MODULE Connection ------------------------------
(***************************************************************************)
(* ConnectionManager (core/connection.py) from connect_with_retry to       *)
(* disconnect_gracefully: the main thread, one reader thread for each      *)
(* attempt, and TWS, which may accept, stay silent or drop the connection. *)
(* EClient is not under src/; what it does is taken from the docstrings of *)
(* disconnect and _run_reader and from test_connection_disconnect_race.py: *)
(* disconnect() checks conn, uses it, calls connectionClosed and sets conn *)
(* to None, and run() ends in `finally: self.disconnect()`.                *)
(***************************************************************************)
EXTENDS Naturals

CONSTANT MaxAttempts  \* max_attempts of connect_with_retry

ASSUME ConnectionAssumption == MaxAttempts \in Nat \ {0}

Attempt == 1 .. MaxAttempts

main == 0                   \* the main thread; reader e belongs to attempt e
Threads == 0 .. MaxAttempts
NoThread == MaxAttempts + 1
None == 0                   \* no connection, no order id

VARIABLES
  mpc,           \* where the main thread stands
  attempt,       \* attempt of the loop
  conn,          \* external: EClient.conn, the attempt it belongs to or None
  isConn,        \* external: EClient.isConnected()
  greeting,      \* external: attempts whose nextValidId is in the queue
  event,         \* _connected_event
  nextorderId,   \* the attempt its value came with, or None
  connected,     \* the attribute of that name
  disconnecting, \* _disconnecting
  lock,          \* holder of _disconnect_lock
  dpc,           \* where each thread stands in disconnect()
  reader,        \* where each reader thread stands
  fault,         \* what ended a reader: nothing, a teardown, a real fault
  loud,          \* readers whose exception _run_reader raised again
  crashed        \* disconnect() has dereferenced None

mainVars == <<mpc, attempt>>
eclientVars == <<conn, isConn, greeting>>
flagVars == <<event, nextorderId, connected, disconnecting>>
lockVars == <<lock, dpc, crashed>>
readerVars == <<reader, fault, loud>>
vars == <<mainVars, eclientVars, flagVars, lockVars, readerVars>>

MainPc ==
  {"call", "attempt", "connect", "thread", "wait", "got", "up",
   "safe", "safe_in", "bye_in", "failed", "closed"}

TypeOK ==
  /\ mpc \in MainPc
  /\ attempt \in 0 .. MaxAttempts
  /\ conn \in Attempt \cup {None}
  /\ isConn \in BOOLEAN
  /\ greeting \subseteq Attempt
  /\ event \in BOOLEAN
  /\ nextorderId \in Attempt \cup {None}
  /\ connected \in BOOLEAN
  /\ disconnecting \in BOOLEAN
  /\ lock \in Threads \cup {NoThread}
  /\ dpc \in [Threads -> {"out", "enter", "lock", "close", "reset"}]
  /\ reader \in [Attempt -> {"off", "loop", "hold", "stored", "final", "dead"}]
  /\ fault \in [Attempt -> {"none", "teardown", "real"}]
  /\ loud \subseteq Attempt
  /\ crashed \in BOOLEAN

Init ==
  /\ mpc = "call"
  /\ attempt = 0
  /\ conn = None
  /\ isConn = FALSE
  /\ greeting = {}
  /\ event = FALSE
  /\ nextorderId = None
  /\ connected = FALSE
  /\ disconnecting = FALSE
  /\ lock = NoThread
  /\ dpc = [t \in Threads |-> "out"]
  /\ reader = [e \in Attempt |-> "off"]
  /\ fault = [e \in Attempt |-> "none"]
  /\ loud = {}
  /\ crashed = FALSE

-----------------------------------------------------------------------------
(* Faulty variants: disconnect() without its lock; the lock kept when      *)
(* there is nothing to close; disconnect() that does not mark the          *)
(* teardown; the event of the attempt before kept; one attempt too many.    *)
AlwaysFree == TRUE

KeptLock(t) == t

Unmarked == disconnecting

StaleEvent == event

AttemptsLeftLate == attempt <= MaxAttempts

-----------------------------------------------------------------------------
(* disconnect(), run by the main thread or a reader.                       *)

LockFree == lock = NoThread

(* What leaving the `with` block makes of the lock.                        *)
Released(t) == NoThread

Marked == TRUE

CallDisconnect(t) == dpc' = [dpc EXCEPT ![t] = "enter"]

DisconnectMark(t) ==
  /\ dpc[t] = "enter"
  /\ disconnecting' = Marked
  /\ dpc' = [dpc EXCEPT ![t] = "lock"]
  /\ UNCHANGED <<mainVars, eclientVars, event, nextorderId, connected,
                 lock, crashed, readerVars>>

(* EClient.disconnect: setConnState(DISCONNECTED), then the check.         *)
DisconnectCheck(t) ==
  /\ dpc[t] = "lock"
  /\ LockFree
  /\ isConn' = FALSE
  /\ \/ /\ conn # None
        /\ lock' = t
        /\ dpc' = [dpc EXCEPT ![t] = "close"]
     \/ /\ conn = None
        /\ lock' = Released(t)
        /\ dpc' = [dpc EXCEPT ![t] = "out"]
  /\ UNCHANGED <<mainVars, conn, greeting, flagVars, crashed, readerVars>>

(* self.conn.disconnect() and connectionClosed().                          *)
DisconnectClose(t) ==
  /\ dpc[t] = "close"
  /\ crashed' = (conn = None)
  /\ IF conn = None
       THEN /\ lock' = NoThread
            /\ dpc' = [dpc EXCEPT ![t] = "out"]
            /\ UNCHANGED connected
       ELSE /\ connected' = FALSE
            /\ dpc' = [dpc EXCEPT ![t] = "reset"]
            /\ UNCHANGED lock
  /\ UNCHANGED <<mainVars, eclientVars, event, nextorderId, disconnecting,
                 readerVars>>

(* reset(): conn = None, and a new, empty message queue.                   *)
DisconnectReset(t) ==
  /\ dpc[t] = "reset"
  /\ conn' = None
  /\ greeting' = {}
  /\ lock' = NoThread
  /\ dpc' = [dpc EXCEPT ![t] = "out"]
  /\ UNCHANGED <<mainVars, isConn, flagVars, crashed, readerVars>>

DisconnectStep(t) ==
  \/ DisconnectMark(t)
  \/ DisconnectCheck(t)
  \/ DisconnectClose(t)
  \/ DisconnectReset(t)

-----------------------------------------------------------------------------
(* The main thread.                                                        *)

CheckPort ==
  /\ mpc = "call"
  /\ mpc' \in {"attempt", "failed"}
  /\ UNCHANGED <<attempt, eclientVars, flagVars, lockVars, readerVars>>

AttemptsLeft == attempt < MaxAttempts

ClearedEvent == FALSE

(* The sleep before a retry lasts 2 s or more, a reader that is told to    *)
(* stop looks at isConnected() at least every 0.2 s: the reader of the     *)
(* attempt before has ended.                                               *)
OldReadersGone == \A e \in Attempt : reader[e] \in {"off", "dead"}

StartAttempt ==
  /\ mpc = "attempt"
  /\ OldReadersGone
  /\ attempt' = attempt + 1
  /\ event' = ClearedEvent
  /\ nextorderId' = None
  /\ disconnecting' = FALSE
  /\ mpc' = "connect"
  /\ UNCHANGED <<eclientVars, connected, lockVars, readerVars>>

(* EClient.connect succeeds, reports a failure, or raises.                 *)
Connect ==
  /\ mpc = "connect"
  /\ \/ conn' = attempt /\ isConn' = TRUE /\ mpc' = "thread"
     \/ mpc' \in {"thread", "safe"} /\ UNCHANGED <<conn, isConn>>
  /\ UNCHANGED <<attempt, greeting, flagVars, lockVars, readerVars>>

StartReader ==
  /\ mpc = "thread"
  /\ reader' = [reader EXCEPT ![attempt] = "loop"]
  /\ mpc' = "wait"
  /\ UNCHANGED <<attempt, eclientVars, flagVars, lockVars, fault, loud>>

WaitReturns ==
  /\ mpc = "wait"
  /\ mpc' = IF event THEN "got" ELSE "safe"
  /\ UNCHANGED <<attempt, eclientVars, flagVars, lockVars, readerVars>>

SetConnected ==
  /\ mpc = "got"
  /\ connected' = TRUE
  /\ mpc' = "up"
  /\ UNCHANGED <<attempt, eclientVars, event, nextorderId, disconnecting,
                 lockVars, readerVars>>

(* _safe_disconnect: the flag first, then disconnect() if still connected. *)
SafeDisconnect ==
  /\ mpc = "safe"
  /\ disconnecting' = TRUE
  /\ mpc' = "safe_in"
  /\ \/ isConn /\ CallDisconnect(main)
     \/ ~isConn /\ UNCHANGED dpc
  /\ UNCHANGED <<attempt, eclientVars, event, nextorderId, connected, lock,
                 crashed, readerVars>>

SafeDisconnected ==
  /\ mpc = "safe_in"
  /\ dpc[main] = "out"
  /\ connected' = FALSE
  /\ mpc' = IF AttemptsLeft THEN "attempt" ELSE "failed"
  /\ UNCHANGED <<attempt, eclientVars, event, nextorderId, disconnecting,
                 lockVars, readerVars>>

DisconnectGracefully ==
  /\ mpc = "up"
  /\ mpc' = "bye_in"
  /\ \/ isConn /\ CallDisconnect(main)
     \/ ~isConn /\ UNCHANGED dpc
  /\ UNCHANGED <<attempt, eclientVars, flagVars, lock, crashed, readerVars>>

Disconnected ==
  /\ mpc = "bye_in"
  /\ dpc[main] = "out"
  /\ connected' = FALSE
  /\ mpc' = "closed"
  /\ UNCHANGED <<attempt, eclientVars, event, nextorderId, disconnecting,
                 lockVars, readerVars>>

MainStep ==
  \/ CheckPort
  \/ StartAttempt
  \/ Connect
  \/ StartReader
  \/ WaitReturns
  \/ SetConnected
  \/ SafeDisconnect
  \/ SafeDisconnected
  \/ DisconnectGracefully
  \/ Disconnected
  \/ DisconnectStep(main)

-----------------------------------------------------------------------------
(* The reader threads.                                                     *)

TakeMessage(e) ==
  /\ reader[e] = "loop"
  /\ e \in greeting
  /\ greeting' = greeting \ {e}
  /\ reader' = [reader EXCEPT ![e] = "hold"]
  /\ UNCHANGED <<mainVars, conn, isConn, flagVars, lockVars, fault, loud>>

(* nextValidId: the id is stored, then the event is set.                   *)
StoreId(e) ==
  /\ reader[e] = "hold"
  /\ nextorderId' = e
  /\ reader' = [reader EXCEPT ![e] = "stored"]
  /\ UNCHANGED <<mainVars, eclientVars, event, connected, disconnecting,
                 lockVars, fault, loud>>

SetEvent(e) ==
  /\ reader[e] = "stored"
  /\ event' = TRUE
  /\ reader' = [reader EXCEPT ![e] = "loop"]
  /\ UNCHANGED <<mainVars, eclientVars, nextorderId, connected, disconnecting,
                 lockVars, fault, loud>>

(* The loop of run() ends when the connection does; its `finally` then     *)
(* calls disconnect().                                                     *)
LeaveLoop(e) ==
  /\ reader[e] = "loop"
  /\ ~isConn
  /\ reader' = [reader EXCEPT ![e] = "final"]
  /\ CallDisconnect(e)
  /\ UNCHANGED <<mainVars, eclientVars, flagVars, lock, crashed, fault, loud>>

(* A TypeError or AttributeError inside run(): because reset() has taken   *)
(* conn away under the loop, or for a reason of its own in mid-session.    *)
Fault(e) ==
  /\ reader[e] = "loop"
  /\ \/ conn = None /\ fault' = [fault EXCEPT ![e] = "teardown"]
     \/ /\ isConn /\ ~disconnecting
        /\ fault' = [fault EXCEPT ![e] = "real"]
  /\ reader' = [reader EXCEPT ![e] = "final"]
  /\ CallDisconnect(e)
  /\ UNCHANGED <<mainVars, eclientVars, flagVars, lock, crashed, loud>>

(* After the `finally`: the except clause of _run_reader.                  *)
EndReader(e) ==
  /\ reader[e] = "final"
  /\ dpc[e] = "out"
  /\ reader' = [reader EXCEPT ![e] = "dead"]
  /\ loud' = IF fault[e] # "none" /\ ~disconnecting THEN loud \cup {e} ELSE loud
  /\ UNCHANGED <<mainVars, eclientVars, flagVars, lockVars, fault>>

ReaderStep(e) ==
  \/ TakeMessage(e)
  \/ StoreId(e)
  \/ SetEvent(e)
  \/ LeaveLoop(e)
  \/ Fault(e)
  \/ EndReader(e)
  \/ DisconnectStep(e)

-----------------------------------------------------------------------------
(* TWS and the network (external).                                         *)

Greet(e) ==
  /\ conn = e
  /\ isConn
  /\ greeting' = greeting \cup {e}
  /\ UNCHANGED <<mainVars, conn, isConn, flagVars, lockVars, readerVars>>

Drop ==
  /\ isConn
  /\ isConn' = FALSE
  /\ UNCHANGED <<mainVars, conn, greeting, flagVars, lockVars, readerVars>>

Next ==
  \/ MainStep
  \/ \E e \in Attempt : ReaderStep(e)
  \/ \E e \in Attempt : Greet(e)
  \/ Drop

(* Every thread that can run does; TWS owes nothing.                       *)
Spec ==
  /\ Init
  /\ [][Next]_vars
  /\ WF_vars(MainStep)
  /\ \A e \in Attempt : WF_vars(ReaderStep(e))

-----------------------------------------------------------------------------
(* No thread finds conn gone after it has checked it, however the teardown *)
(* of the main thread and that of the reader overlap.                      *)
NoneIsNeverUsed == ~crashed

(* connect_with_retry is "ready" only with the id that the nextValidId of  *)
(* this very connection brought.                                           *)
ReadyHasId == mpc \in {"got", "up"} => nextorderId = attempt

(* A reader that trips over a teardown never shows up as an exception.     *)
TeardownIsQuiet == \A e \in loud : fault[e] = "real"

(* The call and the disconnect come to an end, with conn gone, every       *)
(* reader finished and `connected` false: nobody waits for the lock for    *)
(* ever.                                                                   *)
TornDown ==
  /\ conn = None
  /\ ~connected
  /\ \A e \in Attempt : reader[e] \in {"off", "dead"}

EventuallyTornDown == []<>(mpc \in {"failed", "closed"} /\ TornDown)

(* "a fault mid-session still propagates to the daemon thread's            *)
(* excepthook so real reader failures stay visible".                       *)
FaultsStayVisible ==
  \A e \in Attempt : reader[e] = "dead" /\ fault[e] = "real" => e \in loud

=============================================================================
