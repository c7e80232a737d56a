--------------------------- MODULE ConnectionProofs ---------------------------
(* disconnect() under its lock, for every number of attempts: the thread   *)
(* that has checked conn is the only one that can take it away.            *)
EXTENDS Connection, TLAPS

(* The lock is held exactly by the thread between the check and the reset, *)
(* and until the reset conn is there.                                      *)
LockSafe ==
  /\ \A t \in Threads : dpc[t] \in {"close", "reset"} <=> lock = t
  /\ lock \in Threads => conn # None
  /\ ~crashed

(* The loop never starts one attempt too many.                             *)
AttemptTied ==
  /\ mpc = "call" => attempt = 0
  /\ mpc = "attempt" => attempt < MaxAttempts
  /\ mpc \in {"connect", "thread"} => attempt \in Attempt

(* A thread is inside disconnect() only where it has called it.            *)
CallsTied ==
  /\ mpc \notin {"safe_in", "bye_in"} => dpc[main] = "out"
  /\ \A e \in Attempt : reader[e] # "final" => dpc[e] = "out"
  /\ mpc \in {"connect", "thread"} => OldReadersGone

ConnInv == TypeOK /\ AttemptTied /\ CallsTied /\ LockSafe

LEMMA ThreadFacts ==
  /\ main \in Threads
  /\ Attempt \subseteq Threads
  /\ NoThread \notin Threads
  /\ None \notin Attempt
  /\ main \notin Attempt
  BY ConnectionAssumption DEF main, Threads, Attempt, NoThread, None

LEMMA ConnInvInit == Init => ConnInv
<1> SUFFICES ASSUME Init PROVE ConnInv
  OBVIOUS
<1>1. /\ mpc \in MainPc
      /\ attempt \in 0 .. MaxAttempts
      /\ lock \in Threads \cup {NoThread}
      /\ dpc \in [Threads -> {"out", "enter", "lock", "close", "reset"}]
  BY ConnectionAssumption DEF Init, MainPc
<1>2. /\ reader \in
           [Attempt -> {"off", "loop", "hold", "stored", "final", "dead"}]
      /\ fault \in [Attempt -> {"none", "teardown", "real"}]
  BY DEF Init
<1>3. TypeOK
  BY <1>1, <1>2 DEF Init, TypeOK
<1>4. AttemptTied
  BY ConnectionAssumption DEF Init, AttemptTied
<1>5. LockSafe
  BY ThreadFacts DEF Init, LockSafe
<1>6. CallsTied
  BY ThreadFacts DEF Init, CallsTied
<1> QED
  BY <1>3, <1>4, <1>5, <1>6 DEF ConnInv

LEMMA TypeStep ==
  ASSUME ConnInv, [Next]_vars
  PROVE  TypeOK'
<1> USE ThreadFacts
    DEF TypeOK, mainVars, eclientVars, flagVars, lockVars, readerVars
<1>0. TypeOK /\ AttemptTied
  BY DEF ConnInv
<1>1. ASSUME NEW t \in Threads, DisconnectStep(t) PROVE TypeOK'
  <2>1. CASE DisconnectMark(t)
    BY <1>0, <2>1 DEF DisconnectMark, Marked
  <2>2. CASE DisconnectCheck(t)
    BY <1>0, <2>2 DEF DisconnectCheck, Released
  <2>3. CASE DisconnectClose(t)
    BY <1>0, <2>3 DEF DisconnectClose
  <2>4. CASE DisconnectReset(t)
    BY <1>0, <2>4 DEF DisconnectReset
  <2> QED
    BY <1>1, <2>1, <2>2, <2>3, <2>4 DEF DisconnectStep
<1>2. CASE CheckPort \/ StartReader \/ WaitReturns
  BY <1>0, <1>2 DEF CheckPort, StartReader, WaitReturns, MainPc
<1>3. CASE StartAttempt
  <2>1. attempt' \in 0 .. MaxAttempts
    BY <1>0, <1>3, ConnectionAssumption DEF StartAttempt, AttemptTied
  <2> QED
    BY <1>0, <1>3, <2>1 DEF StartAttempt, ClearedEvent, MainPc
<1>4. CASE Connect
  BY <1>0, <1>4 DEF Connect, AttemptTied, MainPc
<1>5. CASE SetConnected \/ SafeDisconnected \/ Disconnected
  BY <1>0, <1>5 DEF SetConnected, SafeDisconnected, Disconnected, MainPc
<1>6. CASE SafeDisconnect \/ DisconnectGracefully
  BY <1>0, <1>6
  DEF SafeDisconnect, DisconnectGracefully, CallDisconnect, MainPc
<1>7. ASSUME NEW e \in Attempt, TakeMessage(e) \/ StoreId(e) \/ SetEvent(e)
      PROVE  TypeOK'
  BY <1>0, <1>7 DEF TakeMessage, StoreId, SetEvent
<1>8. ASSUME NEW e \in Attempt, LeaveLoop(e) \/ Fault(e) \/ EndReader(e)
      PROVE  TypeOK'
  BY <1>0, <1>8 DEF LeaveLoop, Fault, EndReader, CallDisconnect
<1>9. CASE Drop \/ \E e \in Attempt : Greet(e)
  BY <1>0, <1>9 DEF Drop, Greet
<1>10. CASE UNCHANGED vars
  BY <1>0, <1>10 DEF vars
<1> QED
  BY <1>1, <1>2, <1>3, <1>4, <1>5, <1>6, <1>7, <1>8, <1>9, <1>10
  DEF Next, MainStep, ReaderStep

(* Only the main thread moves the loop on.                                 *)
LEMMA AttemptStep ==
  ASSUME ConnInv, [Next]_vars
  PROVE  AttemptTied'
<1> USE DEF AttemptTied, mainVars
<1>0. AttemptTied /\ attempt \in 0 .. MaxAttempts
  BY DEF ConnInv, TypeOK
<1>1. CASE UNCHANGED mainVars
  BY <1>0, <1>1
<1>2. CASE CheckPort \/ StartAttempt \/ SafeDisconnected
  BY <1>0, <1>2, ConnectionAssumption
  DEF CheckPort, StartAttempt, SafeDisconnected, AttemptsLeft, Attempt
<1>3. CASE \/ Connect \/ StartReader \/ WaitReturns \/ SetConnected
           \/ SafeDisconnect \/ DisconnectGracefully \/ Disconnected
  BY <1>0, <1>3
  DEF Connect, StartReader, WaitReturns, SetConnected, SafeDisconnect,
      DisconnectGracefully, Disconnected
<1> QED
  BY <1>1, <1>2, <1>3
  DEF Next, vars, MainStep, ReaderStep, DisconnectStep, DisconnectMark,
      DisconnectCheck, DisconnectClose, DisconnectReset, TakeMessage, StoreId,
      SetEvent, LeaveLoop, Fault, EndReader, Greet, Drop

(* disconnect() itself keeps the lock, whichever thread runs it.           *)
LEMMA DisconnectKeeps ==
  ASSUME ConnInv, NEW t \in Threads, DisconnectStep(t)
  PROVE  CallsTied' /\ LockSafe'
<1> USE ThreadFacts
    DEF ConnInv, TypeOK, CallsTied, LockSafe, OldReadersGone, mainVars,
        eclientVars, readerVars
<1>1. CASE DisconnectMark(t)
  <2>1. /\ dpc' = [dpc EXCEPT ![t] = "lock"] /\ dpc[t] = "enter"
        /\ UNCHANGED <<mpc, reader, lock, conn, crashed>>
    BY <1>1 DEF DisconnectMark
  <2>2. LockSafe'
    BY <2>1
  <2>3. CallsTied'
    BY <2>1
  <2> QED
    BY <2>2, <2>3
<1>2. CASE DisconnectCheck(t)
  BY <1>2 DEF DisconnectCheck, LockFree, Released
<1>3. CASE DisconnectClose(t)
  BY <1>3 DEF DisconnectClose
<1>4. CASE DisconnectReset(t)
  <2>1. /\ dpc' = [dpc EXCEPT ![t] = "out"] /\ dpc[t] = "reset"
        /\ lock' = NoThread
        /\ UNCHANGED <<mpc, reader, crashed>>
    BY <1>4 DEF DisconnectReset
  <2>2. \A u \in Threads : dpc'[u] \notin {"close", "reset"}
    BY <2>1
  <2>3. LockSafe'
    BY <2>1, <2>2
  <2>4. CallsTied'
    BY <2>1
  <2> QED
    BY <2>3, <2>4
<1> QED
  BY <1>1, <1>2, <1>3, <1>4 DEF DisconnectStep

LEMMA LockStep ==
  ASSUME ConnInv, [Next]_vars
  PROVE  CallsTied' /\ LockSafe'
<1> USE ThreadFacts
    DEF ConnInv, TypeOK, CallsTied, LockSafe, OldReadersGone, mainVars,
        eclientVars, lockVars, readerVars
<1>1. ASSUME NEW t \in Threads, DisconnectStep(t)
      PROVE  CallsTied' /\ LockSafe'
  BY <1>1, DisconnectKeeps
<1>2. CASE CheckPort \/ WaitReturns \/ SetConnected
  BY <1>2 DEF CheckPort, WaitReturns, SetConnected
<1>3. CASE StartAttempt \/ SafeDisconnected \/ Disconnected
  BY <1>3 DEF StartAttempt, SafeDisconnected, Disconnected
<1>4. CASE Connect
  BY <1>4 DEF Connect, AttemptTied
<1>5. CASE StartReader
  BY <1>5 DEF StartReader
<1>6. CASE SafeDisconnect \/ DisconnectGracefully
  BY <1>6 DEF SafeDisconnect, DisconnectGracefully, CallDisconnect
<1>7. ASSUME NEW e \in Attempt, TakeMessage(e) \/ StoreId(e) \/ SetEvent(e)
      PROVE  CallsTied' /\ LockSafe'
  BY <1>7 DEF TakeMessage, StoreId, SetEvent
<1>8. ASSUME NEW e \in Attempt, LeaveLoop(e) \/ Fault(e)
      PROVE  CallsTied' /\ LockSafe'
  BY <1>8 DEF LeaveLoop, Fault, CallDisconnect
<1>9. ASSUME NEW e \in Attempt, EndReader(e)
      PROVE  CallsTied' /\ LockSafe'
  BY <1>9 DEF EndReader
<1>10. CASE Drop \/ (\E e \in Attempt : Greet(e)) \/ UNCHANGED vars
  BY <1>10 DEF Drop, Greet, vars
<1> QED
  BY <1>1, <1>2, <1>3, <1>4, <1>5, <1>6, <1>7, <1>8, <1>9, <1>10
  DEF Next, MainStep, ReaderStep

LEMMA ConnInvStep == ConnInv /\ [Next]_vars => ConnInv'
  BY TypeStep, AttemptStep, LockStep DEF ConnInv

LEMMA ConnSpecInv == Spec => []ConnInv
  BY ConnInvInit, ConnInvStep, PTL DEF Spec

-----------------------------------------------------------------------------
(* Types of the connection, for every number of attempts.                  *)
THEOREM ConnectionTypeCorrect == Spec => []TypeOK
<1>1. ConnInv => TypeOK
  BY DEF ConnInv
<1> QED
  BY <1>1, ConnSpecInv, PTL

(* disconnect(): no thread dereferences None, for every interleaving of    *)
(* the main thread with any number of readers.                             *)
THEOREM NoneNeverUsed == Spec => []NoneIsNeverUsed
<1>1. ConnInv => NoneIsNeverUsed
  BY DEF ConnInv, LockSafe, NoneIsNeverUsed
<1> QED
  BY <1>1, ConnSpecInv, PTL

-----------------------------------------------------------------------------
(* The id the attempt brought, and the exceptions of a teardown.           *)

(* Only the reader of this attempt runs, and the event is set only after   *)
(* it has stored its id.                                                   *)
IdTied ==
  /\ \A e \in Attempt : reader[e] \notin {"off", "dead"} => e = attempt
  /\ \A e \in Attempt : reader[e] = "stored" => nextorderId = attempt
  /\ event => nextorderId = attempt
  /\ mpc \in {"got", "up"} => nextorderId = attempt

(* Whoever is past the first statement of disconnect() has marked the      *)
(* teardown, and the mark stays until every reader is gone: no reader ever *)
(* raises again, which is quiet for a teardown and too quiet for a fault.  *)
MarkedDown ==
  /\ \A t \in Threads : dpc[t] \in {"lock", "close", "reset"} => disconnecting
  /\ \A e \in Attempt : reader[e] = "final" /\ dpc[e] = "out" => disconnecting
  /\ loud = {}

ReadyInv == ConnInv /\ IdTied /\ MarkedDown

LEMMA ReadyInvInit == Init => ReadyInv
<1>1. Init => IdTied /\ MarkedDown
  BY DEF Init, IdTied, MarkedDown
<1> QED
  BY <1>1, ConnInvInit DEF ReadyInv

LEMMA IdStep ==
  ASSUME ReadyInv, [Next]_vars
  PROVE  IdTied'
<1> USE DEF IdTied, mainVars, eclientVars, flagVars, lockVars, readerVars
<1>0. IdTied /\ TypeOK
  BY DEF ReadyInv, ConnInv
<1> USE DEF TypeOK
<1>1. ASSUME NEW t \in Threads, DisconnectStep(t) PROVE IdTied'
  BY <1>0, <1>1 DEF DisconnectStep, DisconnectMark, DisconnectCheck,
     DisconnectClose, DisconnectReset
<1>2. CASE CheckPort \/ Connect \/ WaitReturns
  BY <1>0, <1>2 DEF CheckPort, Connect, WaitReturns
<1>3. CASE StartAttempt
  BY <1>0, <1>3 DEF StartAttempt, OldReadersGone, ClearedEvent
<1>4. CASE StartReader
  BY <1>0, <1>4 DEF StartReader
<1>5. CASE SetConnected \/ SafeDisconnected \/ Disconnected
  BY <1>0, <1>5 DEF SetConnected, SafeDisconnected, Disconnected
<1>6. CASE SafeDisconnect \/ DisconnectGracefully
  BY <1>0, <1>6 DEF SafeDisconnect, DisconnectGracefully
<1>7. ASSUME NEW e \in Attempt, TakeMessage(e) PROVE IdTied'
  BY <1>0, <1>7 DEF TakeMessage
<1>8. ASSUME NEW e \in Attempt, StoreId(e) \/ SetEvent(e) PROVE IdTied'
  <2>1. e = attempt
    BY <1>0, <1>8 DEF StoreId, SetEvent
  <2> QED
    BY <1>0, <1>8, <2>1 DEF StoreId, SetEvent
<1>9. ASSUME NEW e \in Attempt, LeaveLoop(e) \/ Fault(e) \/ EndReader(e)
      PROVE  IdTied'
  BY <1>0, <1>9 DEF LeaveLoop, Fault, EndReader
<1>10. CASE Drop \/ (\E e \in Attempt : Greet(e)) \/ UNCHANGED vars
  BY <1>0, <1>10 DEF Drop, Greet, vars
<1> QED
  BY <1>1, <1>2, <1>3, <1>4, <1>5, <1>6, <1>7, <1>8, <1>9, <1>10, ThreadFacts
  DEF Next, MainStep, ReaderStep

LEMMA MarkStep ==
  ASSUME ReadyInv, [Next]_vars
  PROVE  MarkedDown'
<1> USE ThreadFacts
    DEF MarkedDown, mainVars, eclientVars, flagVars, lockVars, readerVars
<1>0. MarkedDown /\ CallsTied /\ TypeOK
  BY DEF ReadyInv, ConnInv
<1> USE DEF TypeOK
<1>1. ASSUME NEW t \in Threads, DisconnectStep(t) PROVE MarkedDown'
  BY <1>0, <1>1 DEF DisconnectStep, DisconnectMark, DisconnectCheck,
     DisconnectClose, DisconnectReset, Marked, Released
<1>2. CASE \/ CheckPort \/ Connect \/ StartReader \/ WaitReturns
           \/ SetConnected \/ SafeDisconnected \/ Disconnected
  BY <1>0, <1>2 DEF CheckPort, Connect, StartReader, WaitReturns, SetConnected,
     SafeDisconnected, Disconnected
<1>3. CASE StartAttempt
  <2>1. \A t \in Threads : dpc[t] = "out"
    BY <1>0, <1>3 DEF StartAttempt, OldReadersGone, CallsTied, Threads,
       Attempt, main
  <2> QED
    BY <1>0, <1>3, <2>1 DEF StartAttempt, OldReadersGone
<1>4. CASE SafeDisconnect \/ DisconnectGracefully
  BY <1>0, <1>4 DEF SafeDisconnect, DisconnectGracefully, CallDisconnect
<1>5. ASSUME NEW e \in Attempt,
             \/ TakeMessage(e) \/ StoreId(e) \/ SetEvent(e) \/ EndReader(e)
      PROVE  MarkedDown'
  BY <1>0, <1>5 DEF TakeMessage, StoreId, SetEvent, EndReader
<1>6. ASSUME NEW e \in Attempt, LeaveLoop(e) \/ Fault(e)
      PROVE  MarkedDown'
  BY <1>0, <1>6 DEF LeaveLoop, Fault, CallDisconnect
<1>7. CASE Drop \/ (\E e \in Attempt : Greet(e)) \/ UNCHANGED vars
  BY <1>0, <1>7 DEF Drop, Greet, vars
<1> QED
  BY <1>1, <1>2, <1>3, <1>4, <1>5, <1>6, <1>7 DEF Next, MainStep, ReaderStep

LEMMA ReadySpecInv == Spec => []ReadyInv
<1>1. ReadyInv /\ [Next]_vars => ReadyInv'
  BY ConnInvStep, IdStep, MarkStep DEF ReadyInv
<1> QED
  BY <1>1, ReadyInvInit, PTL DEF Spec

(* ReadyHasId: when connect_with_retry returns "ready", the id counter is  *)
(* the one this very attempt was greeted with.                             *)
THEOREM ReadyWithId == Spec => []ReadyHasId
<1>1. ReadyInv => ReadyHasId
  BY DEF ReadyInv, IdTied, ReadyHasId
<1> QED
  BY <1>1, ReadySpecInv, PTL

(* TeardownIsQuiet: a reader that trips over a teardown ends in silence,   *)
(* whichever thread tears down.                                            *)
THEOREM TeardownQuiet == Spec => []TeardownIsQuiet
<1>1. ReadyInv => TeardownIsQuiet
  BY DEF ReadyInv, MarkedDown, TeardownIsQuiet
<1> QED
  BY <1>1, ReadySpecInv, PTL

=============================================================================
