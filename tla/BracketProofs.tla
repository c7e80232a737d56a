---------------------------- MODULE BracketProofs ----------------------------
(* Brackets for every set of rows, every number of orders and every place  *)
(* of a kill: an entry with its stop, the stop with its position, the      *)
(* cancel with its exit, a row with its entry, a sale with its lot.        *)
EXTENDS Bracket, OrdersProofs, FiniteSetTheorems

-----------------------------------------------------------------------------
(* Types.                                                                  *)

(* Steps that place an order.                                              *)
Sends ==
  \/ SendExit
  \/ \E r \in Rows : PlaceParent(r)
  \/ PlaceChild
  \/ \E o \in OrderId : UpdateStpAfterFill(o)

(* Steps inside a session that touch neither the broker nor the record.    *)
Inside ==
  \/ \E r \in Rows : AppendSignal(r) \/ SkipRow(r) \/ BeginExit(r)
  \/ StartSession
  \/ RefreshOpenOrders
  \/ CancelStop
  \/ CancelConfirmed
  \/ CancelUnconfirmed
  \/ DropExit
  \/ EndExits
  \/ EndEntries
  \/ EndPersist
  \/ \E o \in OrderId : \/ PersistPerm(o) \/ RemovePosition(o)
                        \/ AddPosition(o) \/ BackfillBracketStp(o)
                        \/ MarkExecuted(o) \/ SettleUnfilled(o)
  \/ UNCHANGED vars

(* Steps that end a session.                                               *)
Ends == Finish \/ Kill \/ EmptyPermRaises

LEMMA StepKinds ==
  ASSUME [Next]_vars
  PROVE  Sends \/ Inside \/ Ends \/ BrokerStep \/ BrokerDropsChild \/ Reader
BY DEF Next, Main, Ends, Sends, Inside

LEMMA EndsForget ==
  ASSUME Ends
  PROVE  /\ Forget
         /\ \/ pc = "process" /\ UNCHANGED bared
            \/ bared' = bared \cup CutShort
BY DEF Ends, Finish, Kill, EmptyPermRaises, Abort

LEMMA InsideKeeps == Inside => UNCHANGED <<orderVars, ticket>>
<1>1. CASE \E r \in Rows : AppendSignal(r) \/ SkipRow(r) \/ BeginExit(r)
  BY <1>1 DEF AppendSignal, SkipRow, BeginExit, outsideVars
<1>2. CASE StartSession \/ DropExit \/ EndExits \/ EndEntries \/ EndPersist
  BY <1>2 DEF StartSession, DropExit, EndExits, EndEntries, EndPersist,
     outsideVars
<1>3. CASE \/ RefreshOpenOrders \/ CancelStop \/ CancelConfirmed
           \/ CancelUnconfirmed
  BY <1>3 DEF RefreshOpenOrders, CancelStop, CancelConfirmed,
     CancelUnconfirmed, CancelStep
<1>4. CASE \E o \in OrderId : \/ PersistPerm(o) \/ RemovePosition(o)
                              \/ AddPosition(o) \/ BackfillBracketStp(o)
                              \/ MarkExecuted(o) \/ SettleUnfilled(o)
  BY <1>4 DEF PersistPerm, RemovePosition, AddPosition, BackfillBracketStp,
     MarkExecuted, SettleUnfilled, outsideVars
<1>5. CASE UNCHANGED vars
  BY <1>5 DEF vars, bracketVars
<1> QED
  BY <1>1, <1>2, <1>3, <1>4, <1>5 DEF Inside

-----------------------------------------------------------------------------
(* The invariant.                                                          *)

(* What the record says of the broker is true, permIds included.           *)
Recorded ==
  /\ BrokerSound
  /\ ViewSound
  /\ \A o \in OrderId : orders[o].permId \in {0, o}

(* Ids are used in order; only a stop has a parent, an entry older than    *)
(* itself; an entry that can trade has its child.                          *)
Tickets ==
  \A o \in OrderId :
    /\ o >= nextorderId => ticket[o] = NoTicket
    /\ o < nextorderId => /\ ticket[o].kind # "none"
                          /\ broker[o].state # "none"
    /\ ticket[o].parent # NoOrder
         => IsStop(o) /\ IsEntry(ticket[o].parent) /\ ticket[o].parent < o
    /\ IsEntry(o) /\ broker[o].state \in {"working", "filled"}
         => ChildOf(o) # {}

(* What each place in run() knows.                                         *)
Session ==
  /\ pc \in {"resolve", "retry", "confirm"} => Held.stop_perm_id # NoOrder
  /\ pc \in {"resolve", "retry", "confirm", "sell", "child"} => curRow \in Rows
  /\ pc = "child" => nextorderId - 1 \in OrderId /\ IsEntry(nextorderId - 1)
  /\ \A o \in sent : o < nextorderId /\ ~IsStop(o)
  /\ queue \subseteq sent
  /\ pc # "process" => stage = "verdict"
  /\ stage \in {"hook", "position"} =>
       \A o \in OrderId : AtOrder(o) => IsEntry(o) /\ Filled(o)

(* A row of active_positions.csv: its entry was filled;  rows are added in *)
(* the order the entries were placed, so the entry is older than whatever  *)
(* is still to be booked;  its stop is younger than its entry and active.  *)
EntryBooked(e) == e # NoOrder => IsEntry(e) /\ Filled(e)

EntryOlder(e) ==
  /\ e < nextorderId
  /\ pc = "child" => e + 1 < nextorderId
  /\ pc # "process" => \A o \in sent : e < o
  /\ pc = "process" => \A o \in queue :
                         /\ e <= o
                         /\ stage \in {"verdict", "hook"} => e < o

StopRecorded(p) ==
  /\ p.stop_perm_id # NoOrder =>
       p.stop_order_id = p.stop_perm_id /\ IsStop(p.stop_perm_id)
         /\ Activated(p.stop_perm_id) /\ p.entry < p.stop_perm_id
  /\ p.stop_perm_id = NoOrder /\ p.stop_order_id # NoOrder =>
       IsStop(p.stop_order_id) /\ ticket[p.stop_order_id].parent = NoOrder

Book ==
  \A i \in DOMAIN positions :
    /\ EntryBooked(positions[i].entry)
    /\ EntryOlder(positions[i].entry)
    /\ StopRecorded(positions[i])

(* A stop is given up before anybody asks TWS to cancel it, and cancelled  *)
(* when somebody has asked or its entry died.                              *)
DroppedByTWS(s) == ticket[s].parent # NoOrder /\ Dead(ticket[s].parent)

Cancels ==
  /\ \A s \in cancelling : IsStop(s) /\ GivenUp(s)
  /\ \A s \in OrderId :
       IsStop(s) /\ broker[s].state = "cancelled"
         => s \in cancelling \/ DroppedByTWS(s)

(* Only an exit is sent against a stop; what came of its cancel.           *)
Exits ==
  /\ \A x \in OrderId : against[x] # NoOrder => IsExit(x)
  /\ UnconfirmedIsReported

BracketInv ==
  /\ BracketTypeOK
  /\ Recorded
  /\ Tickets
  /\ Session
  /\ Book
  /\ Cancels
  /\ Exits

LEMMA InvInit == Init => BracketInv
<1> SUFFICES ASSUME Init PROVE BracketInv
  OBVIOUS
<1> USE OrdersAssumption, BracketAssumption
<1>1. OrdersTypeOK /\ Recorded
  BY DEF Init, OrdersTypeOK, Recorded, BrokerSound, ViewSound, NoView,
         OrderId, NoOrder, BrokerState, ViewStatus
<1>2. Tickets
  BY DEF Init, Tickets, NoTicket, IsStop, IsEntry, OrderId, NoOrder
<1>3. positions \in Seq(Position)
  <2>1. CASE positions = <<>>
    BY <2>1
  <2>2. CASE \E perm \in {1, NoOrder} :
               positions = <<[entry |-> NoOrder, stop_order_id |-> 1,
                              stop_perm_id |-> perm]>>
    BY <2>2 DEF Position, OrderId, NoOrder
  <2> QED
    BY <2>1, <2>2 DEF Init
<1>4. BracketTypeOK
  <2>1. NoTicket \in [kind : {"none", "entry", "stop", "exit"},
                      parent : OrderId \cup {NoOrder},
                      row : Rows \cup {NoRow}]
    BY DEF NoTicket
  <2>2. [NoTicket EXCEPT !.kind = "stop"]
          \in [kind : {"none", "entry", "stop", "exit"},
              parent : OrderId \cup {NoOrder},
              row : Rows \cup {NoRow}]
    BY DEF NoTicket
  <2>3. ticket \in [OrderId -> [kind : {"none", "entry", "stop", "exit"},
                               parent : OrderId \cup {NoOrder},
                               row : Rows \cup {NoRow}]]
    BY <2>1, <2>2 DEF Init
  <2> QED
    BY <1>1, <1>3, <2>3 DEF Init, BracketTypeOK
<1>5. Session /\ Cancels
  BY DEF Init, Session, Cancels, NoTicket
<1>6. Book
  <2>1. CASE positions = <<>>
    BY <2>1 DEF Book
  <2>2. CASE positions # <<>>
    <3>1. /\ DOMAIN positions = {1}
          /\ positions[1].entry = NoOrder /\ positions[1].stop_order_id = 1
          /\ positions[1].stop_perm_id \in {1, NoOrder}
      BY <2>2 DEF Init
    <3>2. IsStop(1) /\ ticket[1].parent = NoOrder
      <4>1. 1 \in OrderId
        BY DEF OrderId
      <4>2. ticket[1] = [NoTicket EXCEPT !.kind = "stop"]
        BY <2>2, <4>1 DEF Init
      <4> QED
        BY <4>2 DEF IsStop, NoTicket
    <3>3. nextorderId = 2 /\ pc = "idle" /\ sent = {}
      BY <2>2 DEF Init
    <3> QED
      BY <3>1, <3>2, <3>3 DEF Book, EntryBooked, EntryOlder, StopRecorded,
         Activated, NoOrder, Init
  <2> QED
    BY <2>1, <2>2
<1>7. Exits
  BY DEF Init, Exits, UnconfirmedIsReported
<1> QED
  BY <1>1, <1>2, <1>4, <1>5, <1>6, <1>7 DEF BracketInv

-----------------------------------------------------------------------------
(* The orders and their tickets.                                           *)

(* What is sent: a child names the parent just placed.                     *)
LEMMA SentTicket ==
  ASSUME BracketInv, Sends
  PROVE  \E t \in [kind : {"entry", "stop", "exit"},
                   parent : OrderId \cup {NoOrder},
                   row : Rows \cup {NoRow}] :
           /\ Send(t)
           /\ t.parent # NoOrder =>
                t.kind = "stop" /\ t.parent < nextorderId /\ IsEntry(t.parent)
<1> USE DEF BracketInv, BracketTypeOK
<1>1. CASE SendExit
  BY <1>1 DEF SendExit
<1>2. CASE \E r \in Rows : PlaceParent(r)
  BY <1>2 DEF PlaceParent
<1>3. CASE PlaceChild
  <2>1. nextorderId - 1 \in OrderId /\ IsEntry(nextorderId - 1)
    BY <1>3 DEF PlaceChild, Session
  <2>2. nextorderId - 1 < nextorderId
    BY OrdersAssumption DEF OrdersTypeOK
  <2> QED
    BY <1>3, <2>1, <2>2 DEF PlaceChild
<1>4. CASE \E o \in OrderId : UpdateStpAfterFill(o)
  BY <1>4 DEF UpdateStpAfterFill, NoTicket
<1> QED
  BY <1>1, <1>2, <1>3, <1>4 DEF Sends

(* Nothing but a placement touches the tickets.                            *)
LEMMA TicketsKept ==
  ASSUME [Next]_vars, ~Sends
  PROVE  ticket' = ticket
BY StepKinds, InsideKeeps, EndsForget
DEF Forget, BrokerStep, BrokerDropsChild, Reader, bracketVars

LEMMA HeldIsPosition ==
  ASSUME positions \in Seq(Position)
  PROVE  /\ Held \in Position
         /\ positions # <<>> => 1 \in DOMAIN positions /\ Held = positions[1]
<1>1. CASE positions = <<>>
  BY <1>1 DEF Held, NoPosition, Position
<1>2. CASE positions # <<>>
  <2>1. 1 \in DOMAIN positions /\ positions[1] \in Position
    BY <1>2
  <2> QED
    BY <1>2, <2>1 DEF Held
<1> QED
  BY <1>1, <1>2

(* The record main reads is of orders there are.                           *)
LEMMA ReadOrdersExist ==
  ASSUME BracketInv
  PROVE  ReadOrders \subseteq OrderId
<1>1. CASE pc \in {"resolve", "retry", "confirm"}
  <2>1. positions \in Seq(Position) /\ Held.stop_perm_id # NoOrder
    BY <1>1 DEF BracketInv, BracketTypeOK, Session
  <2>2. Held.stop_perm_id \in OrderId
    BY <2>1, HeldIsPosition DEF Position
  <2> QED
    BY <1>1, <2>2 DEF ReadOrders
<1>2. CASE pc \notin {"resolve", "retry", "confirm"}
  BY <1>2 DEF ReadOrders, BracketInv, BracketTypeOK, ChildOf, AtOrder
<1> QED
  BY <1>1, <1>2

(* Each step as a step of the orders.                                      *)
LEMMA OrdersPart ==
  ASSUME BracketInv, [Next]_vars
  PROVE  [OrdersStep]_orderVars \/ BrokerDropsChild \/ Forget
<1>1. CASE Sends
  BY <1>1 DEF Sends, SendExit, PlaceParent, PlaceChild, UpdateStpAfterFill,
     Send, OrdersStep
<1>2. CASE Inside
  BY <1>2, InsideKeeps
<1>3. CASE BrokerStep
  BY <1>3 DEF BrokerStep, OrdersStep, BrokerNext
<1>4. CASE Reader
  BY <1>4, ReadOrdersExist DEF Reader, OrdersStep, ReaderNext
<1> QED
  BY <1>1, <1>2, <1>3, <1>4, StepKinds, EndsForget

LEMMA RecordedStep ==
  ASSUME BracketInv, [Next]_vars
  PROVE  OrdersTypeOK' /\ Recorded'
<1>0. OrdersInv
  BY DEF BracketInv, BracketTypeOK, Recorded, OrdersInv
<1>1. CASE [OrdersStep]_orderVars
  <2>1. OrdersInv'
    BY <1>0, <1>1, OrdersInvStep
  <2>2. \A o \in OrderId : orders'[o].permId \in {0, o}
    BY <1>0, <1>1 DEF BracketInv, Recorded, OrdersInv, OrdersTypeOK, OrdersStep,
       orderVars, ReaderNext, OrderStatus, OpenOrder, ErrorCancelled,
       ErrorRejected, PermId, BrokerNext, BrokerAcknowledge, BrokerFill,
       BrokerCancel, BrokerReject, PlaceOrder
  <2> QED
    BY <2>1, <2>2 DEF OrdersInv, Recorded
<1>2. CASE BrokerDropsChild
  BY <1>0, <1>2 DEF BracketInv, BrokerDropsChild, Recorded, OrdersInv,
     OrdersTypeOK, BrokerSound, ViewSound, Live, BrokerState
<1>3. CASE Forget
  BY <1>0, <1>3, OrdersAssumption DEF Forget, NoView, Recorded, OrdersInv,
     OrdersTypeOK, BrokerSound, ViewSound, ViewStatus
<1> QED
  BY <1>1, <1>2, <1>3, OrdersPart

(* What stays: a ticket once written, an order once sent, a final state.   *)
LEMMA World ==
  ASSUME BracketInv, [Next]_vars, NEW o \in OrderId
  PROVE  /\ nextorderId \in Nat /\ nextorderId' \in Nat
         /\ nextorderId <= nextorderId'
         /\ o < nextorderId => ticket'[o] = ticket[o]
         /\ broker[o].state # "none" => broker'[o].state # "none"
         /\ broker[o].state \in {"filled", "cancelled", "rejected"}
              => broker'[o].state = broker[o].state
<1>0. OrdersInv
  BY DEF BracketInv, BracketTypeOK, Recorded, OrdersInv
<1>1. nextorderId \in Nat /\ nextorderId' \in Nat
  BY <1>0, RecordedStep, OrdersAssumption DEF OrdersInv, OrdersTypeOK
<1>2. o < nextorderId => ticket'[o] = ticket[o]
  <2>1. CASE Sends
    <3> PICK t : Send(t)
      BY <2>1, SentTicket
    <3>1. ticket' = [ticket EXCEPT ![nextorderId] = t]
      BY DEF Send
    <3> QED
      BY <1>1, <3>1 DEF OrderId
  <2> QED
    BY <2>1, TicketsKept
<1>3. CASE [OrdersStep]_orderVars
  BY <1>0, <1>1, <1>2, <1>3, FinalStays
<1>4. CASE BrokerDropsChild
  BY <1>0, <1>1, <1>2, <1>4 DEF BrokerDropsChild, Live, OrdersInv, OrdersTypeOK
<1>5. CASE Forget
  BY <1>1, <1>2, <1>5 DEF Forget
<1> QED
  BY <1>3, <1>4, <1>5, OrdersPart

LEMMA IdsKept ==
  ASSUME [Next]_vars, ~Sends
  PROVE  nextorderId' = nextorderId
BY StepKinds, InsideKeeps, EndsForget
DEF Forget, BrokerStep, BrokerAcknowledge, BrokerFill,
    BrokerCancel, BrokerReject, BrokerDropsChild, Reader, ReaderNext,
    OrderStatus, OpenOrder, ErrorCancelled, ErrorRejected, orderVars

(* A child stays the child of its parent.                                  *)
LEMMA ChildStays ==
  ASSUME BracketInv, [Next]_vars, NEW p \in OrderId, NEW c \in ChildOf(p)
  PROVE  c \in ChildOf(p)'
<1>1. c \in OrderId /\ ticket[c].parent = p /\ p # NoOrder
  BY DEF ChildOf
<1>2. ticket[c].parent # NoTicket.parent
  BY <1>1 DEF NoTicket
<1>3. c < nextorderId
  BY <1>1, <1>2, World DEF BracketInv, Tickets, OrderId
<1> QED
  BY <1>1, <1>3, World DEF ChildOf

LEMMA TicketsStep ==
  ASSUME BracketInv, [Next]_vars
  PROVE  Tickets'
<1> SUFFICES ASSUME NEW o \in OrderId
             PROVE  (/\ o >= nextorderId => ticket[o] = NoTicket
                     /\ o < nextorderId => /\ ticket[o].kind # "none"
                                           /\ broker[o].state # "none"
                     /\ ticket[o].parent # NoOrder
                          => IsStop(o) /\ IsEntry(ticket[o].parent)
                               /\ ticket[o].parent < o
                     /\ IsEntry(o) /\ broker[o].state \in {"working", "filled"}
                          => ChildOf(o) # {})'
  BY DEF Tickets
<1>0. /\ OrdersTypeOK /\ Tickets
      /\ o \in Nat /\ nextorderId \in Nat /\ nextorderId \in 1 .. MaxOrders + 1
  BY OrdersAssumption DEF BracketInv, BracketTypeOK, OrdersTypeOK, OrderId
<1>1. CASE Sends
  <2> PICK t \in [kind : {"entry", "stop", "exit"},
                  parent : OrderId \cup {NoOrder},
                  row : Rows \cup {NoRow}] :
             /\ Send(t)
             /\ t.parent # NoOrder =>
                  t.kind = "stop" /\ t.parent < nextorderId /\ IsEntry(t.parent)
    BY <1>1, SentTicket
  <2>1. /\ nextorderId \in OrderId /\ nextorderId' = nextorderId + 1
        /\ broker' = [broker EXCEPT ![nextorderId].state = "sent"]
        /\ ticket' = [ticket EXCEPT ![nextorderId] = t]
    BY DEF Send, PlaceOrder
  <2>2. /\ broker'[nextorderId].state = "sent"
        /\ ticket'[nextorderId] = t
        /\ \A p \in OrderId : p # nextorderId
             => broker'[p] = broker[p] /\ ticket'[p] = ticket[p]
    BY <2>1, <1>0 DEF OrdersTypeOK, BracketInv, BracketTypeOK
  <2>3. CASE o = nextorderId
    <3>1. t.kind \in {"entry", "stop", "exit"}
          /\ t.parent \in OrderId \cup {NoOrder}
      OBVIOUS
    <3>2. t.parent # NoOrder => ticket'[t.parent] = ticket[t.parent]
      BY <1>0, <2>2, <3>1 DEF OrderId
    <3> QED
      BY <1>0, <2>1, <2>2, <2>3, <3>1, <3>2 DEF IsStop, IsEntry
  <2>4. CASE o # nextorderId
    <3>1. broker'[o] = broker[o] /\ ticket'[o] = ticket[o]
      BY <2>2, <2>4
    <3>2. ticket[o].parent \in OrderId \cup {NoOrder}
      BY DEF BracketInv, BracketTypeOK
    <3>3. o > nextorderId => ticket[o].parent = NoOrder
      BY <1>0 DEF Tickets, NoTicket
    <3>4. ticket[o].parent # NoOrder
            => ticket'[ticket[o].parent] = ticket[ticket[o].parent]
      BY <1>0, <2>2, <2>4, <3>2, <3>3 DEF Tickets, OrderId
    <3>5. ChildOf(o) # {} => ChildOf(o)' # {}
      BY ChildStays
    <3> QED
      BY <1>0, <2>1, <2>4, <3>1, <3>2, <3>3, <3>4, <3>5
      DEF Tickets, IsStop, IsEntry
  <2> QED
    BY <2>3, <2>4
<1>2. CASE ~Sends
  <2>1. ticket' = ticket
    BY <1>2, TicketsKept
  <2>2. nextorderId' = nextorderId
    BY <1>2, IdsKept
  <2>3. broker'[o].state \in {"working", "filled"} /\ IsEntry(o)
          => ChildOf(o) # {}
    <3>1. CASE BrokerStep
      <4> PICK p \in OrderId :
                 \/ Transmitted(p) /\ BrokerAcknowledge(p)
                 \/ Activated(p) /\ BrokerFill(p)
                 \/ BrokerCancel(p)
                 \/ BrokerReject(p)
        BY <3>1 DEF BrokerStep
      <4>1. broker'[o].state \in {"working", "filled"}
              => \/ broker[o].state \in {"working", "filled"}
                 \/ Transmitted(o)
        BY <1>0 DEF OrdersTypeOK, BrokerAcknowledge, BrokerFill, BrokerCancel,
           BrokerReject
      <4> QED
        BY <4>1, <1>0 DEF Tickets, Transmitted
    <3>2. CASE BrokerDropsChild
      BY <3>2, <1>0 DEF BrokerDropsChild, OrdersTypeOK, Tickets
    <3>3. CASE UNCHANGED broker
      BY <3>3, <1>0 DEF Tickets
    <3> QED
      BY <1>2, <3>1, <3>2, <3>3, StepKinds, InsideKeeps, EndsForget
      DEF Forget, Reader, ReaderNext, OrderStatus, OpenOrder,
          ErrorCancelled, ErrorRejected, orderVars
  <2> QED
    BY <1>0, <2>1, <2>2, <2>3, World DEF Tickets, IsStop, IsEntry, ChildOf
<1> QED
  BY <1>1, <1>2

-----------------------------------------------------------------------------
(* Types.                                                                  *)

(* The session's, the files' and the history's own variables.              *)
OwnTypes ==
  /\ cancelling \subseteq OrderId
  /\ rowStatus \in [Rows -> {"absent", "PENDING", "EXECUTED", "PARTIAL_FILL",
                             "FAILED"}]
  /\ rowPerm \in [Rows -> OrderId \cup {NoOrder}]
  /\ failed_stp_cancels \subseteq OrderId
  /\ pc \in Places \cup {"idle"}
  /\ todo \subseteq Rows
  /\ curRow \in Rows \cup {NoRow}
  /\ confirmed \in BOOLEAN
  /\ sent \subseteq OrderId
  /\ queue \subseteq OrderId
  /\ stage \in {"verdict", "hook", "position", "backfill"}
  /\ against \in [OrderId -> OrderId \cup {NoOrder}]
  /\ unguarded \subseteq Rows
  /\ slips \subseteq SlipKind
  /\ bared \subseteq OrderId
  /\ asked \subseteq OrderId
  /\ unnoted \subseteq OrderId

(* The order being backfilled is a filled entry, so it has a child, and    *)
(* the permId written is that child's.                                     *)
LEMMA BackfillsChild ==
  ASSUME BracketInv, NEW o \in OrderId, AtOrder(o), stage = "position"
  PROVE  /\ IsEntry(o) /\ Filled(o)
         /\ BackfilledPerm(o) \in OrderId \cup {0}
         /\ BackfilledPerm(o) > 0 => BackfilledPerm(o) \in ChildOf(o)
<1>1. IsEntry(o) /\ Filled(o)
  BY DEF BracketInv, Session
<1>2. ChildOf(o) # {}
  BY <1>1 DEF BracketInv, Tickets, Filled
<1> DEFINE c == CHOOSE c \in ChildOf(o) : TRUE
<1>3. c \in ChildOf(o)
  BY <1>2
<1>4. c \in OrderId
  BY <1>3 DEF ChildOf
<1> HIDE DEF c
<1>5. orders[c].permId \in {0, c}
  BY <1>4 DEF BracketInv, Recorded
<1>6. BackfilledPerm(o) = orders[c].permId
  BY DEF BackfilledPerm, c
<1> QED
  BY <1>1, <1>3, <1>4, <1>5, <1>6

(* active_positions.csv changes only while results are booked.             *)
LEMMA PositionsKept ==
  ASSUME BracketInv, [Next]_vars
  PROVE  \/ UNCHANGED positions
         \/ \E o \in OrderId : RemovePosition(o)
         \/ \E o \in OrderId : AddPosition(o)
         \/ \E o \in OrderId : BackfillBracketStp(o)
<1>1. CASE Sends
  BY <1>1 DEF Sends, SendExit, PlaceParent, PlaceChild, UpdateStpAfterFill,
     fileVars
<1>2. CASE Inside
  <2>1. CASE \E r \in Rows : AppendSignal(r) \/ SkipRow(r) \/ BeginExit(r)
    BY <2>1 DEF AppendSignal, SkipRow, BeginExit, fileVars
  <2>2. CASE \/ StartSession \/ DropExit \/ EndExits \/ EndEntries
             \/ EndPersist
    BY <2>2 DEF StartSession, DropExit, EndExits, EndEntries, EndPersist,
       fileVars
  <2>3. CASE \/ RefreshOpenOrders \/ CancelStop \/ CancelConfirmed
             \/ CancelUnconfirmed
    BY <2>3 DEF RefreshOpenOrders, CancelStop, CancelConfirmed,
       CancelUnconfirmed, CancelStep, fileVars
  <2>4. CASE \E o \in OrderId : PersistPerm(o) \/ MarkExecuted(o)
                                  \/ SettleUnfilled(o)
    BY <2>4 DEF PersistPerm, MarkExecuted, SettleUnfilled
  <2>5. CASE UNCHANGED vars
    BY <2>5 DEF vars, bracketVars, fileVars
  <2> QED
    BY <1>2, <2>1, <2>2, <2>3, <2>4, <2>5 DEF Inside
<1> QED
  BY <1>1, <1>2, StepKinds, EndsForget
  DEF Forget, BrokerStep, BrokerDropsChild, Reader, bracketVars,
      fileVars

LEMMA PositionsTyped ==
  ASSUME BracketInv, [Next]_vars
  PROVE  positions' \in Seq(Position)
<1>0. positions \in Seq(Position)
  BY DEF BracketInv, BracketTypeOK
<1>1. CASE \E o \in OrderId : RemovePosition(o)
  BY <1>1 DEF RemovePosition
<1>2. CASE \E o \in OrderId : AddPosition(o)
  <2> PICK o \in OrderId : AddPosition(o)
    BY <1>2
  <2> DEFINE p == [entry |-> o, stop_order_id |-> NoOrder,
                   stop_perm_id |-> NoOrder]
  <2>1. p \in Position
    BY DEF Position
  <2>2. positions' = Append(positions, p)
    BY DEF AddPosition
  <2> HIDE DEF p
  <2> QED
    BY <1>0, <2>1, <2>2
<1>3. CASE \E o \in OrderId : BackfillBracketStp(o)
  <2> PICK o \in OrderId : BackfillBracketStp(o)
    BY <1>3
  <2> DEFINE perm == BackfilledPerm(o)
             q(i) == [positions[i] EXCEPT !.stop_order_id = perm,
                                          !.stop_perm_id = perm]
  <2>1. \/ positions' = positions
        \/ perm > 0 /\ positions' = [i \in DOMAIN positions |-> q(i)]
    BY DEF BackfillBracketStp
  <2>2. perm > 0 => perm \in OrderId
    BY BackfillsChild DEF BackfillBracketStp, ChildOf
  <2>3. \A i \in DOMAIN positions : positions[i] \in Position
    BY <1>0
  <2> HIDE DEF perm
  <2>4. perm \in OrderId => \A i \in DOMAIN positions : q(i) \in Position
    BY <2>3 DEF Position
  <2> HIDE DEF q
  <2>5. Len(positions) \in Nat /\ DOMAIN positions = 1 .. Len(positions)
    BY <1>0
  <2> QED
    BY <1>0, <2>1, <2>2, <2>4, <2>5
<1> QED
  BY <1>0, <1>1, <1>2, <1>3, PositionsKept

LEMMA OwnTypesStep ==
  ASSUME BracketInv, [Next]_vars
  PROVE  OwnTypes'
<1>0. OwnTypes /\ positions \in Seq(Position)
  BY DEF BracketInv, BracketTypeOK, OwnTypes
<1>h. /\ Held.stop_perm_id \in OrderId \cup {NoOrder}
      /\ Held.stop_order_id \in OrderId \cup {NoOrder}
      /\ StopInHand \in OrderId \cup {NoOrder}
  BY <1>0, HeldIsPosition DEF Position, StopInHand
<1>c. CutShort \subseteq OrderId
  BY <1>0 DEF OwnTypes, CutShort
<1>p. \A o \in OrderId : orders[o].permId > 0 => orders[o].permId \in OrderId
  BY DEF BracketInv, Recorded
<1> USE DEF OwnTypes, Places, SlipKind, historyVars, askVars
<1>1. CASE \E r \in Rows : AppendSignal(r) \/ SkipRow(r)
  BY <1>0, <1>1 DEF AppendSignal, SkipRow, fileVars, cancelVars, rowVars,
     bookVars, outsideVars
<1>2. CASE \E r \in Rows : BeginExit(r)
  BY <1>0, <1>h, <1>2 DEF BeginExit, fileVars, bookVars
<1>3. CASE StartSession \/ EndExits \/ EndEntries \/ EndPersist \/ DropExit
  BY <1>0, <1>c, <1>3 DEF StartSession, EndExits, EndEntries, EndPersist,
     DropExit, outsideVars, fileVars, cancelVars, rowVars, bookVars
<1>4. CASE RefreshOpenOrders \/ CancelConfirmed
  BY <1>0, <1>4 DEF RefreshOpenOrders, CancelConfirmed, CancelStep, fileVars,
     cancelVars, rowVars, bookVars
<1>5. CASE CancelStop \/ CancelUnconfirmed
  <2>1. Held.stop_perm_id \in OrderId
    BY <1>5, <1>h DEF CancelStop, CancelUnconfirmed, BracketInv, Session
  <2> QED
    BY <1>0, <1>5, <2>1 DEF CancelStop, CancelUnconfirmed, NotedPermId,
       CancelStep, fileVars, cancelVars, rowVars, bookVars
<1>6. CASE SendExit
  <2>1. nextorderId \in OrderId /\ StopInHand \in OrderId \cup {NoOrder}
    BY <1>6, <1>h DEF SendExit, Send, PlaceOrder, BracketInv, Session
  <2> QED
    BY <1>0, <1>6, <2>1 DEF SendExit, fileVars, cancelVars
<1>7. CASE \E r \in Rows : PlaceParent(r)
  BY <1>0, <1>7 DEF PlaceParent, fileVars, cancelVars, bookVars
<1>8. CASE PlaceChild
  <2>1. nextorderId - 1 \in OrderId
    BY <1>8 DEF PlaceChild, BracketInv, Session
  <2> QED
    BY <1>0, <1>8, <2>1 DEF PlaceChild, fileVars, cancelVars
<1>9. CASE \E o \in OrderId : UpdateStpAfterFill(o)
  BY <1>0, <1>9 DEF UpdateStpAfterFill, fileVars, cancelVars, rowVars, ChildOf
<1>10. CASE \E o \in OrderId : PersistPerm(o)
  BY <1>0, <1>p, <1>10 DEF PersistPerm, PersistPendingPerm, cancelVars,
     rowVars, outsideVars
<1>11. CASE \E o \in OrderId : \/ RemovePosition(o) \/ AddPosition(o)
                               \/ BackfillBracketStp(o) \/ MarkExecuted(o)
  BY <1>0, <1>11 DEF RemovePosition, AddPosition, BackfillBracketStp,
     MarkExecuted, UpdateSignalStatus, BookingStep, cancelVars, rowVars
<1>12. CASE \E o \in OrderId : SettleUnfilled(o)
  BY <1>0, <1>p, <1>12 DEF SettleUnfilled, UpdateSignalStatus,
     PersistPendingPerm, BookingStep, cancelVars, rowVars
<1>13. CASE Ends
  BY <1>0, <1>c, <1>13, EndsForget DEF Forget, fileVars
<1>14. CASE BrokerStep \/ BrokerDropsChild \/ Reader \/ UNCHANGED vars
  BY <1>0, <1>14 DEF BrokerStep, BrokerDropsChild, Reader, vars, bracketVars,
     fileVars, cancelVars, rowVars, bookVars
<1> QED
  BY <1>1, <1>2, <1>3, <1>4, <1>5, <1>6, <1>7, <1>8, <1>9, <1>10, <1>11, <1>12,
     <1>13, <1>14 DEF Next, Main, Ends

LEMMA TypesStep ==
  ASSUME BracketInv, [Next]_vars
  PROVE  BracketTypeOK'
<1>1. ticket' \in [OrderId -> [kind : {"none", "entry", "stop", "exit"},
                               parent : OrderId \cup {NoOrder},
                               row : Rows \cup {NoRow}]]
  <2>0. ticket \in [OrderId -> [kind : {"none", "entry", "stop", "exit"},
                                parent : OrderId \cup {NoOrder},
                                row : Rows \cup {NoRow}]]
    BY DEF BracketInv, BracketTypeOK
  <2>1. CASE Sends
    <3> PICK t \in [kind : {"entry", "stop", "exit"},
                    parent : OrderId \cup {NoOrder},
                    row : Rows \cup {NoRow}] : Send(t)
      BY <2>1, SentTicket
    <3>1. ticket' = [ticket EXCEPT ![nextorderId] = t]
      BY DEF Send
    <3>2. t \in [kind : {"none", "entry", "stop", "exit"},
                 parent : OrderId \cup {NoOrder},
                 row : Rows \cup {NoRow}]
      OBVIOUS
    <3> QED
      BY <2>0, <3>1, <3>2
  <2> QED
    BY <2>0, <2>1, TicketsKept
<1> QED
  BY <1>1, RecordedStep, PositionsTyped, OwnTypesStep DEF BracketTypeOK, OwnTypes

-----------------------------------------------------------------------------
(* What each place in run() knows.                                         *)

(* The steps of main by what they do to `sent`, and the rest.              *)
LEMMA SentKept ==
  ASSUME [Next]_vars
  PROVE  \/ UNCHANGED sent /\ (pc = "process" => pc' = "process")
         \/ sent' = {} /\ queue' = {} /\ pc' = "idle" /\ stage' = "verdict"
         \/ SendExit
         \/ PlaceChild
<1> USE DEF bookVars, historyVars
<1>1. CASE Inside
  <2>1. CASE \E r \in Rows : AppendSignal(r) \/ SkipRow(r) \/ BeginExit(r)
    BY <2>1 DEF AppendSignal, SkipRow, BeginExit
  <2>2. CASE \/ StartSession \/ DropExit \/ EndExits \/ EndEntries
             \/ EndPersist
    BY <2>2 DEF StartSession, DropExit, EndExits, EndEntries, EndPersist
  <2>3. CASE \/ RefreshOpenOrders \/ CancelStop \/ CancelConfirmed
             \/ CancelUnconfirmed
    BY <2>3 DEF RefreshOpenOrders, CancelStop, CancelConfirmed,
       CancelUnconfirmed, CancelStep
  <2>4. CASE \E o \in OrderId : \/ PersistPerm(o) \/ RemovePosition(o)
                                \/ AddPosition(o) \/ BackfillBracketStp(o)
                                \/ MarkExecuted(o) \/ SettleUnfilled(o)
    BY <2>4 DEF PersistPerm, RemovePosition, AddPosition, BackfillBracketStp,
       MarkExecuted, SettleUnfilled, BookingStep
  <2>5. CASE UNCHANGED vars
    BY <2>5 DEF vars, bracketVars
  <2> QED
    BY <1>1, <2>1, <2>2, <2>3, <2>4, <2>5 DEF Inside
<1>2. CASE (\E r \in Rows : PlaceParent(r)) \/ (\E o \in OrderId : UpdateStpAfterFill(o))
  BY <1>2 DEF PlaceParent, UpdateStpAfterFill
<1> QED
  BY <1>1, <1>2, StepKinds, EndsForget
  DEF Sends, Forget, BrokerStep, BrokerDropsChild, Reader,
      bracketVars

LEMMA SentStep ==
  ASSUME BracketInv, [Next]_vars
  PROVE  \A o \in sent' : o < nextorderId' /\ ticket'[o].kind # "stop"
<1>0. /\ sent \subseteq OrderId
      /\ \A o \in sent : o < nextorderId /\ ticket[o].kind # "stop"
  BY DEF BracketInv, BracketTypeOK, Session, IsStop
<1>1. \A o \in sent : o < nextorderId' /\ ticket'[o].kind # "stop"
  BY <1>0, World DEF OrderId
<1>2. CASE SendExit
  <2>1. /\ nextorderId \in OrderId /\ nextorderId' = nextorderId + 1
        /\ ticket'[nextorderId].kind = "exit"
        /\ sent' = sent \cup {nextorderId}
    BY <1>2 DEF SendExit, Send, PlaceOrder, BracketInv, BracketTypeOK
  <2> QED
    BY <1>1, <2>1 DEF OrderId
<1>3. CASE PlaceChild
  <2>1. /\ nextorderId - 1 \in OrderId /\ IsEntry(nextorderId - 1)
        /\ sent' = sent \cup {nextorderId - 1}
    BY <1>3 DEF PlaceChild, BracketInv, Session
  <2>2. nextorderId - 1 < nextorderId /\ nextorderId - 1 < nextorderId'
    BY <2>1, World DEF OrderId
  <2>3. ticket'[nextorderId - 1].kind = "entry"
    BY <2>1, <2>2, World DEF IsEntry
  <2> QED
    BY <1>1, <2>1, <2>2, <2>3
<1> QED
  BY <1>1, <1>2, <1>3, SentKept

(* A verdict "Filled" is the broker's.                                     *)
LEMMA FilledIsFilled ==
  ASSUME BracketInv, NEW o \in OrderId, IsFilled(o)
  PROVE  Filled(o)
  BY DEF BracketInv, Recorded, ViewSound, IsFilled, Filled

LEMMA AtOneOrder ==
  ASSUME NEW o \in OrderId, NEW p \in OrderId, AtOrder(o), AtOrder(p)
  PROVE  o = p
  BY OrdersAssumption DEF AtOrder, OrderId

(* What holds of an order that is being booked goes on holding.            *)
LEMMA EntryStaysFilled ==
  ASSUME BracketInv, [Next]_vars, NEW o \in OrderId, IsEntry(o), Filled(o)
  PROVE  (IsEntry(o) /\ Filled(o))'
<1>1. o < nextorderId
  BY World DEF BracketInv, Tickets, IsEntry, NoTicket, OrderId
<1> QED
  BY <1>1, World DEF IsEntry, Filled

LEMMA SessionStep ==
  ASSUME BracketInv, [Next]_vars
  PROVE  Session'
<1> DEFINE
  Places1 == /\ pc \in {"resolve", "retry", "confirm"} =>
                  Held.stop_perm_id # NoOrder
             /\ pc \in {"resolve", "retry", "confirm", "sell", "child"}
                  => curRow \in Rows
             /\ pc = "child" => /\ nextorderId - 1 \in OrderId
                                /\ ticket[nextorderId - 1].kind = "entry"
  Booked == /\ queue \subseteq sent
            /\ pc # "process" => stage = "verdict"
  Stages == stage \in {"hook", "position"} =>
              \A o \in OrderId : AtOrder(o) => IsEntry(o) /\ Filled(o)
<1>0. Places1 /\ Booked /\ Stages
  BY DEF BracketInv, Session, IsEntry
<1>h. UNCHANGED positions => UNCHANGED Held
  BY DEF Held
<1>1. Places1' /\ Booked'
  <2> USE <1>0, <1>h DEF fileVars, rowVars, bookVars, cancelVars, historyVars
  <2>1. CASE \E r \in Rows : AppendSignal(r) \/ SkipRow(r) \/ BeginExit(r)
    BY <2>1 DEF AppendSignal, SkipRow, BeginExit, outsideVars, orderVars
  <2>2. CASE \/ StartSession \/ DropExit \/ EndExits \/ EndEntries
             \/ EndPersist
    BY <2>2 DEF StartSession, DropExit, EndExits, EndEntries, EndPersist
  <2>3. CASE \/ RefreshOpenOrders \/ CancelStop \/ CancelConfirmed
             \/ CancelUnconfirmed
    BY <2>3 DEF RefreshOpenOrders, CancelStop, CancelConfirmed,
       CancelUnconfirmed, CancelStep
  <2>4. CASE SendExit \/ PlaceChild
    BY <2>4 DEF SendExit, PlaceChild
  <2>5. CASE \E r \in Rows : PlaceParent(r)
    <3> PICK r \in Rows : PlaceParent(r)
      BY <2>5
    <3>1. /\ nextorderId \in OrderId /\ nextorderId' = nextorderId + 1
          /\ ticket'[nextorderId].kind = "entry"
      BY DEF PlaceParent, Send, PlaceOrder, BracketInv, BracketTypeOK
    <3>2. nextorderId' - 1 = nextorderId
      BY <3>1 DEF OrderId
    <3> QED
      BY <3>1, <3>2 DEF PlaceParent
  <2>6. CASE \E o \in OrderId : PersistPerm(o)
    BY <2>6 DEF PersistPerm
  <2>7. CASE \E o \in OrderId : UpdateStpAfterFill(o)
    BY <2>7 DEF UpdateStpAfterFill, AtOrder
  <2>8. CASE \E o \in OrderId : \/ RemovePosition(o) \/ AddPosition(o)
                                \/ BackfillBracketStp(o) \/ MarkExecuted(o)
                                \/ SettleUnfilled(o)
    BY <2>8 DEF RemovePosition, AddPosition, BackfillBracketStp, MarkExecuted,
       SettleUnfilled, BookingStep, AtOrder
  <2>9. CASE Ends
    BY <2>9, EndsForget DEF Forget
  <2>10. CASE BrokerStep \/ BrokerDropsChild \/ Reader \/ UNCHANGED vars
    <3>1. UNCHANGED nextorderId
      BY <2>10 DEF BrokerStep, BrokerAcknowledge, BrokerFill, BrokerCancel,
         BrokerReject, BrokerDropsChild, Reader, ReaderNext, OrderStatus,
         OpenOrder, ErrorCancelled, ErrorRejected, vars, orderVars
    <3> QED
      BY <2>10, <3>1 DEF BrokerStep, BrokerDropsChild, Reader, vars, bracketVars
  <2> QED
    BY <2>1, <2>2, <2>3, <2>4, <2>5, <2>6, <2>7, <2>8, <2>9, <2>10
    DEF Next, Main, Ends
<1>2. Stages'
  <2> SUFFICES ASSUME stage' \in {"hook", "position"},
                      NEW o \in OrderId, AtOrder(o)'
               PROVE  (IsEntry(o) /\ Filled(o))'
    OBVIOUS
  <2> USE DEF bookVars, historyVars
  <2>1. CASE \E p \in OrderId : UpdateStpAfterFill(p) \/ AddPosition(p)
    <3> PICK p \in OrderId : UpdateStpAfterFill(p) \/ AddPosition(p)
      BY <2>1
    <3>1. AtOrder(p) /\ IsEntry(p) /\ Filled(p) /\ UNCHANGED <<pc, queue>>
      BY FilledIsFilled DEF UpdateStpAfterFill, AddPosition, BookingStep
    <3>2. o = p
      BY <3>1, AtOneOrder DEF AtOrder
    <3> QED
      BY <3>1, <3>2, EntryStaysFilled
  <2>2. CASE UNCHANGED <<pc, queue, stage>>
    BY <1>0, <2>2, EntryStaysFilled DEF AtOrder
  <2>3. \/ UNCHANGED <<pc, queue, stage>>
        \/ \E p \in OrderId : UpdateStpAfterFill(p) \/ AddPosition(p)
        \/ UNCHANGED stage /\ pc # "process"
        \/ stage' \in {"verdict", "backfill"}
    <3>1. CASE \E r \in Rows : \/ AppendSignal(r) \/ SkipRow(r) \/ BeginExit(r)
                               \/ PlaceParent(r)
      BY <3>1 DEF AppendSignal, SkipRow, BeginExit, PlaceParent
    <3>2. CASE \/ StartSession \/ DropExit \/ EndExits \/ EndEntries
               \/ EndPersist \/ SendExit \/ PlaceChild
      BY <3>2 DEF StartSession, DropExit, EndExits, EndEntries, EndPersist,
         SendExit, PlaceChild
    <3>3. CASE \/ RefreshOpenOrders \/ CancelStop \/ CancelConfirmed
               \/ CancelUnconfirmed
      BY <3>3 DEF RefreshOpenOrders, CancelStop, CancelConfirmed,
         CancelUnconfirmed, CancelStep
    <3>4. CASE \E p \in OrderId : \/ PersistPerm(p) \/ RemovePosition(p)
                                  \/ BackfillBracketStp(p) \/ MarkExecuted(p)
                                  \/ SettleUnfilled(p)
      BY <1>0, <3>4 DEF PersistPerm, RemovePosition, BackfillBracketStp,
         MarkExecuted, SettleUnfilled
    <3>5. CASE Ends
      BY <3>5, EndsForget DEF Forget
    <3>6. CASE BrokerStep \/ BrokerDropsChild \/ Reader \/ UNCHANGED vars
      BY <3>6 DEF BrokerStep, BrokerDropsChild, Reader, vars, bracketVars
    <3> QED
      BY <2>1, <3>1, <3>2, <3>3, <3>4, <3>5, <3>6 DEF Next, Main, Ends
  <2>4. stage \in {"hook", "position"} => pc = "process"
    BY <1>0
  <2> QED
    BY <2>1, <2>2, <2>3, <2>4
<1> QED
  BY <1>1, <1>2, SentStep DEF Session, IsEntry, IsStop

-----------------------------------------------------------------------------
(* The rows of active_positions.csv.                                       *)

(* What the steps do to the orders still to be booked.                     *)
LEMMA QueueKept ==
  ASSUME [Next]_vars
  PROVE  \/ pc' # "process"
         \/ EndPersist
         \/ \E o \in OrderId : \/ RemovePosition(o) \/ UpdateStpAfterFill(o)
                               \/ AddPosition(o) \/ BackfillBracketStp(o)
                               \/ MarkExecuted(o) \/ SettleUnfilled(o)
         \/ UNCHANGED <<pc, queue, stage>>
<1> USE DEF bookVars, historyVars, cancelVars
<1>1. CASE \E r \in Rows : \/ AppendSignal(r) \/ SkipRow(r) \/ BeginExit(r)
                           \/ PlaceParent(r)
  BY <1>1 DEF AppendSignal, SkipRow, BeginExit, PlaceParent
<1>2. CASE \/ StartSession \/ DropExit \/ EndExits \/ EndEntries
           \/ SendExit \/ PlaceChild
  BY <1>2 DEF StartSession, DropExit, EndExits, EndEntries, SendExit, PlaceChild
<1>3. CASE \/ RefreshOpenOrders \/ CancelStop \/ CancelConfirmed
           \/ CancelUnconfirmed
  BY <1>3 DEF RefreshOpenOrders, CancelStop, CancelConfirmed,
     CancelUnconfirmed, CancelStep
<1>4. CASE Ends \/ (\E o \in OrderId : PersistPerm(o))
  BY <1>4, EndsForget DEF Forget, PersistPerm
<1>5. CASE BrokerStep \/ BrokerDropsChild \/ Reader \/ UNCHANGED vars
  BY <1>5 DEF BrokerStep, BrokerDropsChild, Reader, vars, bracketVars
<1> QED
  BY <1>1, <1>2, <1>3, <1>4, <1>5 DEF Next, Main, Ends

(* Whatever is booked or placed comes after the entries of the rows.       *)
LEMMA EntryOlderStep ==
  ASSUME BracketInv, [Next]_vars, NEW e \in OrderId \cup {NoOrder},
         EntryOlder(e), ~(\E o \in OrderId : RemovePosition(o))
  PROVE  EntryOlder(e)'
<1>0. /\ nextorderId \in Nat /\ nextorderId' \in Nat /\ e \in Nat
      /\ nextorderId <= nextorderId'
      /\ sent \subseteq OrderId /\ queue \subseteq OrderId
      /\ \A o \in OrderId : o \in Nat
  <2>1. 1 \in OrderId
    BY OrdersAssumption DEF OrderId
  <2> QED
    BY <2>1, World DEF OrderId, NoOrder, BracketInv, BracketTypeOK
<1>1. e < nextorderId'
  BY <1>0 DEF EntryOlder
<1>2. ASSUME pc' = "child" PROVE e + 1 < nextorderId'
  <2>1. (\E r \in Rows : PlaceParent(r)) \/ (pc = "child" /\ ~PlaceChild)
    <3> USE <1>2 DEF bookVars, historyVars, cancelVars, rowVars
    <3>1. CASE \E r \in Rows : AppendSignal(r) \/ SkipRow(r) \/ BeginExit(r)
      BY <3>1 DEF AppendSignal, SkipRow, BeginExit
    <3>2. CASE \/ StartSession \/ DropExit \/ EndExits \/ EndEntries
               \/ EndPersist \/ SendExit \/ PlaceChild
      BY <3>2 DEF StartSession, DropExit, EndExits, EndEntries, EndPersist,
         SendExit, PlaceChild
    <3>3. CASE \/ RefreshOpenOrders \/ CancelStop \/ CancelConfirmed
               \/ CancelUnconfirmed
      BY <3>3 DEF RefreshOpenOrders, CancelStop, CancelConfirmed,
         CancelUnconfirmed, CancelStep
    <3>4. CASE Ends
      BY <3>4, EndsForget DEF Forget
    <3>5. CASE \E o \in OrderId : \/ PersistPerm(o) \/ RemovePosition(o)
                                  \/ UpdateStpAfterFill(o) \/ AddPosition(o)
                                  \/ BackfillBracketStp(o) \/ MarkExecuted(o)
                                  \/ SettleUnfilled(o)
      BY <3>5 DEF PersistPerm, RemovePosition, UpdateStpAfterFill, AddPosition,
         BackfillBracketStp, MarkExecuted, SettleUnfilled, BookingStep, AtOrder
    <3>6. CASE BrokerStep \/ BrokerDropsChild \/ Reader \/ UNCHANGED vars
      <4>1. UNCHANGED pc
        BY <3>6 DEF BrokerStep, BrokerDropsChild, Reader, vars, bracketVars
      <4> QED
        BY <4>1, <1>2 DEF PlaceChild
    <3> QED
      BY <3>1, <3>2, <3>3, <3>4, <3>5, <3>6 DEF Next, Main, Ends
  <2>2. CASE \E r \in Rows : PlaceParent(r)
    <3>1. nextorderId' = nextorderId + 1
      BY <2>2 DEF PlaceParent, Send, PlaceOrder
    <3> QED
      BY <1>0, <3>1 DEF EntryOlder
  <2>3. CASE pc = "child" /\ ~PlaceChild
    <3>1. e + 1 < nextorderId
      BY <2>3 DEF EntryOlder
    <3>2. /\ nextorderId \in Nat /\ nextorderId' \in Nat /\ e \in Nat
          /\ nextorderId <= nextorderId'
      BY <1>0
    <3> QED
      BY <3>1, <3>2
  <2> QED
    BY <2>1, <2>2, <2>3
<1>3. ASSUME pc' # "process", NEW o \in sent' PROVE e < o
  <2>1. CASE SendExit
    BY <1>0, <1>3, <2>1 DEF SendExit, EntryOlder
  <2>2. CASE PlaceChild
    BY <1>0, <1>3, <2>2 DEF PlaceChild, EntryOlder
  <2> QED
    BY <1>3, <2>1, <2>2, SentKept DEF EntryOlder
<1>4. ASSUME pc' = "process", NEW q \in queue'
      PROVE  e <= q /\ (stage' \in {"verdict", "hook"} => e < q)
  <2>1. CASE EndPersist
    BY <1>0, <1>4, <2>1 DEF EndPersist, EntryOlder
  <2>2. CASE \E o \in OrderId : MarkExecuted(o)
    <3> PICK o \in OrderId : MarkExecuted(o)
      BY <2>2
    <3>1. /\ pc = "process" /\ o \in queue /\ q \in queue /\ q # o /\ o <= q
      BY <1>4 DEF MarkExecuted, AtOrder
    <3> QED
      BY <1>0, <3>1 DEF EntryOlder
  <2>3. CASE \E o \in OrderId : \/ UpdateStpAfterFill(o) \/ AddPosition(o)
                                \/ BackfillBracketStp(o) \/ SettleUnfilled(o)
    BY <1>4, <2>3 DEF UpdateStpAfterFill, AddPosition, BackfillBracketStp,
       SettleUnfilled, AtOrder, EntryOlder
  <2>4. CASE UNCHANGED <<pc, queue, stage>>
    BY <1>4, <2>4 DEF EntryOlder
  <2> QED
    BY <1>4, <2>1, <2>2, <2>3, <2>4, QueueKept
<1> QED
  BY <1>1, <1>2, <1>3, <1>4 DEF EntryOlder

(* A recorded stop stays an active stop.                                   *)
LEMMA StopStays ==
  ASSUME BracketInv, [Next]_vars, NEW s \in OrderId, IsStop(s)
  PROVE  /\ ticket'[s] = ticket[s]
         /\ IsStop(s)'
         /\ Activated(s) => Activated(s)'
<1>1. s < nextorderId
  BY World DEF BracketInv, Tickets, IsStop, NoTicket, OrderId
<1>2. ticket'[s] = ticket[s]
  BY <1>1, World
<1>3. ticket[s].parent \in OrderId \cup {NoOrder}
  BY DEF BracketInv, BracketTypeOK
<1> QED
  BY <1>2, <1>3, World DEF IsStop, Activated

LEMMA StopRecordedStep ==
  ASSUME BracketInv, [Next]_vars, NEW p \in Position, StopRecorded(p)
  PROVE  StopRecorded(p)'
<1>1. /\ p.stop_perm_id \in OrderId \cup {NoOrder}
      /\ p.stop_order_id \in OrderId \cup {NoOrder}
  BY DEF Position
<1> QED
  BY <1>1, StopStays DEF StopRecorded

LEMMA BookStep ==
  ASSUME BracketInv, [Next]_vars
  PROVE  Book'
<1>0. /\ positions \in Seq(Position)
      /\ \A i \in DOMAIN positions : positions[i] \in Position
  BY DEF BracketInv, BracketTypeOK
<1>1. \A i \in DOMAIN positions :
        positions[i].entry \in OrderId \cup {NoOrder}
  BY <1>0 DEF Position
<1>2. \A i \in DOMAIN positions : /\ EntryBooked(positions[i].entry)
                                  /\ EntryOlder(positions[i].entry)
                                  /\ StopRecorded(positions[i])
  BY DEF BracketInv, Book
<1>3. ASSUME NEW i \in DOMAIN positions
      PROVE  \A p : p = positions[i].entry => EntryBooked(p)'
  <2>1. positions[i].entry \in OrderId \cup {NoOrder}
    BY <1>1
  <2> QED
    BY <1>2, <2>1, EntryStaysFilled DEF EntryBooked
<1>4. CASE \E o \in OrderId : RemovePosition(o)
  BY <1>4 DEF RemovePosition, Book
<1>5. CASE UNCHANGED positions /\ ~(\E o \in OrderId : RemovePosition(o))
  <2> SUFFICES ASSUME NEW i \in DOMAIN positions
               PROVE  \A p \in Position : p = positions[i] =>
                        (EntryBooked(p.entry) /\ EntryOlder(p.entry)
                           /\ StopRecorded(p))'
    BY <1>0, <1>5 DEF Book
  <2> TAKE p \in Position
  <2> HAVE p = positions[i]
  <2>1. p.entry \in OrderId \cup {NoOrder}
    BY <1>1
  <2>2. EntryBooked(p.entry) /\ EntryOlder(p.entry) /\ StopRecorded(p)
    BY <1>2
  <2> QED
    BY <1>3, <1>5, <2>1, <2>2, EntryOlderStep, StopRecordedStep
<1>6. CASE \E o \in OrderId : AddPosition(o)
  <2> PICK o \in OrderId : AddPosition(o)
    BY <1>6
  <2> DEFINE p == [entry |-> o, stop_order_id |-> NoOrder,
                   stop_perm_id |-> NoOrder]
  <2>1. positions' = Append(positions, p)
    BY DEF AddPosition
  <2>2. EntryBooked(o)'
    BY FilledIsFilled, EntryStaysFilled DEF AddPosition, EntryBooked
  <2>3. EntryOlder(o)'
    <3>1. /\ AtOrder(o) /\ stage' = "position" /\ pc' = pc /\ queue' = queue
      BY DEF AddPosition, BookingStep
    <3>2. o \in sent /\ o < nextorderId
      BY <3>1 DEF AtOrder, BracketInv, Session
    <3>3. o < nextorderId'
      BY <3>2, World DEF OrderId
    <3>4. pc = "process"
      BY <3>1 DEF AtOrder
    <3> QED
      BY <3>1, <3>3, <3>4 DEF AtOrder, EntryOlder
  <2>4. StopRecorded(p)'
    BY DEF StopRecorded
  <2>5. ASSUME NEW i \in DOMAIN positions, NEW r \in Position,
               r = positions[i]
        PROVE  (EntryBooked(r.entry) /\ EntryOlder(r.entry) /\ StopRecorded(r))'
    <3>1. r.entry \in OrderId \cup {NoOrder}
      BY <1>1, <2>5
    <3>2. EntryBooked(r.entry) /\ EntryOlder(r.entry) /\ StopRecorded(r)
      BY <1>2, <2>5
    <3>3. ~(\E q \in OrderId : RemovePosition(q))
      BY AtOneOrder DEF AddPosition, RemovePosition, IsEntry, IsExit
    <3> QED
      BY <1>3, <2>5, <3>1, <3>2, <3>3, EntryOlderStep, StopRecordedStep
  <2>6. p.entry = o
    OBVIOUS
  <2> HIDE DEF p
  <2>7. ASSUME NEW i \in DOMAIN positions'
        PROVE  \/ positions'[i] = p
               \/ i \in DOMAIN positions /\ positions'[i] = positions[i]
    BY <1>0, <2>1, <2>7
  <2> QED
    BY <1>0, <2>2, <2>3, <2>4, <2>5, <2>6, <2>7 DEF Book
<1>7. CASE \E o \in OrderId : BackfillBracketStp(o)
  <2> PICK o \in OrderId : BackfillBracketStp(o)
    BY <1>7
  <2>1. ~(\E x \in OrderId : RemovePosition(x))
    BY DEF BackfillBracketStp, RemovePosition
  <2>2. CASE UNCHANGED positions
    BY <1>5, <2>1, <2>2
  <2>3. CASE BackfilledPerm(o) > 0 /\ ~UNCHANGED positions
    <3>0. AtOrder(o) /\ stage = "position"
      BY DEF BackfillBracketStp
    <3> PICK c \in ChildOf(o) : c = BackfilledPerm(o)
      BY <2>3, <3>0, BackfillsChild
    <3>1. IsEntry(o) /\ Filled(o)
      BY <3>0, BackfillsChild
    <3>2. c \in OrderId /\ ticket[c].parent = o /\ o # NoOrder /\ c # NoOrder
      BY OrdersAssumption DEF ChildOf, OrderId, NoOrder
    <3>3. IsStop(c) /\ o < c
      BY <3>2 DEF BracketInv, Tickets
    <3>4. IsStop(c)' /\ Activated(c)'
      BY <3>1, <3>2, <3>3, StopStays DEF Activated, Filled
    <3>5. positions' = [i \in DOMAIN positions |->
                          [positions[i] EXCEPT !.stop_order_id = c,
                                               !.stop_perm_id = c]]
      BY <2>3 DEF BackfillBracketStp
    <3> SUFFICES ASSUME NEW i \in DOMAIN positions
                 PROVE  (/\ EntryBooked(positions[i].entry)
                         /\ EntryOlder(positions[i].entry)
                         /\ StopRecorded(positions[i]))'
      BY <3>5 DEF Book
    <3>6. /\ positions'[i].entry = positions[i].entry
          /\ positions'[i].stop_order_id = c
          /\ positions'[i].stop_perm_id = c
      BY <1>0, <3>5 DEF Position
    <3>7. positions[i].entry \in OrderId \cup {NoOrder}
      BY <1>1
    <3>8. (EntryBooked(positions[i].entry) /\ EntryOlder(positions[i].entry))'
      <4> SUFFICES ASSUME NEW e \in OrderId \cup {NoOrder},
                          e = positions[i].entry
                   PROVE  (EntryBooked(e) /\ EntryOlder(e))'
        BY <3>6, <3>7
      <4> QED
        BY <1>2, <1>3, <2>1, EntryOlderStep
    <3>9. positions[i].entry < c
      <4>1. positions[i].entry <= o
        BY <1>2, <3>0 DEF AtOrder, EntryOlder
      <4> QED
        BY <3>2, <3>3, <3>7, <4>1 DEF OrderId, NoOrder
    <3>10. StopRecorded(positions[i])'
      BY <3>2, <3>4, <3>6, <3>9 DEF StopRecorded, IsStop, Activated
    <3> QED
      BY <3>8, <3>10
  <2> QED
    BY <2>2, <2>3 DEF BackfillBracketStp
<1> QED
  BY <1>4, <1>5, <1>6, <1>7, PositionsKept

-----------------------------------------------------------------------------
(* Cancels and the exits they are for.                                     *)

(* What was asked, and what was let slip, is not taken back.               *)
LEMMA HistoryKept ==
  ASSUME [Next]_vars
  PROVE  /\ cancelling \subseteq cancelling'
         /\ slips \subseteq slips'
         /\ bared \subseteq bared'
         /\ UNCHANGED against \/ SendExit
         /\ \/ UNCHANGED cancelling
            \/ \E r \in Rows : BeginExit(r)
            \/ CancelStop
            \/ \E o \in OrderId : UpdateStpAfterFill(o)
<1> USE DEF historyVars, cancelVars, outsideVars
<1>1. CASE \E r \in Rows : \/ AppendSignal(r) \/ SkipRow(r) \/ BeginExit(r)
                           \/ PlaceParent(r)
  BY <1>1 DEF AppendSignal, SkipRow, BeginExit, PlaceParent
<1>2. CASE \/ StartSession \/ DropExit \/ EndExits \/ EndEntries \/ EndPersist
           \/ SendExit \/ PlaceChild
  BY <1>2 DEF StartSession, DropExit, EndExits, EndEntries, EndPersist,
     SendExit, PlaceChild
<1>3. CASE \/ RefreshOpenOrders \/ CancelStop \/ CancelConfirmed
           \/ CancelUnconfirmed
  BY <1>3 DEF RefreshOpenOrders, CancelStop, CancelConfirmed,
     CancelUnconfirmed, CancelStep
<1>4. CASE \E o \in OrderId : \/ PersistPerm(o) \/ RemovePosition(o)
                              \/ UpdateStpAfterFill(o) \/ AddPosition(o)
                              \/ BackfillBracketStp(o) \/ MarkExecuted(o)
                              \/ SettleUnfilled(o)
  BY <1>4 DEF PersistPerm, RemovePosition, UpdateStpAfterFill, AddPosition,
     BackfillBracketStp, MarkExecuted, SettleUnfilled, BookingStep
<1>5. CASE Ends
  BY <1>5, EndsForget DEF Forget
<1>6. CASE BrokerStep \/ BrokerDropsChild \/ Reader \/ UNCHANGED vars
  BY <1>6 DEF BrokerStep, BrokerDropsChild, Reader, vars, bracketVars
<1> QED
  BY <1>1, <1>2, <1>3, <1>4, <1>5, <1>6 DEF Next, Main, Ends

(* How an exit in hand is left, and how it is come by.                     *)
LEMMA ExitInHand ==
  ASSUME [Next]_vars
  PROVE  /\ pc \in {"confirm", "sell"} =>
              \/ pc' \in {"confirm", "sell"} /\ UNCHANGED positions
              \/ SendExit
              \/ bared' = bared \cup CutShort
         /\ pc' = "sell" =>
              \/ pc = "sell" /\ UNCHANGED positions
              \/ \E r \in Rows : BeginExit(r)
              \/ CancelConfirmed
              \/ CancelUnconfirmed
<1> USE DEF fileVars, cancelVars
<1>1. CASE \E r \in Rows : \/ AppendSignal(r) \/ SkipRow(r) \/ BeginExit(r)
                           \/ PlaceParent(r)
  BY <1>1 DEF AppendSignal, SkipRow, BeginExit, PlaceParent
<1>2. CASE \/ StartSession \/ DropExit \/ EndExits \/ EndEntries \/ EndPersist
           \/ SendExit \/ PlaceChild
  BY <1>2 DEF StartSession, DropExit, EndExits, EndEntries, EndPersist,
     SendExit, PlaceChild
<1>3. CASE \/ RefreshOpenOrders \/ CancelStop \/ CancelConfirmed
           \/ CancelUnconfirmed
  BY <1>3 DEF RefreshOpenOrders, CancelStop, CancelConfirmed,
     CancelUnconfirmed, CancelStep
<1>4. CASE \E o \in OrderId : \/ PersistPerm(o) \/ RemovePosition(o)
                              \/ UpdateStpAfterFill(o) \/ AddPosition(o)
                              \/ BackfillBracketStp(o) \/ MarkExecuted(o)
                              \/ SettleUnfilled(o)
  BY <1>4 DEF PersistPerm, RemovePosition, UpdateStpAfterFill, AddPosition,
     BackfillBracketStp, MarkExecuted, SettleUnfilled, BookingStep, AtOrder
<1>5. CASE Ends
  BY <1>5, EndsForget DEF Forget
<1>6. CASE BrokerStep \/ BrokerDropsChild \/ Reader \/ UNCHANGED vars
  BY <1>6 DEF BrokerStep, BrokerDropsChild, Reader, vars, bracketVars
<1> QED
  BY <1>1, <1>2, <1>3, <1>4, <1>5, <1>6 DEF Next, Main, Ends

(* What an exit was sent against stays written.                            *)
LEMMA AgainstStays ==
  ASSUME BracketInv, [Next]_vars, NEW x \in OrderId, against[x] # NoOrder
  PROVE  against'[x] = against[x] /\ IsExit(x) /\ x < nextorderId
<1>1. IsExit(x)
  BY DEF BracketInv, Exits
<1>2. x < nextorderId
  BY <1>1, World DEF BracketInv, Tickets, IsExit, NoTicket, OrderId
<1>3. SendExit => against' = [against EXCEPT ![nextorderId] = StopInHand]
  BY DEF SendExit
<1>4. x # nextorderId
  BY <1>2 DEF OrderId
<1> QED
  BY <1>1, <1>2, <1>3, <1>4, HistoryKept DEF BracketInv, BracketTypeOK

(* The row in hand: its stop, by either number.                            *)
LEMMA HeldRow ==
  ASSUME BracketInv
  PROVE  /\ Held \in Position
         /\ StopRecorded(Held)
         /\ StopInHand # NoOrder =>
              StopInHand \in OrderId /\ IsStop(StopInHand)
                /\ Activated(StopInHand)
<1>1. /\ Held \in Position
      /\ positions # <<>> => 1 \in DOMAIN positions /\ Held = positions[1]
  BY HeldIsPosition DEF BracketInv, BracketTypeOK
<1>2. StopRecorded(NoPosition)
  BY DEF StopRecorded, NoPosition
<1>3. positions = <<>> => Held = NoPosition
  BY DEF Held
<1>4. StopRecorded(Held)
  BY <1>1, <1>2, <1>3 DEF BracketInv, Book
<1> QED
  BY <1>1, <1>4 DEF StopRecorded, StopInHand, Position, Activated

(* Who asks for the cancel of a stop gives the stop up.                    *)
LEMMA NewCancel ==
  ASSUME BracketInv, [Next]_vars, NEW s \in cancelling', s \notin cancelling
  PROVE  s \in OrderId /\ IsStop(s) /\ GivenUp(s)'
<1>1. CASE \E r \in Rows : BeginExit(r)
  <2>1. /\ s = StopInHand /\ StopInHand # NoOrder
        /\ pc' = "sell" /\ UNCHANGED positions
    BY <1>1 DEF BeginExit, fileVars, StopInHand
  <2> QED
    BY <2>1, HeldRow DEF GivenUp, StopInHand, Held
<1>2. CASE CancelStop
  <2>1. Held.stop_perm_id # NoOrder
    BY <1>2 DEF CancelStop, BracketInv, Session
  <2>2. /\ s = StopInHand /\ StopInHand # NoOrder
        /\ pc' = "confirm" /\ UNCHANGED positions
    BY <1>2, <2>1 DEF CancelStop, CancelStep, fileVars, StopInHand
  <2> QED
    BY <2>2, HeldRow DEF GivenUp, StopInHand, Held
<1>3. CASE \E o \in OrderId : UpdateStpAfterFill(o)
  <2> PICK o \in OrderId : UpdateStpAfterFill(o)
    BY <1>3
  <2>1. s \in ChildOf(o) /\ s \in bared'
    BY DEF UpdateStpAfterFill
  <2>2. s \in OrderId /\ ticket[s].parent # NoOrder
    BY <2>1 DEF ChildOf
  <2>3. IsStop(s)
    BY <2>2 DEF BracketInv, Tickets
  <2> QED
    BY <2>1, <2>2, <2>3 DEF GivenUp
<1> QED
  BY <1>1, <1>2, <1>3, HistoryKept

(* A stop that is given up stays so: the exit in hand is sent, or dropped, *)
(* or cut short.                                                           *)
LEMMA StaysGivenUp ==
  ASSUME BracketInv, [Next]_vars, NEW s \in cancelling, GivenUp(s)
  PROVE  GivenUp(s)'
<1>0. s \in OrderId /\ s # NoOrder
  BY DEF BracketInv, BracketTypeOK, OrderId, NoOrder
<1>1. CASE pc \in {"confirm", "sell"} /\ StopInHand = s
  <2>1. CASE pc' \in {"confirm", "sell"} /\ UNCHANGED positions
    BY <1>1, <2>1 DEF GivenUp, StopInHand, Held
  <2>2. CASE SendExit
    <3>1. nextorderId \in OrderId /\ against'[nextorderId] = s
      BY <1>1, <2>2 DEF SendExit, Send, PlaceOrder, BracketInv, BracketTypeOK
    <3> QED
      BY <3>1 DEF GivenUp
  <2>3. CASE bared' = bared \cup CutShort
    BY <1>1, <2>3 DEF GivenUp, CutShort
  <2> QED
    BY <1>1, <2>1, <2>2, <2>3, ExitInHand
<1>2. CASE \E x \in OrderId : against[x] = s
  BY <1>0, <1>2, AgainstStays DEF GivenUp
<1>3. CASE s \in bared
  BY <1>3, HistoryKept DEF GivenUp
<1> QED
  BY <1>1, <1>2, <1>3 DEF GivenUp

LEMMA CancelsStep ==
  ASSUME BracketInv, [Next]_vars
  PROVE  Cancels'
<1>1. ASSUME NEW s \in cancelling' PROVE (IsStop(s) /\ GivenUp(s))'
  <2>1. s \in OrderId /\ IsStop(s)
    BY NewCancel DEF BracketInv, BracketTypeOK, Cancels
  <2>2. GivenUp(s)'
    BY NewCancel, StaysGivenUp DEF BracketInv, Cancels
  <2> QED
    BY <2>1, <2>2, StopStays
<1>2. ASSUME NEW s \in OrderId, IsStop(s)', broker'[s].state = "cancelled"
      PROVE  s \in cancelling' \/ DroppedByTWS(s)'
  <2>0. broker \in [OrderId -> [state : BrokerState, filled : 0 .. Qty]]
    BY DEF BracketInv, BracketTypeOK, OrdersTypeOK
  <2>1. ~Sends \/ s # nextorderId
    BY <1>2, <2>0, SentTicket DEF Send, PlaceOrder
  <2>2. ticket'[s] = ticket[s] /\ IsStop(s)
    <3>1. ticket'[s] = ticket[s]
      <4>1. CASE Sends
        <5> PICK t : Send(t)
          BY <4>1, SentTicket
        <5>1. ticket' = [ticket EXCEPT ![nextorderId] = t]
          BY DEF Send
        <5> QED
          BY <2>1, <4>1, <5>1 DEF BracketInv, BracketTypeOK
      <4> QED
        BY <4>1, TicketsKept
    <3> QED
      BY <1>2, <3>1 DEF IsStop
  <2>3. DroppedByTWS(s) => DroppedByTWS(s)'
    <3>1. ticket[s].parent \in OrderId \cup {NoOrder}
      BY DEF BracketInv, BracketTypeOK
    <3> QED
      BY <2>2, <3>1, World DEF DroppedByTWS, Dead
  <2>4. CASE broker[s].state = "cancelled"
    <3>1. s \in cancelling \/ DroppedByTWS(s)
      BY <2>2, <2>4 DEF BracketInv, Cancels
    <3> QED
      BY <2>3, <3>1, HistoryKept
  <2>5. CASE broker[s].state # "cancelled" /\ BrokerStep
    <3>1. s \in cancelling
      BY <1>2, <2>0, <2>2, <2>5
      DEF BrokerStep, BrokerAcknowledge, BrokerFill, BrokerCancel, BrokerReject,
          GoodTillCancelled
    <3> QED
      BY <3>1, HistoryKept
  <2>6. CASE broker[s].state # "cancelled" /\ BrokerDropsChild
    <3>1. DroppedByTWS(s)
      BY <1>2, <2>0, <2>6 DEF BrokerDropsChild, DroppedByTWS
    <3> QED
      BY <2>3, <3>1
  <2>7. CASE Sends
    BY <1>2, <2>0, <2>1, <2>4, <2>7, SentTicket DEF Send, PlaceOrder
  <2>8. CASE UNCHANGED broker
    BY <1>2, <2>4, <2>8
  <2> QED
    BY <2>4, <2>5, <2>6, <2>7, <2>8, StepKinds, InsideKeeps, EndsForget
    DEF Forget, Reader, ReaderNext, OrderStatus, OpenOrder,
        ErrorCancelled, ErrorRejected, orderVars
<1> QED
  BY <1>1, <1>2 DEF Cancels

(* What the session has set out to cancel, and what it does about it.      *)
LEMMA AskedKept ==
  ASSUME BracketInv, [Next]_vars
  PROVE  \/ asked' = {}
         \/ \E r \in Rows : BeginExit(r)
         \/ \E o \in OrderId : UpdateStpAfterFill(o)
         \/ CancelConfirmed
         \/ CancelUnconfirmed
         \/ /\ UNCHANGED <<asked, unnoted, failed_stp_cancels>>
            /\ pc \in {"resolve", "retry", "confirm"} =>
                 /\ pc' \in {"resolve", "retry", "confirm"}
                 /\ UNCHANGED positions
<1> USE DEF historyVars, askVars, cancelVars, fileVars
<1>1. CASE \E r \in Rows : \/ AppendSignal(r) \/ SkipRow(r) \/ BeginExit(r)
                           \/ PlaceParent(r)
  BY <1>1 DEF AppendSignal, SkipRow, PlaceParent
<1>2. CASE \/ StartSession \/ DropExit \/ EndExits \/ EndEntries \/ EndPersist
           \/ SendExit \/ PlaceChild
  BY <1>2 DEF StartSession, DropExit, EndExits, EndEntries, EndPersist,
     SendExit, PlaceChild
<1>3. CASE \/ RefreshOpenOrders \/ CancelStop \/ CancelConfirmed
           \/ CancelUnconfirmed
  BY <1>3 DEF RefreshOpenOrders, CancelStop, CancelStep
<1>4. CASE \E o \in OrderId : \/ PersistPerm(o) \/ RemovePosition(o)
                              \/ UpdateStpAfterFill(o) \/ AddPosition(o)
                              \/ BackfillBracketStp(o) \/ MarkExecuted(o)
                              \/ SettleUnfilled(o)
  BY <1>4 DEF PersistPerm, RemovePosition, AddPosition, BackfillBracketStp,
     MarkExecuted, SettleUnfilled, BookingStep, AtOrder
<1>5. CASE Ends
  BY <1>5, EndsForget DEF Forget
<1>6. CASE BrokerStep \/ BrokerDropsChild \/ Reader \/ UNCHANGED vars
  BY <1>6 DEF BrokerStep, BrokerDropsChild, Reader, vars, bracketVars
<1> QED
  BY <1>1, <1>2, <1>3, <1>4, <1>5, <1>6 DEF Next, Main, Ends

(* What the reader's "Cancelled" says of the stop in hand is true.         *)
LEMMA ConfirmedIsCancelled ==
  ASSUME BracketInv, CancelConfirmed
  PROVE  /\ Held.stop_perm_id # NoOrder /\ StopInHand = Held.stop_perm_id
         /\ Held.stop_perm_id \in OrderId
         /\ broker[Held.stop_perm_id].state = "cancelled"
<1>1. Held.stop_perm_id # NoOrder
  BY DEF CancelConfirmed, BracketInv, Session
<1>2. Held.stop_perm_id \in OrderId
  BY <1>1, HeldRow DEF Position
<1>3. broker[Held.stop_perm_id].state = "cancelled"
  BY <1>2 DEF CancelConfirmed, StopIsCancelled, BracketInv, Recorded, ViewSound
<1> QED
  BY <1>1, <1>2, <1>3 DEF StopInHand

LEMMA UnconfirmedStep ==
  ASSUME BracketInv, [Next]_vars
  PROVE  UnconfirmedIsReported'
<1> DEFINE Waiting(s) == pc \in {"resolve", "retry", "confirm"} /\ StopInHand = s
           Told(s) == \/ broker[s].state = "cancelled"
                      \/ Waiting(s)
                      \/ s \in failed_stp_cancels
<1> SUFFICES ASSUME NEW s \in asked', s \notin unnoted'
             PROVE  Told(s)'
  BY DEF UnconfirmedIsReported
<1>0. /\ asked \subseteq OrderId
      /\ \A q \in asked \ unnoted : Told(q)
  BY DEF BracketInv, BracketTypeOK, Exits, UnconfirmedIsReported
<1>1. s \in OrderId /\ broker[s].state = "cancelled"
        => broker'[s].state = "cancelled"
  BY World
<1>2. CASE \E r \in Rows : BeginExit(r)
  <2> PICK r \in Rows : BeginExit(r)
    BY <1>2
  <2>1. /\ UNCHANGED <<positions, failed_stp_cancels>>
        /\ pc = "exits" /\ unnoted \subseteq unnoted'
    BY DEF BeginExit, fileVars
  <2>2. CASE s \in asked
    BY <1>0, <1>1, <2>1, <2>2
  <2>3. CASE s \notin asked
    <3>1. s = StopInHand /\ StopInHand # NoOrder
      BY <2>3 DEF BeginExit
    <3>2. pc' = "resolve"
      BY <3>1 DEF BeginExit
    <3> QED
      BY <2>1, <3>1, <3>2 DEF StopInHand, Held
  <2> QED
    BY <2>2, <2>3
<1>3. CASE \E o \in OrderId : UpdateStpAfterFill(o)
  <2>1. /\ s \in asked \ unnoted /\ pc = "process"
        /\ UNCHANGED failed_stp_cancels
    BY <1>3 DEF UpdateStpAfterFill, AtOrder, cancelVars
  <2> QED
    BY <1>0, <1>1, <2>1
<1>4. CASE CancelConfirmed
  <2>1. s \in asked \ unnoted /\ UNCHANGED failed_stp_cancels
    BY <1>4 DEF CancelConfirmed, CancelStep, historyVars, askVars
  <2> QED
    BY <1>0, <1>1, <1>4, <2>1, ConfirmedIsCancelled
<1>5. CASE CancelUnconfirmed
  <2>1. /\ s \in asked \ unnoted /\ pc \in {"resolve", "retry", "confirm"}
        /\ failed_stp_cancels' = failed_stp_cancels \cup {Held.stop_perm_id}
    BY <1>5 DEF CancelUnconfirmed, NotedPermId, CancelStep, historyVars, askVars
  <2>2. StopInHand = Held.stop_perm_id
    BY <2>1 DEF BracketInv, Session, StopInHand
  <2> QED
    BY <1>0, <1>1, <2>1, <2>2
<1>6. CASE /\ UNCHANGED <<asked, unnoted, failed_stp_cancels>>
           /\ pc \in {"resolve", "retry", "confirm"} =>
                /\ pc' \in {"resolve", "retry", "confirm"}
                /\ UNCHANGED positions
  <2>1. Waiting(s) => Waiting(s)'
    BY <1>6 DEF StopInHand, Held
  <2> QED
    BY <1>0, <1>1, <1>6, <2>1
<1> QED
  BY <1>2, <1>3, <1>4, <1>5, <1>6, AskedKept

LEMMA ExitsStep ==
  ASSUME BracketInv, [Next]_vars
  PROVE  Exits'
<1>1. ASSUME NEW x \in OrderId, against'[x] # NoOrder
      PROVE  IsExit(x)'
  <2>1. CASE against[x] # NoOrder
    BY <2>1, AgainstStays, World DEF IsExit
  <2>2. CASE against[x] = NoOrder
    <3>1. SendExit
      BY <1>1, <2>2, HistoryKept
    <3>2. /\ nextorderId \in OrderId
          /\ ticket'[nextorderId].kind = "exit"
          /\ against' = [against EXCEPT ![nextorderId] = StopInHand]
      BY <3>1 DEF SendExit, Send, PlaceOrder, BracketInv, BracketTypeOK
    <3> QED
      BY <1>1, <2>2, <3>2 DEF IsExit
  <2> QED
    BY <2>1, <2>2
<1> QED
  BY <1>1, UnconfirmedStep DEF Exits

-----------------------------------------------------------------------------
(* Rows and their entries.                                                 *)

(* The entries of a row that can trade.                                    *)
CountedFor(r) ==
  {o \in OrderId : /\ ticket[o].row = r
                   /\ IsEntry(o) /\ Transmitted(o)
                   /\ ~Dead(o)}

(* An entry may yet be placed for the row, in this session or the next; or *)
(* the parent just placed is its own, and the child will activate it.      *)
MayBePlaced(r) ==
  \/ Pending(r) /\ rowPerm[r] = NoOrder /\ (pc = "idle" \/ r \in todo)
  \/ pc = "child" /\ curRow = r

RowGuarded(r) ==
  /\ \A o, p \in CountedFor(r) : o = p
  /\ MayBePlaced(r) => CountedFor(r) = {}

Resubmission ==
  /\ \A r \in todo : Pending(r)
  /\ pc \in {"idle", "persist", "process"} => todo = {}
  /\ pc = "child" => curRow \notin todo /\ ticket[nextorderId - 1].row = curRow
  /\ curRow # NoRow => rowStatus[curRow] # "absent"
  /\ \A o \in OrderId :
       ticket[o].row # NoRow => rowStatus[ticket[o].row] # "absent"
  /\ \A r \in Rows \ unguarded : RowGuarded(r)

(* What the steps that place no entry and end no session do to the rows.   *)
RowsQuiet ==
  /\ todo' \subseteq todo
  /\ UNCHANGED unguarded
  /\ pc' = "idle" => pc = "idle"
  /\ pc' \in {"persist", "process"} =>
       pc \in {"persist", "process"} \/ todo = {}
  /\ pc' = "child" =>
       pc = "child" /\ UNCHANGED <<todo, curRow, nextorderId, ticket>>
  /\ curRow' \in {NoRow, curRow} \/ curRow' \in todo
  /\ \/ UNCHANGED <<rowStatus, rowPerm>>
     \/ /\ pc \in {"persist", "process"}
        /\ \A r \in Rows : \/ rowStatus'[r] = rowStatus[r]
                           \/ rowStatus'[r] \notin {"absent", "PENDING"}

LEMMA RowKinds ==
  ASSUME BracketInv, [Next]_vars
  PROVE  \/ \E r \in Rows : AppendSignal(r) \/ PlaceParent(r)
         \/ StartSession
         \/ PlaceChild
         \/ Forget
         \/ RowsQuiet
<1> USE DEF RowsQuiet, fileVars, rowVars, historyVars
<1>0. rowStatus \in [Rows -> {"absent", "PENDING", "EXECUTED", "PARTIAL_FILL",
                              "FAILED"}]
  BY DEF BracketInv, BracketTypeOK
<1>1. CASE \E r \in Rows : SkipRow(r) \/ BeginExit(r)
  BY <1>1 DEF SkipRow, BeginExit
<1>2. CASE \/ DropExit \/ EndExits \/ EndEntries \/ EndPersist
  BY <1>2 DEF DropExit, EndExits, EndEntries, EndPersist
<1>3. CASE SendExit
  BY <1>3 DEF SendExit
<1>4. CASE \/ RefreshOpenOrders \/ CancelStop \/ CancelConfirmed
           \/ CancelUnconfirmed
  BY <1>4 DEF RefreshOpenOrders, CancelStop, CancelConfirmed,
     CancelUnconfirmed, CancelStep
<1>5. CASE \E o \in OrderId : \/ PersistPerm(o) \/ RemovePosition(o)
                              \/ UpdateStpAfterFill(o) \/ AddPosition(o)
                              \/ BackfillBracketStp(o)
  BY <1>5 DEF PersistPerm, PersistPendingPerm, RemovePosition,
     UpdateStpAfterFill, AddPosition, BackfillBracketStp, BookingStep, AtOrder
<1>6. CASE \E o \in OrderId : MarkExecuted(o) \/ SettleUnfilled(o)
  <2> PICK o \in OrderId : MarkExecuted(o) \/ SettleUnfilled(o)
    BY <1>6
  <2>1. /\ pc = "process" /\ UNCHANGED <<pc, todo, curRow, unguarded>>
    BY DEF MarkExecuted, SettleUnfilled, BookingStep, AtOrder
  <2>2. \/ UNCHANGED rowStatus
        \/ \E s \in {"EXECUTED", "FAILED", "PARTIAL_FILL"} :
             UpdateSignalStatus(s)
    BY DEF MarkExecuted, SettleUnfilled
  <2>3. \A r \in Rows : \/ rowStatus'[r] = rowStatus[r]
                        \/ rowStatus'[r] \notin {"absent", "PENDING"}
    BY <2>2 DEF UpdateSignalStatus
  <2> QED
    BY <2>1, <2>3
<1>7. CASE BrokerStep \/ BrokerDropsChild \/ UNCHANGED vars
  <2>1. UNCHANGED bracketVars /\ UNCHANGED nextorderId
    BY <1>7 DEF BrokerStep, BrokerAcknowledge, BrokerFill, BrokerCancel,
       BrokerReject, BrokerDropsChild, vars, orderVars
  <2> QED
    BY <2>1 DEF bracketVars
<1>8. CASE Reader
  <2>1. UNCHANGED bracketVars /\ UNCHANGED nextorderId
    BY <1>8 DEF Reader, ReaderNext, OrderStatus, OpenOrder, ErrorCancelled,
       ErrorRejected
  <2> QED
    BY <2>1 DEF bracketVars
<1> QED
  BY <1>1, <1>2, <1>3, <1>4, <1>5, <1>6, <1>7, <1>8, EndsForget
  DEF Next, Main, Ends

(* Only a child, when it is placed, makes an entry count.                  *)
LEMMA CountedKept ==
  ASSUME BracketInv, [Next]_vars, NEW r \in Rows, NEW o \in CountedFor(r)'
  PROVE  \/ o \in CountedFor(r)
         \/ PlaceChild /\ o = nextorderId - 1
<1>1. o \in OrderId /\ ticket'[o].kind = "entry" /\ ticket'[o].row = r
      /\ ChildOf(o)' # {} /\ broker'[o].state \notin {"cancelled", "rejected"}
  BY DEF CountedFor, IsEntry, Transmitted, Dead
<1>2. nextorderId \in Nat /\ nextorderId' \in Nat
  BY <1>1, World
<1>3. ~Dead(o)
  BY <1>1, World DEF Dead
<1>4. CASE ~Sends
  <2>1. ticket' = ticket
    BY <1>4, TicketsKept
  <2>2. ChildOf(o)' = ChildOf(o)
    BY <2>1 DEF ChildOf
  <2> QED
    BY <1>1, <1>3, <2>1, <2>2 DEF CountedFor, IsEntry, Transmitted
<1>5. CASE Sends
  <2> PICK t \in [kind : {"entry", "stop", "exit"},
                  parent : OrderId \cup {NoOrder},
                  row : Rows \cup {NoRow}] :
             /\ Send(t)
             /\ t.parent # NoOrder =>
                  t.kind = "stop" /\ t.parent < nextorderId /\ IsEntry(t.parent)
    BY <1>5, SentTicket
  <2>1. /\ ticket' = [ticket EXCEPT ![nextorderId] = t]
        /\ nextorderId \in OrderId
        /\ ticket'[nextorderId] = t
        /\ \A p \in OrderId : p # nextorderId => ticket'[p] = ticket[p]
    BY DEF Send, PlaceOrder, BracketInv, BracketTypeOK
  <2> PICK c \in OrderId : ticket'[c].parent = o /\ o # NoOrder
    BY <1>1 DEF ChildOf
  <2>2. CASE c = nextorderId
    <3>1. t.parent = o /\ o < nextorderId /\ t.kind = "stop"
      BY <2>1, <2>2
    <3>2. PlaceChild
      <4>1. ticket'[nextorderId].kind = "stop"
            /\ ticket'[nextorderId].parent # NoOrder
        BY <2>1, <3>1
      <4>0. \A u : Send(u) => ticket'[nextorderId] = u
        BY <2>1 DEF Send, BracketInv, BracketTypeOK
      <4>2. SendExit \/ (\E q \in Rows : PlaceParent(q)) => t.parent = NoOrder
        <5>1. SendExit =>
                t = [kind |-> "exit", parent |-> NoOrder, row |-> curRow]
          BY <2>1, <4>0 DEF SendExit
        <5>2. \A q \in Rows : PlaceParent(q) =>
                t = [kind |-> "entry", parent |-> NoOrder, row |-> q]
          BY <2>1, <4>0 DEF PlaceParent
        <5> QED
          BY <5>1, <5>2
      <4>3. ~(\E q \in OrderId : UpdateStpAfterFill(q))
        BY <4>0, <4>1 DEF UpdateStpAfterFill, NoTicket
      <4> QED
        BY <1>5, <3>1, <2>1, <1>1, <4>2, <4>3 DEF Sends
    <3>3. t = [kind |-> "stop", parent |-> nextorderId - 1, row |-> curRow]
      BY <2>1, <3>2 DEF PlaceChild, Send, BracketInv, BracketTypeOK
    <3> QED
      BY <3>1, <3>2, <3>3
  <2>3. CASE c # nextorderId
    <3>1. ticket[c].parent = o
      BY <2>1, <2>3
    <3>2. c < nextorderId
      BY <1>2, <3>1 DEF BracketInv, Tickets, NoTicket, OrderId
    <3>3. o < c
      BY <3>1 DEF BracketInv, Tickets
    <3>4. ticket'[o] = ticket[o]
      BY <1>1, <2>1, <3>2, <3>3, <1>2 DEF OrderId
    <3>5. c \in ChildOf(o)
      BY <1>1, <2>2, <2>3, <3>1 DEF ChildOf
    <3> QED
      BY <1>1, <1>3, <3>4, <3>5 DEF CountedFor, IsEntry, Transmitted
  <2> QED
    BY <2>2, <2>3
<1> QED
  BY <1>4, <1>5

(* A row for which an entry may be placed was such a row, or is new, or    *)
(* its session has ended; in the end of a session `unguarded` has it.      *)
LEMMA MayBePlacedStep ==
  ASSUME BracketInv, Resubmission, [Next]_vars,
         NEW r \in Rows \ unguarded', MayBePlaced(r)'
  PROVE  r \notin unguarded /\ CountedFor(r) = {} /\ (PlaceChild => r # curRow)
<1> USE DEF fileVars, rowVars, historyVars
<1>0. /\ todo \subseteq Rows
      /\ rowStatus \in [Rows -> {"absent", "PENDING", "EXECUTED",
                                 "PARTIAL_FILL", "FAILED"}]
      /\ \A q \in Rows \ unguarded :
           MayBePlaced(q) => CountedFor(q) = {}
  BY DEF BracketInv, BracketTypeOK, Resubmission, RowGuarded
<1>1. CASE \E q \in Rows : AppendSignal(q)
  <2> PICK q \in Rows : AppendSignal(q)
    BY <1>1
  <2>1. /\ UNCHANGED <<unguarded, todo, curRow, rowPerm, pc>> /\ pc = "idle"
        /\ rowStatus[q] = "absent"
        /\ rowStatus' = [rowStatus EXCEPT ![q] = "PENDING"]
    BY DEF AppendSignal
  <2>2. ~PlaceChild
    BY <2>1 DEF PlaceChild
  <2>3. CASE r = q
    <3>1. r # NoRow
      BY BracketAssumption
    <3>2. CountedFor(r) = {}
      BY <2>1, <2>3, <3>1 DEF CountedFor, Resubmission
    <3> QED
      BY <2>1, <2>2, <3>2
  <2>4. CASE r # q
    <3>1. MayBePlaced(r)
      BY <1>0, <2>1, <2>4 DEF MayBePlaced, Pending
    <3> QED
      BY <1>0, <2>1, <2>2, <3>1
  <2> QED
    BY <2>3, <2>4
<1>2. CASE \E q \in Rows : PlaceParent(q)
  <2> PICK q \in Rows : PlaceParent(q)
    BY <1>2
  <2>1. /\ pc = "entries" /\ pc' = "child" /\ q \in todo /\ rowPerm[q] = NoOrder
        /\ todo' = todo \ {q} /\ curRow' = q
        /\ UNCHANGED <<unguarded, rowPerm, rowStatus>>
    BY DEF PlaceParent, AlreadySubmitted
  <2>2. ~PlaceChild
    BY <2>1 DEF PlaceChild
  <2>3. Pending(q)
    BY <2>1 DEF Resubmission
  <2>4. MayBePlaced(r)
    BY <2>1, <2>3 DEF MayBePlaced, Pending
  <2> QED
    BY <1>0, <2>1, <2>2, <2>4
<1>3. CASE StartSession
  <2>1. /\ pc = "idle" /\ pc' = "exits"
        /\ UNCHANGED <<unguarded, rowPerm, rowStatus>>
    BY <1>3 DEF StartSession
  <2>2. MayBePlaced(r) /\ ~PlaceChild
    BY <2>1 DEF MayBePlaced, Pending, PlaceChild
  <2> QED
    BY <1>0, <2>1, <2>2
<1>4. CASE PlaceChild
  <2>1. /\ pc' = "entries" /\ r \in todo /\ rowPerm[r] = NoOrder /\ Pending(r)
        /\ pc = "child" /\ UNCHANGED <<unguarded, rowPerm, rowStatus, todo>>
    BY <1>4 DEF PlaceChild, MayBePlaced, Pending
  <2>2. MayBePlaced(r) /\ r # curRow
    BY <2>1 DEF MayBePlaced, Resubmission
  <2> QED
    BY <1>0, <2>1, <2>2
<1>5. CASE Forget
  <2>1. /\ Pending(r) /\ rowPerm[r] = NoOrder
        /\ unguarded' = unguarded \cup
             {q \in Rows : Pending(q) /\ rowPerm[q] = NoOrder
                             /\ CountedFor(q) # {}}
        /\ pc' = "idle"
    <3>1. pc' = "idle" /\ todo' = {} /\ UNCHANGED <<rowPerm, rowStatus>>
      BY <1>5 DEF Forget
    <3>2. /\ Pending(r) /\ rowPerm[r] = NoOrder
      BY <3>1 DEF MayBePlaced, Pending
    <3>3. ASSUME NEW q \in Rows
          PROVE  (\E o \in OrderId : /\ ticket[o].row = q
                                     /\ IsEntry(o) /\ Transmitted(o)
                                     /\ ~Dead(o)) <=> CountedFor(q) # {}
      BY DEF CountedFor
    <3> QED
      BY <1>5, <3>1, <3>2, <3>3 DEF Forget
  <2> QED
    BY <2>1 DEF PlaceChild
<1>6. CASE RowsQuiet /\ ~PlaceChild
  <2>1. UNCHANGED unguarded
    BY <1>6 DEF RowsQuiet
  <2>2. CASE pc' = "child" /\ curRow' = r
    <3>1. MayBePlaced(r)
      BY <1>6, <2>2 DEF RowsQuiet, MayBePlaced
    <3> QED
      BY <1>0, <1>6, <2>1, <3>1
  <2>3. CASE /\ Pending(r)' /\ rowPerm'[r] = NoOrder
             /\ pc' = "idle" \/ r \in todo'
    <3>1. pc = "idle" \/ r \in todo
      BY <1>6, <2>3 DEF RowsQuiet
    <3>2. pc \notin {"persist", "process"}
      BY <3>1 DEF Resubmission
    <3>3. MayBePlaced(r)
      BY <1>6, <2>3, <3>1, <3>2 DEF RowsQuiet, MayBePlaced, Pending
    <3> QED
      BY <1>0, <1>6, <2>1, <3>3
  <2> QED
    BY <2>2, <2>3 DEF MayBePlaced
<1> QED
  BY <1>1, <1>2, <1>3, <1>4, <1>5, <1>6, RowKinds

LEMMA RowGuardedStep ==
  ASSUME BracketInv, Resubmission, [Next]_vars, NEW r \in Rows \ unguarded'
  PROVE  RowGuarded(r)'
<1>1. r \notin unguarded
  <2>1. unguarded \subseteq unguarded'
    <3>1. Forget => unguarded \subseteq unguarded'
      BY DEF Forget
    <3>2. ~Forget => UNCHANGED unguarded
      BY RowKinds DEF AppendSignal, PlaceParent, StartSession, PlaceChild,
         RowsQuiet, historyVars
    <3> QED
      BY <3>1, <3>2
  <2> QED
    BY <2>1
<1>2. \A o, p \in CountedFor(r) : o = p
  BY <1>1 DEF Resubmission, RowGuarded
<1>3. ASSUME NEW o \in CountedFor(r)', NEW p \in CountedFor(r)' PROVE o = p
  <2>1. CASE o \in CountedFor(r) /\ p \in CountedFor(r)
    BY <1>2, <2>1
  <2>2. CASE PlaceChild
    <3>1. r = curRow => CountedFor(r) = {}
      BY <1>1, <2>2 DEF PlaceChild, Resubmission, RowGuarded, MayBePlaced
    <3>2. nextorderId - 1 \in OrderId /\ nextorderId - 1 < nextorderId
      BY <2>2, World DEF PlaceChild, BracketInv, Session, OrderId
    <3>3. ticket'[nextorderId - 1].row = curRow
      BY <2>2, <3>2, World DEF PlaceChild, Resubmission
    <3>4. \A q \in CountedFor(r)' : q \in CountedFor(r) \/ q = nextorderId - 1
      BY CountedKept
    <3>5. r # curRow => nextorderId - 1 \notin CountedFor(r)'
      BY <3>3 DEF CountedFor
    <3> QED
      BY <1>2, <3>1, <3>4, <3>5
  <2> QED
    BY <2>1, <2>2, CountedKept
<1>4. MayBePlaced(r)' => CountedFor(r)' = {}
  <2> SUFFICES ASSUME MayBePlaced(r)', NEW o \in CountedFor(r)' PROVE FALSE
    OBVIOUS
  <2>1. CountedFor(r) = {} /\ (PlaceChild => r # curRow)
    BY MayBePlacedStep
  <2>2. PlaceChild /\ o = nextorderId - 1
    BY <2>1, CountedKept
  <2>3. ticket'[o].row = r /\ o \in OrderId /\ o < nextorderId
    BY <2>2, World DEF CountedFor, PlaceChild, BracketInv, Session, OrderId
  <2>4. ticket[o].row = curRow
    BY <2>2 DEF PlaceChild, Resubmission
  <2> QED
    BY <2>1, <2>2, <2>3, <2>4, World
<1> QED
  BY <1>3, <1>4 DEF RowGuarded

(* A row without an entry that is named by a ticket has been written.      *)
LEMMA RowsWritten ==
  ASSUME BracketInv, Resubmission, [Next]_vars
  PROVE  /\ (curRow # NoRow => rowStatus[curRow] # "absent")'
         /\ \A o \in OrderId :
              ticket'[o].row # NoRow => rowStatus'[ticket'[o].row] # "absent"
<1>0. /\ curRow \in Rows \cup {NoRow}
      /\ todo \subseteq Rows
      /\ rowStatus \in [Rows -> {"absent", "PENDING", "EXECUTED",
                                 "PARTIAL_FILL", "FAILED"}]
      /\ \A q \in todo : rowStatus[q] # "absent"
  BY DEF BracketInv, BracketTypeOK, Resubmission, Pending
<1>1. ASSUME NEW q \in Rows, rowStatus[q] # "absent"
      PROVE  rowStatus'[q] # "absent"
  <2>1. CASE \E a \in Rows : AppendSignal(a)
    BY <1>0, <1>1, <2>1 DEF AppendSignal
  <2>2. CASE \/ (\E a \in Rows : PlaceParent(a)) \/ StartSession \/ PlaceChild
             \/ Forget
    BY <1>1, <2>2 DEF PlaceParent, StartSession, PlaceChild, Forget, fileVars
  <2>3. CASE RowsQuiet
    BY <1>1, <2>3 DEF RowsQuiet
  <2> QED
    BY <2>1, <2>2, <2>3, RowKinds
<1>2. curRow' \in {NoRow, curRow} \/ curRow' \in todo
  BY RowKinds DEF AppendSignal, PlaceParent, StartSession, PlaceChild, Forget,
     RowsQuiet, rowVars
<1>3. ASSUME curRow' # NoRow PROVE curRow' \in Rows /\ rowStatus[curRow'] # "absent"
  BY <1>0, <1>2, <1>3 DEF Resubmission
<1>4. ASSUME NEW o \in OrderId, ticket'[o].row # NoRow
      PROVE  /\ ticket'[o].row \in Rows
             /\ rowStatus[ticket'[o].row] # "absent"
  <2>1. CASE ticket'[o] = ticket[o]
    BY <1>4, <2>1 DEF BracketInv, BracketTypeOK, Resubmission
  <2>2. CASE ticket'[o] # ticket[o]
    <3>1. Sends
      BY <2>2, TicketsKept
    <3>2. \/ ticket'[o].row = curRow /\ curRow # NoRow
          \/ ticket'[o].row \in todo
      <4>1. \A t : Send(t) => ticket'[o] = t
        BY <2>2 DEF Send, BracketInv, BracketTypeOK
      <4>2. CASE SendExit \/ PlaceChild
        <5>1. ticket'[o].row = curRow
          BY <4>1, <4>2 DEF SendExit, PlaceChild
        <5> QED
          BY <1>4, <5>1
      <4>3. CASE \E q \in Rows : PlaceParent(q)
        BY <4>1, <4>3 DEF PlaceParent
      <4>4. CASE \E q \in OrderId : UpdateStpAfterFill(q)
        <5>1. ticket'[o] = [NoTicket EXCEPT !.kind = "stop"]
          BY <4>1, <4>4 DEF UpdateStpAfterFill
        <5>2. ticket'[o].row = NoRow
          BY <5>1 DEF NoTicket
        <5> QED
          BY <1>4, <5>2
      <4> QED
        BY <3>1, <4>2, <4>3, <4>4 DEF Sends
    <3> QED
      BY <1>0, <3>2 DEF Resubmission
  <2> QED
    BY <2>1, <2>2
<1> QED
  BY <1>1, <1>3, <1>4

LEMMA ResubmissionStep ==
  ASSUME BracketInv, Resubmission, [Next]_vars
  PROVE  Resubmission'
<1> USE DEF fileVars, rowVars, historyVars
<1>1. (\A r \in todo : Pending(r))'
  <2> SUFFICES ASSUME NEW r \in todo' PROVE rowStatus'[r] = "PENDING"
    BY DEF Pending
  <2>1. CASE \E a \in Rows : AppendSignal(a)
    BY <2>1 DEF AppendSignal, Resubmission
  <2>2. CASE StartSession
    BY <2>2 DEF StartSession, Pending
  <2>3. CASE (\E a \in Rows : PlaceParent(a)) \/ PlaceChild \/ Forget
    BY <2>3 DEF PlaceParent, PlaceChild, Forget, Resubmission, Pending
  <2>4. CASE RowsQuiet
    <3>1. r \in todo
      BY <2>4 DEF RowsQuiet
    <3>2. pc \notin {"persist", "process"}
      BY <3>1 DEF Resubmission
    <3> QED
      BY <2>4, <3>1, <3>2 DEF RowsQuiet, Resubmission, Pending
  <2> QED
    BY <2>1, <2>2, <2>3, <2>4, RowKinds
<1>2. (pc \in {"idle", "persist", "process"} => todo = {})'
  BY RowKinds DEF AppendSignal, PlaceParent, StartSession, PlaceChild, Forget,
     RowsQuiet, Resubmission
<1>3. (pc = "child" => curRow \notin todo
                         /\ ticket[nextorderId - 1].row = curRow)'
  <2>1. CASE \E a \in Rows : PlaceParent(a)
    <3> PICK a \in Rows : PlaceParent(a)
      BY <2>1
    <3>1. curRow' = a /\ todo' = todo \ {a}
      BY DEF PlaceParent
    <3>2. /\ nextorderId' - 1 = nextorderId
          /\ nextorderId \in OrderId
          /\ ticket'[nextorderId].row = a
      BY OrdersAssumption
      DEF PlaceParent, Send, PlaceOrder, BracketInv, BracketTypeOK, OrderId
    <3> QED
      BY <3>1, <3>2
  <2>2. CASE \/ (\E a \in Rows : AppendSignal(a)) \/ StartSession \/ PlaceChild
             \/ Forget
    BY <2>2 DEF AppendSignal, StartSession, PlaceChild, Forget
  <2>3. CASE RowsQuiet
    BY <2>3 DEF RowsQuiet, Resubmission
  <2> QED
    BY <2>1, <2>2, <2>3, RowKinds
<1> QED
  BY <1>1, <1>2, <1>3, RowsWritten, RowGuardedStep DEF Resubmission

LEMMA ResubmissionInit == Init => Resubmission
<1> SUFFICES ASSUME Init PROVE Resubmission
  OBVIOUS
<1>1. \A o \in OrderId : ticket[o].row = NoRow /\ ticket[o].kind # "entry"
  BY DEF Init, NoTicket
<1>2. \A r \in Rows : CountedFor(r) = {}
  BY <1>1 DEF CountedFor, IsEntry
<1> QED
  BY <1>1, <1>2 DEF Init, Resubmission, RowGuarded

-----------------------------------------------------------------------------
(* Lots and what sells them.                                               *)

(* A stop trades only when its entry has;  an exit was sent against an     *)
(* active stop;  an entry has one child, the hook being the only source of *)
(* a stop without a parent but the one there at the start.                 *)
Stops ==
  /\ \A s \in OrderId : IsStop(s) /\ Filled(s) => Activated(s)
  /\ \A x \in OrderId : against[x] # NoOrder =>
       IsStop(against[x]) /\ Activated(against[x])
  /\ \A c, d \in OrderId :
       ticket[c].parent = ticket[d].parent /\ ticket[c].parent # NoOrder
         => c = d
  /\ "rearmed" \notin slips =>
       \A s \in OrderId : IsStop(s) /\ ticket[s].parent = NoOrder => s = 1

(* `confirmed` is about the stop in hand, and means that it is cancelled.  *)
Confirmed ==
  /\ pc \in {"resolve", "retry", "confirm"} => ~confirmed
  /\ pc = "sell" /\ confirmed =>
       /\ Held.stop_perm_id # NoOrder
       /\ broker[Held.stop_perm_id].state = "cancelled"

(* What the two slips of an exit do not excuse: it was sent against a      *)
(* cancelled stop, and no other exit that may sell against the same one.   *)
ExitsCovered ==
  /\ "blind" \notin slips =>
       \A x \in OrderId : IsExit(x) =>
         against[x] # NoOrder /\ broker[against[x]].state = "cancelled"
  /\ "resold" \notin slips =>
       \A x, y \in OrderId :
         /\ against[x] = against[y] /\ against[x] # NoOrder
         /\ ~Dead(x) /\ ~Dead(y)
         => x = y

Lots == Stops /\ Confirmed /\ ExitsCovered

LEMMA LotsInit == Init => Lots
<1> SUFFICES ASSUME Init PROVE Lots
  OBVIOUS
<1>1. \A o \in OrderId : ticket[o].parent = NoOrder /\ ticket[o].kind # "exit"
  BY DEF Init, NoTicket
<1>2. \A o \in OrderId : ticket[o].kind = "stop" => o = 1
  BY DEF Init, NoTicket
<1>3. \A x \in OrderId : against[x] = NoOrder
  BY DEF Init
<1>4. pc = "idle"
  BY DEF Init
<1> QED
  BY <1>1, <1>2, <1>3, <1>4
  DEF Lots, Stops, Confirmed, ExitsCovered, IsStop, IsExit, Activated

(* Each placement and what it sends.                                       *)
LEMMA WhoSends ==
  ASSUME BracketInv, Sends
  PROVE  LET t == ticket'[nextorderId] IN
         \/ SendExit /\ t.kind = "exit" /\ t.parent = NoOrder
         \/ PlaceChild /\ t.kind = "stop" /\ t.parent = nextorderId - 1
         \/ "rearmed" \in slips' /\ t.kind = "stop" /\ t.parent = NoOrder
         \/ t.kind = "entry" /\ t.parent = NoOrder
<1>0. ticket \in [OrderId -> [kind : {"none", "entry", "stop", "exit"},
                             parent : OrderId \cup {NoOrder},
                             row : Rows \cup {NoRow}]]
  BY DEF BracketInv, BracketTypeOK
<1>1. \A t : Send(t) => ticket'[nextorderId] = t
  BY <1>0 DEF Send, PlaceOrder
<1>2. CASE SendExit
  <2>1. ticket'[nextorderId] =
          [kind |-> "exit", parent |-> NoOrder, row |-> curRow]
    BY <1>1, <1>2 DEF SendExit
  <2> QED
    BY <1>2, <2>1
<1>3. CASE PlaceChild
  <2>1. ticket'[nextorderId] =
          [kind |-> "stop", parent |-> nextorderId - 1, row |-> curRow]
    BY <1>1, <1>3 DEF PlaceChild
  <2> QED
    BY <1>3, <2>1
<1>4. CASE \E r \in Rows : PlaceParent(r)
  <2> PICK r \in Rows : PlaceParent(r)
    BY <1>4
  <2>1. ticket'[nextorderId] =
          [kind |-> "entry", parent |-> NoOrder, row |-> r]
    BY <1>1 DEF PlaceParent
  <2> QED
    BY <2>1
<1>5. CASE \E o \in OrderId : UpdateStpAfterFill(o)
  <2>1. ticket'[nextorderId] = [NoTicket EXCEPT !.kind = "stop"]
    BY <1>1, <1>5 DEF UpdateStpAfterFill
  <2>2. "rearmed" \in slips'
    BY <1>5 DEF UpdateStpAfterFill
  <2> QED
    BY <2>1, <2>2 DEF NoTicket
<1> QED
  BY <1>2, <1>3, <1>4, <1>5 DEF Sends

(* A new ticket of a stop: the child of the parent just placed, or what    *)
(* the hook has sent.                                                      *)
LEMMA NewStop ==
  ASSUME BracketInv, [Next]_vars, NEW s \in OrderId, ticket'[s] # ticket[s],
         ticket'[s].kind = "stop"
  PROVE  /\ s = nextorderId
         /\ \/ PlaceChild /\ ticket'[s].parent = nextorderId - 1
            \/ "rearmed" \in slips' /\ ticket'[s].parent = NoOrder
<1>1. Sends
  BY TicketsKept
<1>2. s = nextorderId
  BY <1>1, SentTicket DEF Send, BracketInv, BracketTypeOK
<1> QED
  BY <1>1, <1>2, WhoSends

(* A placement leaves the new order "sent".                                *)
LEMMA NewIsSent ==
  ASSUME BracketInv, [Next]_vars, NEW o \in OrderId, ticket'[o] # ticket[o]
  PROVE  broker'[o].state = "sent" /\ o = nextorderId
<1>1. Sends
  BY TicketsKept
<1> PICK t : Send(t)
  BY <1>1, SentTicket
<1> QED
  BY DEF Send, PlaceOrder, BracketInv, BracketTypeOK, OrdersTypeOK

(* What the cancel returned is about the exit in hand alone.               *)
LEMMA ConfirmedKept ==
  ASSUME [Next]_vars
  PROVE  /\ UNCHANGED confirmed \/ confirmed' = FALSE \/ CancelConfirmed
         /\ pc' \in {"resolve", "retry", "confirm"} =>
              \/ pc \in {"resolve", "retry", "confirm"} /\ UNCHANGED confirmed
              \/ confirmed' = FALSE
<1> USE DEF cancelVars
<1>1. CASE \E r \in Rows : \/ AppendSignal(r) \/ SkipRow(r) \/ BeginExit(r)
                           \/ PlaceParent(r)
  BY <1>1 DEF AppendSignal, SkipRow, BeginExit, PlaceParent
<1>2. CASE \/ StartSession \/ DropExit \/ EndExits \/ EndEntries \/ EndPersist
           \/ SendExit \/ PlaceChild
  BY <1>2 DEF StartSession, DropExit, EndExits, EndEntries, EndPersist,
     SendExit, PlaceChild
<1>3. CASE \/ RefreshOpenOrders \/ CancelStop \/ CancelConfirmed
           \/ CancelUnconfirmed
  BY <1>3 DEF RefreshOpenOrders, CancelStop, CancelConfirmed,
     CancelUnconfirmed
<1>4. CASE \E o \in OrderId : \/ PersistPerm(o) \/ RemovePosition(o)
                              \/ UpdateStpAfterFill(o) \/ AddPosition(o)
                              \/ BackfillBracketStp(o) \/ MarkExecuted(o)
                              \/ SettleUnfilled(o)
  BY <1>4 DEF PersistPerm, RemovePosition, UpdateStpAfterFill, AddPosition,
     BackfillBracketStp, MarkExecuted, SettleUnfilled, BookingStep
<1>5. CASE Ends
  BY <1>5, EndsForget DEF Forget
<1>6. CASE BrokerStep \/ BrokerDropsChild \/ Reader \/ UNCHANGED vars
  BY <1>6 DEF BrokerStep, BrokerDropsChild, Reader, vars, bracketVars
<1> QED
  BY <1>1, <1>2, <1>3, <1>4, <1>5, <1>6 DEF Next, Main, Ends

(* Only the broker fills an order.                                         *)
LEMMA FillIsBrokers ==
  ASSUME BracketInv, [Next]_vars, NEW o \in OrderId, Filled(o)', ~Filled(o)
  PROVE  BrokerStep
<1>0. broker \in [OrderId -> [state : BrokerState, filled : 0 .. Qty]]
  BY DEF BracketInv, BracketTypeOK, OrdersTypeOK
<1>1. ~Sends
  BY <1>0, SentTicket DEF Send, PlaceOrder, Filled
<1>2. ~BrokerDropsChild
  BY <1>0 DEF BrokerDropsChild, Filled
<1>3. ~UNCHANGED broker
  BY DEF Filled
<1> QED
  BY <1>1, <1>2, <1>3, StepKinds, InsideKeeps, EndsForget
  DEF Forget, Reader, ReaderNext, OrderStatus, OpenOrder,
      ErrorCancelled, ErrorRejected, orderVars

LEMMA StopsStep ==
  ASSUME BracketInv, Lots, [Next]_vars
  PROVE  Stops'
<1>0. /\ BracketInv' /\ Tickets /\ nextorderId \in Nat
      /\ \A o \in OrderId : o \in Nat /\ o # NoOrder
  <2>1. BracketInv'
    BY TypesStep, RecordedStep, TicketsStep, SessionStep, BookStep, CancelsStep,
       ExitsStep DEF BracketInv
  <2>2. nextorderId \in Nat
    BY OrdersAssumption DEF BracketInv, BracketTypeOK, OrdersTypeOK
  <2> QED
    BY <2>1, <2>2 DEF BracketInv, OrderId, NoOrder
<1>1. ASSUME NEW s \in OrderId, IsStop(s)', Filled(s)'
      PROVE  Activated(s)'
  <2>1. ticket'[s] = ticket[s] /\ IsStop(s)
    BY <1>1, NewIsSent DEF Filled, IsStop
  <2>2. CASE Filled(s)
    <3>1. Activated(s)
      BY <2>1, <2>2 DEF Lots, Stops
    <3> QED
      BY <2>1, <3>1, StopStays
  <2>3. CASE ~Filled(s)
    <3>1. BrokerStep
      BY <1>1, <2>3, FillIsBrokers
    <3> PICK o \in OrderId : \/ Transmitted(o) /\ BrokerAcknowledge(o)
                             \/ Activated(o) /\ BrokerFill(o)
                             \/ BrokerCancel(o)
                             \/ BrokerReject(o)
      BY <3>1 DEF BrokerStep
    <3>0. broker \in [OrderId -> [state : BrokerState, filled : 0 .. Qty]]
      BY DEF BracketInv, BracketTypeOK, OrdersTypeOK
    <3>2. o = s /\ BrokerFill(o)
      BY <1>1, <2>3, <3>0 DEF BrokerAcknowledge, BrokerFill, BrokerCancel,
         BrokerReject, Filled
    <3>3. Activated(o)
      BY <1>1, <2>3, <3>0, <3>2 DEF BrokerAcknowledge, BrokerCancel, BrokerReject,
         Filled
    <3> QED
      BY <2>1, <3>2, <3>3, StopStays
  <2> QED
    BY <2>2, <2>3
<1>2. ASSUME NEW x \in OrderId, against'[x] # NoOrder
      PROVE  (IsStop(against[x]) /\ Activated(against[x]))'
  <2>1. \E s \in OrderId : s = against'[x] /\ IsStop(s) /\ Activated(s)
    <3>1. CASE against'[x] = against[x]
      BY <1>2, <3>1 DEF Lots, Stops, BracketInv, BracketTypeOK
    <3>2. CASE against'[x] # against[x]
      <4>1. against'[x] = StopInHand
        BY <3>2, HistoryKept DEF SendExit, BracketInv, BracketTypeOK
      <4> QED
        BY <1>2, <4>1, HeldRow
    <3> QED
      BY <3>1, <3>2
  <2> QED
    BY <2>1, StopStays DEF IsStop, Activated
<1>3. ASSUME NEW c \in OrderId, NEW d \in OrderId,
             ticket'[c].parent = ticket'[d].parent, ticket'[c].parent # NoOrder
      PROVE  c = d
  <2>1. ASSUME NEW e \in OrderId, NEW f \in OrderId, ticket'[e] # ticket[e],
               ticket'[f] = ticket[f], ticket'[e].parent = ticket'[f].parent,
               ticket'[e].parent # NoOrder
        PROVE  FALSE
    <3>1. ticket'[e].kind = "stop"
      BY <1>0, <2>1 DEF BracketInv, Tickets, IsStop
    <3>2. ticket[f].parent = nextorderId - 1
      BY <2>1, <3>1, NewStop
    <3>3. f < nextorderId
      BY <1>0, <2>1 DEF Tickets, NoTicket
    <3>4. ticket[f].parent < f
      BY <1>0, <2>1 DEF Tickets
    <3> QED
      BY <1>0, <3>2, <3>3, <3>4
  <2>2. CASE ticket'[c] # ticket[c] /\ ticket'[d] # ticket[d]
    BY <2>2, NewIsSent
  <2>3. CASE ticket'[c] = ticket[c] /\ ticket'[d] = ticket[d]
    BY <1>3, <2>3 DEF Lots, Stops
  <2> QED
    BY <1>3, <2>1, <2>2, <2>3
<1>4. ASSUME "rearmed" \notin slips', NEW s \in OrderId, IsStop(s)',
             ticket'[s].parent = NoOrder
      PROVE  s = 1
  <2>1. CASE ticket'[s] = ticket[s]
    BY <1>4, <2>1, HistoryKept DEF Lots, Stops, IsStop
  <2>2. CASE ticket'[s] # ticket[s]
    <3>1. PlaceChild /\ nextorderId - 1 = NoOrder
      BY <1>4, <2>2, NewStop DEF IsStop
    <3> QED
      BY <1>0, <3>1 DEF PlaceChild, BracketInv, Session
  <2> QED
    BY <2>1, <2>2
<1> QED
  BY <1>1, <1>2, <1>3, <1>4 DEF Stops

LEMMA ConfirmedStep ==
  ASSUME BracketInv, Lots, [Next]_vars
  PROVE  Confirmed'
<1>1. (pc \in {"resolve", "retry", "confirm"} => ~confirmed)'
  BY ConfirmedKept DEF Lots, Confirmed
<1>2. ASSUME pc' = "sell", confirmed'
      PROVE  /\ Held.stop_perm_id' # NoOrder
             /\ \A s : s = Held.stop_perm_id' => broker'[s].state = "cancelled"
  <2>1. CASE CancelConfirmed
    BY <2>1, ConfirmedIsCancelled
    DEF CancelConfirmed, CancelStep, orderVars, fileVars, Held
  <2>2. CASE ~CancelConfirmed
    <3>1. pc = "sell" /\ confirmed /\ UNCHANGED positions
      BY <1>2, <2>2, ExitInHand, ConfirmedKept DEF Lots, Confirmed,
         CancelUnconfirmed, BeginExit
    <3>2. /\ Held.stop_perm_id # NoOrder
          /\ broker[Held.stop_perm_id].state = "cancelled"
      BY <3>1 DEF Lots, Confirmed
    <3>3. Held.stop_perm_id \in OrderId
      BY <3>2, HeldRow DEF Position
    <3>4. broker'[Held.stop_perm_id].state = "cancelled"
      BY <3>2, <3>3, World
    <3> QED
      BY <3>1, <3>2, <3>4 DEF Held
  <2> QED
    BY <2>1, <2>2
<1> QED
  BY <1>1, <1>2 DEF Confirmed

(* An exit is noted when it is sent, against the stop then in hand.        *)
LEMMA NewAgainst ==
  ASSUME BracketInv, [Next]_vars, NEW x \in OrderId, against'[x] # against[x]
  PROVE  SendExit /\ x = nextorderId /\ against'[x] = StopInHand
BY HistoryKept DEF SendExit, BracketInv, BracketTypeOK

LEMMA ExitsCoveredStep ==
  ASSUME BracketInv, Lots, [Next]_vars
  PROVE  ExitsCovered'
<1>0. slips \subseteq slips'
  BY HistoryKept
<1>1. ASSUME "blind" \notin slips', NEW x \in OrderId, IsExit(x)'
      PROVE  /\ against'[x] # NoOrder
             /\ \A s : s = against'[x] => broker'[s].state = "cancelled"
  <2>1. \E s \in OrderId : s = against'[x] /\ broker[s].state = "cancelled"
    <3>1. CASE ticket'[x] = ticket[x]
      <4>1. IsExit(x)
        BY <1>1, <3>1 DEF IsExit
      <4>2. against[x] # NoOrder /\ broker[against[x]].state = "cancelled"
        BY <1>0, <1>1, <4>1 DEF Lots, ExitsCovered
      <4> QED
        BY <4>2, AgainstStays DEF BracketInv, BracketTypeOK
    <3>2. CASE ticket'[x] # ticket[x]
      <4>1. Sends /\ x = nextorderId
        BY <3>2, NewIsSent, TicketsKept
      <4>3. SendExit
        BY <1>1, <4>1, WhoSends DEF IsExit
      <4>4. pc = "sell" /\ confirmed
        BY <1>1, <4>3 DEF SendExit
      <4>5. /\ Held.stop_perm_id # NoOrder
            /\ broker[Held.stop_perm_id].state = "cancelled"
        BY <4>4 DEF Lots, Confirmed
      <4>6. Held.stop_perm_id \in OrderId
        BY <4>5, HeldRow DEF Position
      <4>7. against'[x] = Held.stop_perm_id
        BY <4>1, <4>3, <4>5 DEF SendExit, StopInHand, BracketInv, BracketTypeOK
      <4> QED
        BY <4>5, <4>6, <4>7
    <3> QED
      BY <3>1, <3>2
  <2> QED
    BY <2>1, World DEF OrderId, NoOrder
<1>2. ASSUME "resold" \notin slips', NEW x \in OrderId, NEW y \in OrderId,
             against'[x] = against'[y], against'[x] # NoOrder,
             ~Dead(x)', ~Dead(y)'
      PROVE  x = y
  <2>1. ~Dead(x) /\ ~Dead(y)
    BY <1>2, World DEF Dead
  <2>2. ASSUME NEW u \in OrderId, NEW v \in OrderId, against'[u] # against[u],
               against'[v] = against[v], against'[u] = against'[v],
               against'[u] # NoOrder, ~Dead(v)
        PROVE  FALSE
    <3>1. SendExit /\ against[v] = StopInHand
      BY <2>2, NewAgainst
    <3>2. StopIsSpent
      BY <2>2, <3>1 DEF StopIsSpent
    <3> QED
      BY <1>2, <3>1, <3>2 DEF SendExit
  <2>3. CASE against'[x] = against[x] /\ against'[y] = against[y]
    BY <1>0, <1>2, <2>1, <2>3 DEF Lots, ExitsCovered
  <2>4. CASE against'[x] # against[x] /\ against'[y] # against[y]
    BY <2>4, NewAgainst
  <2> QED
    BY <1>2, <2>1, <2>2, <2>3, <2>4
<1> QED
  BY <1>1, <1>2 DEF ExitsCovered

-----------------------------------------------------------------------------
(* The theorems.                                                           *)

THEOREM InvHolds == Spec => []BracketInv
<1>1. BracketInv /\ [Next]_vars => BracketInv'
  BY TypesStep, RecordedStep, TicketsStep, SessionStep, BookStep, CancelsStep,
     ExitsStep DEF BracketInv
<1> QED
  BY <1>1, InvInit, PTL DEF Spec

(* BracketTypeOK: the types of a strategy with stops.                      *)
THEOREM BracketTypeCorrect == Spec => []BracketTypeOK
<1>1. BracketInv => BracketTypeOK
  BY DEF BracketInv
<1> QED
  BY <1>1, InvHolds, PTL

(* LotKeepsStop: a filled entry has a stop, and no stop a lot relies on is *)
(* gone unless it sold the lot, TWS refused it, or it was given up for an  *)
(* exit, a drop, a kill or an update.  The entry being filled, TWS does    *)
(* not drop the child on its own, and a good-till-cancelled order ends     *)
(* only on request.                                                        *)
LEMMA SentStopIsKept ==
  ASSUME BracketInv, NEW s \in OrderId, IsStop(s), ~DroppedByTWS(s)
  PROVE  Kept(s)
<1>1. s < nextorderId
  BY OrdersAssumption
  DEF BracketInv, BracketTypeOK, OrdersTypeOK, Tickets, IsStop, NoTicket, OrderId
<1>2. broker[s].state \in BrokerState \ {"none"}
  BY <1>1 DEF BracketInv, BracketTypeOK, OrdersTypeOK, Tickets
<1>3. broker[s].state = "cancelled" => GivenUp(s)
  BY DEF BracketInv, Cancels
<1> QED
  BY <1>2, <1>3 DEF Kept, Live, Filled, BrokerState

THEOREM LotsKeepTheirStop == Spec => []LotKeepsStop
<1>1. BracketInv => LotKeepsStop
  <2> SUFFICES ASSUME BracketInv PROVE LotKeepsStop
    OBVIOUS
  <2>1. ASSUME NEW p \in OrderId, IsEntry(p), Filled(p)
        PROVE  \E c \in ChildOf(p) : IsStop(c) /\ Kept(c)
    <3> PICK c \in ChildOf(p) : TRUE
      BY <2>1 DEF BracketInv, Tickets, Filled
    <3>1. c \in OrderId /\ ticket[c].parent = p /\ IsStop(c)
      BY DEF ChildOf, BracketInv, Tickets
    <3>2. ~DroppedByTWS(c)
      BY <2>1, <3>1 DEF DroppedByTWS, Filled, Dead
    <3> QED
      BY <3>1, <3>2, SentStopIsKept
  <2>2. ASSUME NEW s \in OrderId, IsStop(s), ticket[s].parent = NoOrder
        PROVE  Kept(s)
    BY <2>2, SentStopIsKept DEF DroppedByTWS
  <2> QED
    BY <2>1, <2>2 DEF LotKeepsStop
<1> QED
  BY <1>1, InvHolds, PTL

(* RecordedStopIsStop: the permId in a position's row is that of an active *)
(* stop younger than the row's entry.                                      *)
THEOREM RecordedStopIsTheStop == Spec => []RecordedStopIsStop
<1>1. BracketInv => RecordedStopIsStop
  <2> SUFFICES ASSUME BracketInv, NEW i \in DOMAIN positions,
                      NEW s, s = positions[i].stop_perm_id, s # NoOrder
               PROVE  IsStop(s) /\ Activated(s) /\ s > positions[i].entry
    BY DEF RecordedStopIsStop
  <2>1. positions[i] \in Position
    BY DEF BracketInv, BracketTypeOK
  <2>2. s \in OrderId /\ positions[i].entry \in OrderId \cup {NoOrder}
    BY <2>1 DEF Position
  <2>3. IsStop(s) /\ Activated(s) /\ positions[i].entry < s
    BY DEF BracketInv, Book, StopRecorded
  <2> QED
    BY <2>2, <2>3 DEF OrderId, NoOrder
<1> QED
  BY <1>1, InvHolds, PTL

(* UnconfirmedIsReported: a stop the session has set out to cancel by its *)
(* permId is cancelled, is being asked for, or is on the list.             *)
THEOREM UnconfirmedAreReported == Spec => []UnconfirmedIsReported
<1>1. BracketInv => UnconfirmedIsReported
  BY DEF BracketInv, Exits
<1> QED
  BY <1>1, InvHolds, PTL

(* Resubmission: before an entry is placed for a row, no other entry of    *)
(* the row can trade; only PENDING rows are gone through, and the child    *)
(* belongs to the row in hand.                                             *)
THEOREM ResubmissionHolds == Spec => []Resubmission
<1>1. BracketInv /\ Resubmission /\ [Next]_vars => Resubmission'
  BY ResubmissionStep
<1> QED
  BY <1>1, InvHolds, ResubmissionInit, PTL DEF Spec

(* OneEntryPerRow: whatever is killed, a row has one entry that can trade, *)
(* unless a session ended with an entry alive and no permId in the row.    *)
THEOREM RowsHaveOneEntry == Spec => []OneEntryPerRow
<1>1. Resubmission => OneEntryPerRow
  <2> SUFFICES ASSUME Resubmission, NEW r \in Rows \ unguarded
               PROVE  Cardinality(CountedFor(r)) <= 1
    BY DEF OneEntryPerRow, CountedFor
  <2>1. CASE CountedFor(r) = {}
    <3>1. Cardinality(CountedFor(r)) = 0
      BY <2>1, FS_EmptySet
    <3> QED
      BY <3>1
  <2>2. CASE CountedFor(r) # {}
    <3> PICK o : o \in CountedFor(r)
      BY <2>2
    <3>1. CountedFor(r) = {o}
      BY DEF Resubmission, RowGuarded
    <3>2. Cardinality(CountedFor(r)) = 1
      BY <3>1, FS_Singleton
    <3> QED
      BY <3>2
  <2> QED
    BY <2>1, <2>2
<1> QED
  BY <1>1, ResubmissionHolds, PTL

(* What sells, and the entry whose lot it sells: an exit that of the stop  *)
(* it was sent against, a stop its own; NoOrder is the lot of the start.   *)
StopOf(o) == IF IsExit(o) THEN against[o] ELSE o

LotOf(o) == ticket[StopOf(o)].parent

Sold == FilledOf("exit") \cup FilledOf("stop")

Bought == FilledOf("entry") \cup (IF IsStop(1) THEN {NoOrder} ELSE {})

LEMMA SoldWasBought ==
  ASSUME BracketInv, Lots, slips \cap {"blind", "resold", "rearmed"} = {},
         NEW o \in Sold
  PROVE  /\ StopOf(o) \in OrderId /\ IsStop(StopOf(o))
         /\ LotOf(o) \in Bought
<1>1. o \in OrderId /\ (IsExit(o) \/ IsStop(o)) /\ Filled(o)
  BY DEF Sold, FilledOf, IsExit, IsStop
<1>2. /\ StopOf(o) \in OrderId /\ IsStop(StopOf(o))
      /\ Activated(StopOf(o))
  <2>1. CASE IsExit(o)
    <3>1. against[o] # NoOrder
      BY <1>1, <2>1 DEF Lots, ExitsCovered
    <3> QED
      BY <1>1, <2>1, <3>1
      DEF StopOf, Lots, Stops, BracketInv, BracketTypeOK
  <2>2. CASE ~IsExit(o)
    BY <1>1, <2>2 DEF StopOf, Lots, Stops
  <2> QED
    BY <2>1, <2>2
<1>3. CASE LotOf(o) = NoOrder
  <2>1. StopOf(o) = 1
    BY <1>2, <1>3 DEF LotOf, Lots, Stops
  <2> QED
    BY <1>2, <1>3, <2>1 DEF Bought
<1>4. CASE LotOf(o) # NoOrder
  <2>1. LotOf(o) \in OrderId
    BY <1>2, <1>4 DEF LotOf, BracketInv, BracketTypeOK
  <2>2. IsEntry(LotOf(o))
    BY <1>2, <1>4 DEF LotOf, BracketInv, Tickets
  <2>3. Filled(LotOf(o))
    BY <1>2, <1>4 DEF LotOf, Activated, Filled
  <2> QED
    BY <1>2, <2>1, <2>2, <2>3 DEF Bought, FilledOf, IsEntry
<1> QED
  BY <1>2, <1>3, <1>4

LEMMA SoldOnce ==
  ASSUME BracketInv, Lots, slips \cap {"blind", "resold", "rearmed"} = {},
         NEW o \in Sold, NEW p \in Sold, LotOf(o) = LotOf(p)
  PROVE  o = p
<1>0. /\ o \in OrderId /\ (IsExit(o) \/ IsStop(o)) /\ Filled(o)
      /\ p \in OrderId /\ (IsExit(p) \/ IsStop(p)) /\ Filled(p)
  BY DEF Sold, FilledOf, IsExit, IsStop
<1>1. StopOf(o) = StopOf(p)
  <2>1. /\ StopOf(o) \in OrderId /\ IsStop(StopOf(o))
        /\ StopOf(p) \in OrderId /\ IsStop(StopOf(p))
    BY SoldWasBought
  <2> QED
    BY <2>1 DEF LotOf, Lots, Stops
<1>2. \A x \in OrderId : IsExit(x) =>
        against[x] # NoOrder /\ broker[against[x]].state = "cancelled"
  BY DEF Lots, ExitsCovered
<1>3. ~Dead(o) /\ ~Dead(p)
  BY <1>0 DEF Filled, Dead
<1>4. CASE IsExit(o) /\ IsExit(p)
  <2>1. against[o] = against[p] /\ against[o] # NoOrder
    BY <1>0, <1>1, <1>2, <1>4 DEF StopOf
  <2> QED
    BY <1>0, <1>3, <2>1 DEF Lots, ExitsCovered
<1>5. CASE ~IsExit(o) /\ ~IsExit(p)
  BY <1>1, <1>5 DEF StopOf
<1>6. ASSUME NEW x \in OrderId, NEW s \in OrderId, IsExit(x), Filled(s),
             s = against[x]
      PROVE  FALSE
  BY <1>2, <1>6 DEF Filled
<1> QED
  BY <1>0, <1>1, <1>4, <1>5, <1>6 DEF StopOf

(* Lots: a stop trades only after its entry; a confirmed cancel is one;    *)
(* short of a slip, every exit has a cancelled stop to itself.             *)
THEOREM LotsHold == Spec => []Lots
<1>1. BracketInv /\ Lots /\ [Next]_vars => Lots'
  BY StopsStep, ConfirmedStep, ExitsCoveredStep DEF Lots
<1> QED
  BY <1>1, InvHolds, LotsInit, PTL DEF Spec

(* NeverShort: the position is never sold twice, over all sessions and     *)
(* kills, unless an exit went out without a confirmed cancel or against a  *)
(* stop another exit had used up, or a hook sent a second stop.  Every     *)
(* filled exit or stop sells the lot of an entry of its own.               *)
THEOREM NothingSoldTwice == Spec => []NeverShort
<1>1. BracketInv /\ Lots => NeverShort
  <2> SUFFICES ASSUME BracketInv, Lots,
                      slips \cap {"blind", "resold", "rearmed"} = {}
               PROVE  Net >= 0
    BY DEF NeverShort
  <2> DEFINE Entries == FilledOf("entry")
             Exits_ == FilledOf("exit")
             Stops_ == FilledOf("stop")
             f == [o \in Sold |-> LotOf(o)]
  <2>1. f \in Injection(Sold, Bought)
    BY SoldWasBought, SoldOnce DEF Injection, IsInjective
  <2>2. IsFiniteSet(OrderId)
    BY FS_Interval, OrdersAssumption DEF OrderId
  <2>3. /\ Entries \in SUBSET OrderId
        /\ Exits_ \in SUBSET OrderId
        /\ Stops_ \in SUBSET OrderId
    BY DEF FilledOf
  <2>4. IsFiniteSet(Entries) /\ IsFiniteSet(Exits_) /\ IsFiniteSet(Stops_)
    BY <2>2, <2>3, FS_Subset
  <2>5. /\ Cardinality(Entries) \in Nat
        /\ Cardinality(Exits_) \in Nat
        /\ Cardinality(Stops_) \in Nat
    BY <2>4, FS_CardinalityType
  <2>6. Cardinality(Sold) = Cardinality(Exits_) + Cardinality(Stops_)
    <3>1. Exits_ \cap Stops_ = {}
      BY DEF FilledOf
    <3>2. Cardinality(Exits_ \cap Stops_) = 0
      BY <3>1, FS_EmptySet
    <3>3. Cardinality(Exits_ \cup Stops_)
            = Cardinality(Exits_) + Cardinality(Stops_)
                - Cardinality(Exits_ \cap Stops_)
      BY <2>4, FS_Union
    <3> QED
      BY <2>5, <3>2, <3>3 DEF Sold
  <2>7. /\ IsFiniteSet(Bought)
        /\ Cardinality(Bought)
             = Cardinality(Entries) + (IF IsStop(1) THEN 1 ELSE 0)
    <3>1. CASE IsStop(1)
      <4>1. Bought = Entries \cup {NoOrder} /\ NoOrder \notin Entries
        BY <2>3, <3>1 DEF Bought, OrderId, NoOrder
      <4> HIDE DEF Entries
      <4>2. /\ IsFiniteSet(Entries \cup {NoOrder})
            /\ Cardinality(Entries \cup {NoOrder}) = Cardinality(Entries) + 1
        BY <2>4, <4>1, FS_AddElement
      <4> QED
        BY <3>1, <4>1, <4>2
    <3>2. CASE ~IsStop(1)
      <4>1. Bought = Entries
        BY <3>2 DEF Bought
      <4> QED
        BY <2>4, <2>5, <3>2, <4>1
    <3> QED
      BY <3>1, <3>2
  <2>8. Cardinality(Sold) <= Cardinality(Bought)
    <3> HIDE DEF f
    <3> QED
      BY <2>1, <2>7, FS_Injection
  <2> QED
    BY <2>5, <2>6, <2>7, <2>8 DEF Net
<1> QED
  BY <1>1, InvHolds, LotsHold, PTL

=============================================================================
