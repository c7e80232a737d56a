------------------------------ MODULE OrderCall ------------------------------
(***************************************************************************)
(* What SmartRouter.submit_with_fallback promises its caller, without      *)
(* tiers, delays and callbacks: however many orders one call places, it    *)
(* places none while another of them may trade or has traded in full, it   *)
(* answers None only when none of them ever will, and the id it answers is *)
(* the only one that may.  SmartRouter implements it.                      *)
(***************************************************************************)
CONSTANTS
  OrderId,
  NoOrder   \* the answer None

VARIABLES
  placed,  \* orders of the call
  alive,   \* those TWS has neither refused nor cancelled
  answer   \* {} before the call returns, then what it returns

callVars == <<placed, alive, answer>>

Init ==
  /\ placed = {}
  /\ alive = {}
  /\ answer = {}

-----------------------------------------------------------------------------
Place(o) ==
  /\ answer = {}
  /\ alive = {}
  /\ o \notin placed
  /\ placed' = placed \cup {o}
  /\ alive' = {o}
  /\ UNCHANGED answer

(* At TWS, at any time, before the answer and after.                       *)
Die(o) ==
  /\ o \in alive
  /\ alive' = alive \ {o}
  /\ UNCHANGED <<placed, answer>>

Accept(o) ==
  /\ answer = {}
  /\ o \in placed
  /\ alive \subseteq {o}
  /\ answer' = {o}
  /\ UNCHANGED <<placed, alive>>

GiveUp ==
  /\ answer = {}
  /\ placed # {}
  /\ alive = {}
  /\ answer' = {NoOrder}
  /\ UNCHANGED <<placed, alive>>

(* The caller has the answer; its next call starts afresh.                 *)
Return ==
  /\ answer # {}
  /\ placed' = {}
  /\ alive' = {}
  /\ answer' = {}

Next ==
  \/ \E o \in OrderId : Place(o) \/ Die(o) \/ Accept(o)
  \/ GiveUp
  \/ Return

Spec == Init /\ [][Next]_callVars

=============================================================================
