----------------------------- MODULE MCRequests -----------------------------
(* Two contracts and three market rules for TLC: the coarsest rule is in   *)
(* the middle of the list of the contract whose table is asked for.        *)
EXTENDS Requests

CONSTANTS cA, cB

MCRulesOf == [c \in Contracts |-> IF c = cB THEN <<1, 2, 3>> ELSE <<3>>]

(* A unit is a cent.  At 50.0 the ticks are 1, 10 and 2.                   *)
MCTableOf ==
  << <<[lowEdge |-> 0, increment |-> 1]>>,
     <<[lowEdge |-> 0, increment |-> 2], [lowEdge |-> 2000, increment |-> 5],
       [lowEdge |-> 4000, increment |-> 10]>>,
     <<[lowEdge |-> 0, increment |-> 2]>> >>

(* Fills around the edges, some with their stop in the band below, and one *)
(* whose stop is rounded up onto an edge: 43 less 7 percent.               *)
MCFills == {100 * n : n \in (19..22) \cup (40..44)}

MCLosses == {1, 5, 7, 25, 100, 500, 700, 2500}

=============================================================================
