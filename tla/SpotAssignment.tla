--------------------------- MODULE SpotAssignment ---------------------------
(***************************************************************************)
(* What _make_asm promises of the spot map, without saying how it is       *)
(* found: groups of values that may share a place are placed one group at  *)
(* a time, each place respects the conflicts with what is already placed,  *)
(* and nothing is ever moved.                                              *)
(***************************************************************************)
EXTENDS Naturals

CONSTANTS
  Nodes,   \* values and the registers that appear in the graph
  Pool     \* the registers values may be placed in

VARIABLES
  conf,    \* conf[n]: what n may not share a place with
  spotmap  \* where each node is

vars == <<conf, spotmap>>

NoSpot == <<"none", 0>>
Spot == ({"reg"} \X Pool) \cup ({"mem"} \X Nat)

Init ==
  /\ conf \in [Nodes -> SUBSET Nodes]
  /\ spotmap = [n \in Nodes |-> NoSpot]

\* What a step moves.
Moved == { n \in Nodes : spotmap'[n] # spotmap[n] }

\* Place one group, as yet unplaced, where none of its conflicts is.
Place ==
  /\ spotmap' \in [Nodes -> Spot \cup {NoSpot}]
  /\ \A n \in Moved : spotmap[n] = NoSpot
  /\ \A m, n \in Moved : spotmap'[m] = spotmap'[n]
  /\ \A n \in Moved : \A m \in conf[n] : spotmap'[m] # spotmap'[n]
  /\ conf' = conf

Next == Place

Spec == Init /\ [][Next]_vars

=============================================================================
