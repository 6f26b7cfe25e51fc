----------------------------- MODULE BulkRounds -----------------------------
(***************************************************************************)
(* What the threads of the second phase promise together: the computation  *)
(* goes in rounds.  A round plans a number of positions, applies each of   *)
(* them exactly once, in any order, and is over before the next one is     *)
(* planned; the result is dumped between two rounds.                       *)
(***************************************************************************)
EXTENDS Integers

CONSTANT Sizes  (* the numbers of positions a round may plan *)

VARIABLES
  phase,  (* "plan", "work" or "dump"               *)
  todo    (* positions of the round not yet applied *)

vars == <<phase, todo>>

Init == phase = "plan" /\ todo = {}

Plan ==
  /\ phase = "plan"
  /\ \E n \in Sizes : todo' = 0 .. n - 1
  /\ phase' = "work"

Apply ==
  /\ phase = "work"
  /\ \E p \in todo : todo' = todo \ {p}
  /\ UNCHANGED phase

Finish ==
  /\ phase = "work" /\ todo = {}
  /\ phase' = "plan"
  /\ UNCHANGED todo

Stop ==
  /\ phase = "plan"
  /\ phase' = "dump"
  /\ UNCHANGED todo

Next == Plan \/ Apply \/ Finish \/ Stop

Spec == Init /\ [][Next]_vars

=============================================================================
