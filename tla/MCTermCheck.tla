---------------------------- MODULE MCTermCheck -----------------------------
(***************************************************************************)
(* TermCheck with an additive algorithm, as in examples/pagerank.cpp.      *)
(***************************************************************************)
EXTENDS TermCheck, TLC

Vertices == {0, 1, 3}
Arcs == (0 :> <<1, 3>>) @@ (1 :> <<3, 3>>) @@ (3 :> << >>)

\* No sum of this graph is as large as this.
Most == 12
Amounts == 0 .. Most
Capped(n) == IF n < Most THEN n ELSE Most

\* The additive algorithm; no cycle, so that sums end.
add(a, b) == Capped(a + b)
AddWeights == (0 :> <<1, 2>>) @@ (1 :> <<1, 2>>) @@ (3 :> << >>)
pagerank_g(k, i, delta) == Capped(delta * AddWeights[k][i])
AddDeltas == [k \in Vertices |-> 1]

=============================================================================
