----------------------------- MODULE MCPagerank -----------------------------
(***************************************************************************)
(* VertexUpdate with the shape of examples/pagerank.cpp (and of katz.cpp   *)
(* and adsorption.cpp): deltas are added up, and a delta counts as often   *)
(* as it arrives.  Shares are whole numbers (a link passes on its weight   *)
(* times the delta) and the graph has no cycle, so that sums end.          *)
(***************************************************************************)
EXTENDS VertexUpdate, Integers, TLC

Vertices == 1 .. 3
Arcs == (1 :> <<2, 3>>) @@ (2 :> <<3, 3>>) @@ (3 :> << >>)
Weights == (1 :> <<1, 2>>) @@ (2 :> <<1, 2>>) @@ (3 :> << >>)

\* No sum of this graph is as large as this.
Most == 12
Amounts == 0 .. Most
Capped(n) == IF n < Most THEN n ELSE Most

accumulate(a, b) == Capped(a + b)
g_func(k, i, delta) == Capped(delta * Weights[k][i])
priorityOf(value, delta) == delta
init_c == [k \in Vertices |-> 1]

AllVertices == {Vertices}
AnyVertices == SUBSET Vertices
Symmetry == Permutations(Threads)

-----------------------------------------------------------------------------
\* Reference: the solution of rank = first delta + what the links bring.
Rank[k \in Vertices] ==
  CASE k = 1 -> 1
    [] k = 2 -> 1 + Rank[1]
    [] k = 3 -> 1 + 2 * Rank[1] + 3 * Rank[2]

\* As long as rounds go on scheduling each vertex now and then, the values
\* become the solution and stay so.
RanksReached ==
  (\A k \in Vertices : []<>(k \in todo))
    => <>[](v2 = [k \in Vertices |-> Rank[k]])

=============================================================================
