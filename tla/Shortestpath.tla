---------------------------- MODULE Shortestpath ----------------------------
(***************************************************************************)
(* VertexUpdate with the algorithm of examples/shortestpath.cpp, on any    *)
(* graph: deltas are path lengths, accumulated with min.                   *)
(***************************************************************************)
EXTENDS VertexUpdate

CONSTANTS
  Source,      (* shortestpath_source                                      *)
  Weights,     (* Weights[k][i]: the weight of the i-th link of vertex k   *)
  imax         (* numeric_limits<double>::max()                            *)

Least(a, b) == IF a < b THEN a ELSE b

accumulate(a, b) == Least(a, b)
g_func(k, i, delta) == Least(delta + Weights[k][i], imax)
priorityOf(value, delta) == value - Least(value, delta)
init_c == [k \in Keys |-> IF k = Source THEN 0 ELSE imax]

ASSUME WeightsAssumption ==
  /\ imax \in Nat
  /\ \A k \in Keys : \A i \in DOMAIN Links[k] : Weights[k][i] \in Nat
\* The kernel runs this algorithm.
ASSUME AlgorithmAssumption ==
  /\ Values = 0 .. imax /\ Default = imax /\ InitDelta = init_c
  /\ \A a, b \in Values : Acc(a, b) = accumulate(a, b)
  /\ \A k \in Keys : \A i \in DOMAIN Links[k] :
       \A d \in Values : Gain(k, i, d) = g_func(k, i, d)

-----------------------------------------------------------------------------
\* Reference: from the lengths of shortest paths with at most n arcs to those
\* of paths with one arc more.
Extended(length) ==
  [k \in Keys |->
     LET via == {length[l[1]] + Weights[l[1]][l[2]] : l \in Promise!Into(k)}
     IN  CHOOSE d \in via \cup {length[k]} :
           \A e \in via \cup {length[k]} : d <= e]

PathLength[n \in 0 .. Cardinality(Keys)] ==
  IF n = 0 THEN init_c ELSE Extended(PathLength[n - 1])

Distance == PathLength[Cardinality(Keys)]

\* The values never go below the shortest distances, and no value is left
\* above its distance once nothing is left to be spread.
DistancesSound ==
  /\ \A k \in Keys : v2[k] >= Distance[k]
  /\ AllIdle /\ (\A k \in Keys : v1[k] >= v2[k]) => v2 = Distance

\* As long as rounds go on scheduling each vertex now and then, the values
\* become the shortest distances and stay so.
DistancesReached ==
  (\A k \in Keys : []<>(k \in todo)) => <>[](v2 = Distance)

=============================================================================
