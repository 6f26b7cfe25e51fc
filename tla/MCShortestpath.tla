--------------------------- MODULE MCShortestpath ---------------------------
(***************************************************************************)
(* Shortestpath on a graph with a cycle.                                   *)
(***************************************************************************)
EXTENDS Shortestpath, TLC

Vertices == 1 .. 3
Arcs == (1 :> <<2, 3>>) @@ (2 :> <<3>>) @@ (3 :> <<2>>)
ArcWeights == (1 :> <<4, 1>>) @@ (2 :> <<1>>) @@ (3 :> <<2>>)

\* 8 stands for imax: no path of the graph is as long.
Lengths == 0 .. 8

AnyVertices == SUBSET Vertices

=============================================================================
