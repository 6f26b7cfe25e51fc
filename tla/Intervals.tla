----------------------------- MODULE Intervals -----------------------------
(***************************************************************************)
(* How the iterators of the state table divide the positions 0..size-1 of  *)
(* one round between the execute threads: every thread but the last gets   *)
(* size / num_threads consecutive positions, the last one gets the rest.   *)
(* The intervals are inclusive at both ends; an empty one ends just before *)
(* it begins.                                                              *)
(***************************************************************************)
EXTENDS Integers

\* interval_first of the thread with index i (both branches of the loop
\* compute the same product).
IntervalFirst(size, n, i) == (size \div n) * i

\* Faulty variants of IntervalLast: the last thread gets no rest; an interval
\* reaches the first position of the next one.
IntervalLastNoRest(size, n, i) == (size \div n) * (i + 1) - 1

IntervalLastOverlaps(size, n, i) ==
  IF i < n - 1 THEN (size \div n) * (i + 1) ELSE size - 1

\* interval_last of the thread with index i.
IntervalLast(size, n, i) ==
  IF i < n - 1 THEN (size \div n) * (i + 1) - 1 ELSE size - 1

\* The positions the thread with index i iterates over.
IntervalPositions(size, n, i) ==
  IntervalFirst(size, n, i) .. IntervalLast(size, n, i)

=============================================================================
