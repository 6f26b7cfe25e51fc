---------------------------- MODULE MCScheduling ----------------------------
(***************************************************************************)
(* Instances of Scheduling: tables of four buckets with any layout, both   *)
(* iterators, thresholds from the first and the last row of the sample.    *)
(***************************************************************************)
EXTENDS Scheduling

FewPriorities == 0 .. 2

=============================================================================
