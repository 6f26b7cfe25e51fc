------------------------------ MODULE MCRounds ------------------------------
(***************************************************************************)
(* The instances of Rounds that TLC checks.                                *)
(***************************************************************************)
EXTENDS Rounds

\* Rounds with nothing to do, fewer positions than threads, as many, and
\* more (with a rest for the last thread).
AllSizes == {0, 2, 3, 5}

=============================================================================
