------------------------------ MODULE MCLogger ------------------------------
(***************************************************************************)
(* Logger with the kinds of lines the kernel writes.                       *)
(***************************************************************************)
EXTENDS Logger, TLC

\* Ordinary lines with and without endl (statetable.h, "wait for put"), and
\* fatal lines.
KernelLines ==
  {[level |-> LOG_INFO, endl |-> TRUE], [level |-> LOG_INFO, endl |-> FALSE],
   [level |-> LOG_FATAL, endl |-> TRUE]}

Symmetry == Permutations(Threads)

=============================================================================
