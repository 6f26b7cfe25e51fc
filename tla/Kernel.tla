------------------------------- MODULE Kernel -------------------------------
(***************************************************************************)
(* The three phases of the program: loading, changing the rows, and        *)
(* writing the result file.                                                *)
(***************************************************************************)
EXTENDS Loading

VARIABLE result  (* the lines of the result file, by the bucket they come from; *)
                 (* NoFile as long as there is none                            *)

kernelVars == <<allVars, result>>

-----------------------------------------------------------------------------
KernelInit == LoadingInit /\ result = NoFile

\* Faulty variant of Dumped: the pass ends before the last bucket.
DumpedShort(T) ==
  [b \in {c \in 0 .. T.size - 2 : T.buckets[c] # Free} |->
     <<T.buckets[b].k, T.buckets[b].v.changed>>]

\* The lines of a pass with the EntirePassIterator, in the order of the
\* buckets: key and value of each row.
Dumped(T) ==
  [b \in {c \in Positions(T) : T.buckets[c] # Free} |->
     <<T.buckets[b].k, T.buckets[b].v.changed>>]

\* dump.  A file that cannot be opened is not noticed.
Dump ==
  /\ Finished
  /\ \/ result' = Dumped(table)
     \/ UNCHANGED result
  /\ UNCHANGED loading

KernelNext ==
  \/ LoadingNext /\ UNCHANGED result
  \/ Dump

KernelSpec == KernelInit /\ [][KernelNext]_kernelVars

-----------------------------------------------------------------------------
KernelTypeOK ==
  /\ LoadingTypeOK
  /\ result # NoFile =>
       /\ DOMAIN result \subseteq Positions(table)
       /\ \A b \in DOMAIN result : result[b] \in Keys \X BOOLEAN

\* From the input file to the result file nothing is lost: for a well-formed
\* input that fits, the result has one line for each vertex, with the value
\* last written for it.
ResultRight ==
  phase = "done" /\ result # NoFile /\ WellFormed /\ Fits =>
    /\ Cardinality(DOMAIN result) = line
    /\ \A k \in 0 .. line - 1 :
         \E b \in DOMAIN result : result[b] = <<k, written[k].changed>>

=============================================================================
