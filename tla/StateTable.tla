----------------------------- MODULE StateTable -----------------------------
(***************************************************************************)
(* The state table: a hash table with linear probing, filled by one thread *)
(* from the input file (MaiterKernel1) and then changed row by row.  What  *)
(* a row holds besides its key (delta, value, links, priority) is one      *)
(* value here; rows are never removed.                                     *)
(***************************************************************************)
EXTENDS Integers, FiniteSets, FiniteSetsExt

CONSTANTS
  Keys,      (* the keys that occur in the input (hashed to themselves)    *)
  Rows,      (* the contents of a row                                      *)
  NoRow,     (* no contents                                                *)
  Free,      (* a bucket that is not in use                                *)
  NodeCounts (* the NODES a configuration may give                         *)

ASSUME KeysAssumption == Keys \subseteq Nat /\ IsFiniteSet(Keys)
ASSUME RowsAssumption == NoRow \notin Rows
ASSUME FreeAssumption == Free \notin [k : Keys, v : Rows]
ASSUME NodeCountsAssumption == NodeCounts \subseteq Int

VARIABLES
  table,      (* [size, entries, buckets]                                  *)
  num_nodes,  (* the size init_table asks for                              *)
  phase,      (* "start", "new" (configured), "load" (read_file), "run",   *)
              (* "done" (dumped), "exit" or, after an assert, "dead"       *)
  written     (* history: what was last put or modified under each key     *)

vars == <<table, num_nodes, phase, written>>

-----------------------------------------------------------------------------
(* The table as a value.                                                   *)

Positions(T) == 0 .. T.size - 1

bucket_idx(T, k) == k % T.size

\* How far the probe for a key may go before a bucket stops it.
Stops(T, k) ==
  {d \in 0 .. T.size - 1 :
     LET b == T.buckets[(bucket_idx(T, k) + d) % T.size]
     IN  b = Free \/ b.k = k}

\* Where the probe ends: a bucket that stops it, or where it began.
ProbeEnd(T, k) ==
  IF Stops(T, k) = {} THEN bucket_idx(T, k)
  ELSE (bucket_idx(T, k) + Min(Stops(T, k))) % T.size

Holds(T, b, k) == T.buckets[b] # Free /\ T.buckets[b].k = k

\* bucket_for_key: the bucket of a key, or -1.
bucket_for_key(T, k) ==
  IF Holds(T, ProbeEnd(T, k), k) THEN ProbeEnd(T, k) ELSE -1

contains(T, k) == bucket_for_key(T, k) # -1

\* get, getF1, getF2, getF3, for a key that has a row.
get(T, k) == T.buckets[bucket_for_key(T, k)].v

Write(T, b, k, v) == [T EXCEPT !.buckets[b] = [k |-> k, v |-> v]]

\* Faulty variants of Place: a new row is not counted; an existing row is not
\* replaced.
PlaceUncounted(T, k, v) == Write(T, ProbeEnd(T, k), k, v)

PlaceOnce(T, k, v) ==
  IF Holds(T, ProbeEnd(T, k), k) THEN T
  ELSE [Write(T, ProbeEnd(T, k), k, v) EXCEPT !.entries = @ + 1]

\* The branches of put that do not expand the table.
Place(T, k, v) ==
  LET W == Write(T, ProbeEnd(T, k), k, v)
  IN  IF Holds(T, ProbeEnd(T, k), k) THEN W ELSE [W EXCEPT !.entries = @ + 1]

\* Faulty variant of Cleared: one bucket too many.
ClearedOneMore(n) ==
  [size |-> n, entries |-> 0, buckets |-> [b \in 0 .. n |-> Free]]

Cleared(n) ==
  [size |-> n, entries |-> 0, buckets |-> [b \in 0 .. n - 1 |-> Free]]

\* Faulty variant of Resized: the rows stay where they were.
ResizedInPlace(T, n) ==
  [size |-> n, entries |-> T.entries,
   buckets |-> [b \in 0 .. n - 1 |->
                  IF b < T.size THEN T.buckets[b] ELSE Free]]

\* resize: every row is put again, in the order of the old buckets (never
\* into a table that is too small for them).
Resized(T, n) ==
  LET filled[i \in 0 .. T.size] ==
        IF i = 0 THEN Cleared(n)
        ELSE LET b == T.buckets[i - 1]
             IN  IF b = Free THEN filled[i - 1]
                 ELSE Place(filled[i - 1], b.k, b.v)
  IN  IF T.size = n THEN T ELSE filled[T.size]

\* put expands a table whose entries exceed its size.
MustExpand(T, k) == ~Holds(T, ProbeEnd(T, k), k) /\ T.entries > T.size

\* The recursive put counts the new entry, and so does the outer one.
Expanded(T, k, v) ==
  LET P == Place(Resized(T, 1 + T.size * 2), k, v)
  IN  [P EXCEPT !.entries = @ + 1]

-----------------------------------------------------------------------------
\* CreateTable: StateTable(1).
NewTable == Cleared(1)

Init ==
  /\ table = NewTable /\ num_nodes = 0
  /\ phase = "start"
  /\ written = [k \in Keys |-> NoRow]

\* The configuration is read.
Configured(n) ==
  /\ phase = "start"
  /\ num_nodes' = n
  /\ phase' = "new"
  /\ UNCHANGED <<table, written>>

\* init_table gives the empty table the size of the configuration.
InitTable ==
  /\ phase = "new" /\ num_nodes > 0
  /\ table' = Resized(table, num_nodes)
  /\ phase' = "load"
  /\ UNCHANGED <<num_nodes, written>>

\* assert(size > 0) of resize fails.
InitTableFails ==
  /\ phase = "new" /\ num_nodes <= 0
  /\ phase' = "dead"
  /\ UNCHANGED <<table, num_nodes, written>>

Wrote(k, v) == written' = [written EXCEPT ![k] = v]

\* put, for a line of the input: the row fits, or replaces one.
Put(k, v) ==
  /\ phase = "load" /\ ~MustExpand(table, k)
  /\ table' = Place(table, k, v)
  /\ Wrote(k, v)
  /\ UNCHANGED <<num_nodes, phase>>

\* put, when the table is expanded first.
PutExpanding(k, v) ==
  /\ phase = "load" /\ MustExpand(table, k)
  /\ table' = Expanded(table, k, v)
  /\ Wrote(k, v)
  /\ UNCHANGED <<num_nodes, phase>>

\* The input is read; the second phase begins.
Loaded ==
  /\ phase = "load"
  /\ phase' = "run"
  /\ UNCHANGED <<table, num_nodes, written>>

\* updateF1, updateF2, accumulateF1, accumulateF2: a change of one row.
Modify(k, v) ==
  /\ phase = "run" /\ contains(table, k)
  /\ table' = Write(table, bucket_for_key(table, k), k, v)
  /\ Wrote(k, v)
  /\ UNCHANGED <<num_nodes, phase>>

\* The same without such a row: assert(b != -1) fails.
ModifyMissing(k) ==
  /\ phase = "run" /\ ~contains(table, k)
  /\ phase' = "dead"
  /\ UNCHANGED <<table, num_nodes, written>>

\* The program ends for a reason that lies outside the table.
Ended(how) ==
  /\ phase \notin {"done", "exit", "dead"}
  /\ phase' = how
  /\ UNCHANGED <<table, num_nodes, written>>

\* The second phase has ended, and the third reads the table.
Finished ==
  /\ phase = "run"
  /\ phase' = "done"
  /\ UNCHANGED <<table, num_nodes, written>>

Next ==
  \/ \E n \in NodeCounts : Configured(n)
  \/ InitTable \/ InitTableFails \/ Loaded \/ Finished
  \/ Ended("exit") \/ Ended("dead")
  \/ \E k \in Keys, v \in Rows :
       Put(k, v) \/ PutExpanding(k, v) \/ Modify(k, v)
  \/ \E k \in Keys : ModifyMissing(k)

Spec == Init /\ [][Next]_vars

-----------------------------------------------------------------------------
(* Invariants.                                                             *)

Buckets == {Free} \cup [k : Keys, v : Rows]
InUse == {b \in Positions(table) : table.buckets[b] # Free}

TypeOK ==
  /\ table.size \in Nat \ {0}
  /\ table.entries \in Nat
  /\ table.buckets \in [Positions(table) -> Buckets]
  /\ num_nodes \in NodeCounts \cup {0}
  /\ phase \in {"start", "new", "load", "run", "done", "exit", "dead"}
  /\ written \in [Keys -> Rows \cup {NoRow}]

\* However full the table is and however it was expanded, the probe for the
\* key of a row that is in the table ends at that row; in particular no key
\* has two rows.
RowsReachable ==
  \A b \in InUse : bucket_for_key(table, table.buckets[b].k) = b

\* A row that is in the table is the one last written under its key: an
\* expansion brings no old row back.
RowsCurrent ==
  \A b \in InUse : table.buckets[b].v = written[table.buckets[b].k]

\* The rows a user of the table finds.
Found ==
  [k \in Keys |-> IF contains(table, k) THEN get(table, k) ELSE NoRow]

Promise == INSTANCE RowMap WITH row <- Found, asked <- written

\* The input had no more keys so far than NODES says.
Fits == Cardinality({k \in Keys : written[k] # NoRow}) <= num_nodes

\* As long as the keys fit, the table is a map: a put or a change of a row is
\* seen under its key, with the row of the call, and under no other key; none
\* is lost.
ImplementsRowMap ==
  Promise!Init /\ [][Fits' => [Promise!Next]_(Promise!vars)]_vars

\* entries_ never counts too few rows, so that a table is not expanded too
\* late for it.  It may count one too many, after a put into a full table and
\* after the double count of an expansion, but these do not add up; and as
\* long as the keys fit, it is the number of rows.
CountRight ==
  /\ table.entries \in Cardinality(InUse) .. Cardinality(InUse) + 1
  /\ Fits => table.entries = Cardinality(InUse)

\* The table is "expanded as necessary": a row that was put is found.
NothingForgotten == \A k \in Keys : written[k] # NoRow => Found[k] # NoRow

=============================================================================
