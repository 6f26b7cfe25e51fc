------------------------------- MODULE RowMap -------------------------------
(***************************************************************************)
(* What the state table promises its users: a map from keys to rows, where *)
(* what is found under a key is what was last put under it.                *)
(***************************************************************************)
CONSTANTS Keys, Rows, NoRow

VARIABLES
  row,   (* what is found under each key, NoRow where there is nothing   *)
  asked  (* history: the row the calls last asked to put under each key  *)

vars == <<row, asked>>

Init ==
  /\ row = [k \in Keys |-> NoRow]
  /\ asked = row

\* A call that puts v under k: that row is found under that key from then on,
\* and no row of another key changes.
Put(k, v) ==
  /\ asked' = [asked EXCEPT ![k] = v]
  /\ row' = [row EXCEPT ![k] = v]

Next == \E k \in Keys, v \in Rows : Put(k, v)

Spec == Init /\ [][Next]_vars

=============================================================================
