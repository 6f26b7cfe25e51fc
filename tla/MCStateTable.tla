---------------------------- MODULE MCStateTable ----------------------------
(***************************************************************************)
(* Instances of StateTable whose keys collide in tables of 1 to 7 buckets. *)
(***************************************************************************)
EXTENDS StateTable

FewKeys == {1, 3, 4, 7}

=============================================================================
