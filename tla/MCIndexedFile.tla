---------------------------- MODULE MCIndexedFile ----------------------------
(* Three keys, so that a record can fall before, between and after others. *)
EXTENDS IndexedFile, TLC

ThreeKeys == 1..3
Symmetry  == Permutations(Values)
=============================================================================
