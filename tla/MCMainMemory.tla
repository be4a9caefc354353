----------------------------- MODULE MCMainMemory -----------------------------
(* Instances of MainMemory for TLC: two tables, two keys and two or three frames. *)
EXTENDS MainMemory, TLC

CONSTANTS t1, t2, k1, k2, v1, v2
Symmetry == Permutations(Tables) \cup Permutations(Keys) \cup Permutations(Values)
=============================================================================
