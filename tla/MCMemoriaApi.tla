----------------------------- MODULE MCMemoriaApi -----------------------------
(* Instances of MemoriaApi for TLC: the dispatcher alone, and with the console. *)
EXTENDS MemoriaApi, TLC

CONSTANTS t1, t2, k1, k2, v1, v2, dispatcher, console
Symmetry == Permutations(Tables) \cup Permutations(Keys) \cup Permutations(Values)
=============================================================================
