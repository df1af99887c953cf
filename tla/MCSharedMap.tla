------------------------------ MODULE MCSharedMap ------------------------------
(* Two interchangeable nodes that map the same cells. *)
EXTENDS SharedMap, TLC

Interchangeable == Permutations(Replicas) \cup Permutations(Cells)
===============================================================================
