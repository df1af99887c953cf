----------------------------- MODULE MCTaskBidding -----------------------------
(* Bids and callers are interchangeable. *)
EXTENDS TaskBidding, TLC

Interchangeable == Permutations(Bids) \cup Permutations(Callers)
===============================================================================
