-------------------------- MODULE MCSettlementQueue --------------------------
(* SettlementQueue with two missions, one flusher and four rows. *)
EXTENDS SettlementQueue
===============================================================================
