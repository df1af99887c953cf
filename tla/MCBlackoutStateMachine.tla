-------------------------- MODULE MCBlackoutStateMachine --------------------------
(* Three drones with scaled-down windows. *)
EXTENDS BlackoutStateMachine
===============================================================================
