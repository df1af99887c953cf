------------------------------ MODULE MCSwarmTasks ------------------------------
(* A swarm of two agents that may bid twice, with two ticks under way. *)
EXTENDS SwarmTasks
===============================================================================
