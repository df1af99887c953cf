--------------------------- MODULE MCMissionMachine ---------------------------
(* One or two targets; the shortest complete mission takes four transitions. *)
EXTENDS MissionMachine, TLC

Interchangeable == Permutations(Targets)
===============================================================================
