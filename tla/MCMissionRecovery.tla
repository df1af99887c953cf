--------------------------- MODULE MCMissionRecovery ---------------------------
(* One target and one node are enough for every order of its rows. *)
EXTENDS MissionRecovery
===============================================================================
