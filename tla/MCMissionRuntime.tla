---------------------------- MODULE MCMissionRuntime ----------------------------
(* The operator's buttons and the heartbeat timer on a small mission, in the    *)
(* scenario the page starts with or in another one.                             *)
EXTENDS MissionRuntime

CONSTANTS n1, n2

MCRoster == [sc \in Scenarios |-> IF sc = PageScenario THEN {n1} ELSE {n1, n2}]

MCHasCarrier == [sc \in Scenarios |-> TRUE]
===============================================================================
