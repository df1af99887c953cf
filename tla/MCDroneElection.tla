---------------------------- MODULE MCDroneElection ----------------------------
(* Two drones.  The second is deeper, so the first wins or loses its election by   *)
(* whether it has heard of the second, and it is the one that handles              *)
(* announcements, two at a time; or, as in the script, the first is deeper and     *)
(* heartbeats tell no depth.                                                       *)
EXTENDS DroneElection

MCDepth == [d \in Drones |-> d + 1]
MCHandlers == [d \in Drones |-> IF d = 0 THEN 2 ELSE 0]
NoHandlers == [d \in Drones |-> 0]
ScriptDepth == [d \in Drones |-> 2 - d]
ScriptAdvertised == [d \in Drones |-> 0]
===============================================================================
