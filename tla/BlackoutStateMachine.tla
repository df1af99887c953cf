--------------------------- MODULE BlackoutStateMachine ---------------------------
(***************************************************************************)
(* The blackout coordination FSM of swarm/coordination/state_machine.py:   *)
(* heartbeats and time in, the swarm-level mode and the explorer out.      *)
(*                                                                         *)
(* Clock readings are only ever subtracted and compared with max_age and   *)
(* solo_no_peer_sec, so the state keeps ages instead of times, each capped *)
(* where comparing it tells nothing more.  A heartbeat's depth and trust   *)
(* are only compared lexicographically: one number, frontier.  Drone ids   *)
(* are numbers, in their lexicographic order.  The actions on_heartbeat    *)
(* returns (REBUILD_CHAIN) and its decision log change no state.           *)
(***************************************************************************)
EXTENDS Integers, FiniteSets

CONSTANTS
    Drones,             \* the ids, numbers
    Frontiers,          \* the values of (depth, trust)
    MaxAge,             \* live_drones' max_age
    MinPeersForming,    \* min_peers_forming
    MinLiveRecovering,  \* min_live_recovering
    SoloNoPeer          \* solo_no_peer_sec

ASSUME FsmAssumption ==
    /\ Drones \subseteq Nat
    /\ Frontiers \subseteq Nat /\ \E deepest \in Frontiers : \A f \in Frontiers : f <= deepest
    /\ MaxAge \in Nat /\ MinPeersForming \in Nat /\ MinLiveRecovering \in Nat
    /\ SoloNoPeer \in Nat \ {0}

VARIABLES
    swarm_state,   \* the mode
    drones,        \* what the last heartbeat of each drone said, and its age
    explorer_id,   \* {} or the set of the elected explorer
    isolation      \* time since _first_empty_peers_at, NotIsolated for None

vars == <<swarm_state, drones, explorer_id, isolation>>

SwarmState == {"discovery", "forming", "exploring", "recovering", "solo"}

NotIsolated == -1

\* The age of a drone that is not live, and of one never heard of.
Old == MaxAge + 1
Unheard == MaxAge + 2

DroneState == [age : 0 .. Unheard, frontier : Frontiers \cup {0}, standby : BOOLEAN]

Init ==
    /\ swarm_state = "discovery"
    /\ drones = [d \in Drones |-> [age |-> Unheard, frontier |-> 0, standby |-> FALSE]]
    /\ explorer_id = {}
    /\ isolation = NotIsolated
-------------------------------------------------------------------------------
live_drones(ds) == {d \in Drones : ds[d].age <= MaxAge}

\* elect_explorer: the deepest of the drones ever heard of that are standby (of
\* all of them when none is), the lowest id among equals.
Candidates(ds) ==
    LET heard == {d \in Drones : ds[d].age # Unheard}
        standby == {d \in heard : ds[d].standby}
    IN  IF standby = {} THEN heard ELSE standby

\* Fault: no tie-break by id.
BeforeWithoutTieBreak(ds, d, e) == ds[d].frontier >= ds[e].frontier

Before(ds, d, e) ==
    \/ ds[d].frontier > ds[e].frontier
    \/ ds[d].frontier = ds[e].frontier /\ d <= e

elect_explorer(ds) ==
    {d \in Candidates(ds) : \A e \in Candidates(ds) : Before(ds, d, e)}

IsolationOf(peers) ==
    IF peers > 1 THEN NotIsolated
    ELSE IF isolation = NotIsolated THEN 0 ELSE isolation

\* Fault: rediscovered peers do not end solo flight.
AfterIsolationStaysSolo(s, peers, alone) ==
    IF peers <= 1 /\ alone >= SoloNoPeer THEN "solo" ELSE s

\* The mode changes of one heartbeat, in the order of the code.
AfterIsolation(s, peers, alone) ==
    IF peers > 1 THEN IF s = "solo" THEN "discovery" ELSE s
    ELSE IF alone >= SoloNoPeer THEN "solo" ELSE s

AfterQuorumLoss(s, peers) ==
    IF peers < MinLiveRecovering /\ s \notin {"recovering", "discovery", "solo"}
    THEN "recovering" ELSE s

AfterDiscovery(s, peers) ==
    IF s = "discovery" /\ peers >= MinPeersForming THEN "forming" ELSE s

AfterRecovery(s, peers) ==
    IF s = "recovering" /\ peers >= MinLiveRecovering THEN "exploring" ELSE s

\* The mode before the election.
ModeOf(peers) ==
    AfterDiscovery(
        AfterQuorumLoss(AfterIsolation(swarm_state, peers, IsolationOf(peers)), peers),
        peers)

\* Fault: the election is held once the swarm explores.
ElectsWhenExploring(peers) == ModeOf(peers) = "exploring" /\ explorer_id = {}

ElectsNow(peers) == ModeOf(peers) = "forming" /\ explorer_id = {}

\* on_heartbeat
OnHeartbeat(d, frontier, standby) ==
    LET ds == [drones EXCEPT ![d] = [age |-> 0, frontier |-> frontier, standby |-> standby]]
        peers == Cardinality(live_drones(ds))
    IN  /\ drones' = ds
        /\ isolation' = IsolationOf(peers)
        /\ IF ElectsNow(peers) /\ elect_explorer(ds) # {}
           THEN /\ explorer_id' = elect_explorer(ds)
                /\ swarm_state' = "exploring"
           ELSE /\ UNCHANGED explorer_id
                /\ swarm_state' = AfterRecovery(ModeOf(peers), peers)

\* Fault: a drone never heard of ages like the others.
AgedSinceBoot(age) == age + 1

\* Time goes by.
Aged(age) == IF age < Old THEN age + 1 ELSE age

TimePasses ==
    /\ drones' = [d \in Drones |-> [drones[d] EXCEPT !.age = Aged(@)]]
    /\ isolation' = IF isolation \in 0 .. SoloNoPeer - 1 THEN isolation + 1 ELSE isolation
    /\ UNCHANGED <<swarm_state, explorer_id>>

Heartbeat(d) == \E f \in Frontiers, standby \in BOOLEAN : OnHeartbeat(d, f, standby)

Next ==
    \/ \E d \in Drones : Heartbeat(d)
    \/ TimePasses

Spec == Init /\ [][Next]_vars
-------------------------------------------------------------------------------
\* Modes, ages and the isolation time stay within range; only known drones are explorers.
TypeOK ==
    /\ swarm_state \in SwarmState
    /\ drones \in [Drones -> DroneState]
    /\ explorer_id \subseteq Drones
    /\ isolation \in {NotIsolated} \cup 0 .. SoloNoPeer

\* The swarm explores, forms a chain or recovers one only with an explorer that
\* was elected: "Do not claim EXPLORING until a deterministic leader exists."
ExplorerBeforeExploring ==
    swarm_state \in {"forming", "exploring", "recovering"} => explorer_id # {}

\* Solo flight is only ever the answer to a full solo window without a peer; the
\* first heartbeat with a peer ends it.
SoloOnlyWhenIsolated == swarm_state = "solo" => isolation = SoloNoPeer

\* There is one explorer: elections are deterministic.
OneExplorer == \A d, e \in explorer_id : d = e

\* The inductive invariant: the safety properties support each other.
FsmInv ==
    /\ TypeOK
    /\ ExplorerBeforeExploring
    /\ SoloOnlyWhenIsolated
    /\ OneExplorer
===============================================================================
