------------------------ MODULE BlackoutStateMachine_proofs ------------------------
(***************************************************************************)
(* For any number of drones and any windows: the FSM never explores        *)
(* without an explorer, elects one, and flies solo only when isolated.     *)
(***************************************************************************)
EXTENDS BlackoutStateMachine, WellFoundedInduction, TLAPS

\* A non-empty set of naturals has a least element.
LEMMA LeastNatural ==
    ASSUME NEW T, T \subseteq Nat, T # {}
    PROVE  \E x \in T : \A y \in T : x <= y
<1> DEFINE Less == {p \in Nat \X Nat : p[1] < p[2]}
<1>1. IsWellFoundedOn(Less, Nat)
    BY NatLessThanWellFounded DEF OpToRel
<1>2. PICK x \in T : \A y \in T : ~(<<y, x>> \in Less)
    BY <1>1, WFMin
<1>3. ASSUME NEW y \in T PROVE x <= y
  <2>1. x \in Nat /\ y \in Nat
      OBVIOUS
  <2>2. <<y, x>> \in Nat \X Nat /\ ~(y < x)
      BY <1>2, <2>1
  <2> QED
      BY <2>1, <2>2
<1> QED
    BY <1>3
-------------------------------------------------------------------------------
\* Facts about one drone record.
LEMMA RecordFacts ==
    ASSUME NEW ds \in [Drones -> DroneState], NEW d \in Drones
    PROVE  /\ ds[d].age \in Nat
           /\ ds[d].frontier \in Nat
           /\ d \in Nat
<1>1. ds[d] \in DroneState
    OBVIOUS
<1>2. Unheard \in Nat
    BY FsmAssumption DEF Unheard
<1>3. ds[d].age \in 0 .. Unheard /\ ds[d].frontier \in Frontiers \cup {0}
    BY <1>1 DEF DroneState
<1>4. Frontiers \subseteq Nat /\ Drones \subseteq Nat
    BY FsmAssumption
<1>5. ds[d].age \in Nat
    BY <1>2, <1>3
<1>6. ds[d].frontier \in Nat
  <2>1. CASE ds[d].frontier = 0
      BY <2>1
  <2>2. CASE ds[d].frontier \in Frontiers
      BY <1>4, <2>2, Zenon
  <2> QED
      BY <1>3, <2>1, <2>2
<1> QED
    BY <1>4, <1>5, <1>6

\* Among candidates there is one that goes before all the others: the deepest,
\* and of the deepest the one with the lowest id.
LEMMA SomebodyElected ==
    ASSUME NEW ds \in [Drones -> DroneState], Candidates(ds) # {}
    PROVE  elect_explorer(ds) # {}
<1> DEFINE C == Candidates(ds)
<1>1. C \subseteq Drones
    BY DEF Candidates
<1>2. PICK deepest \in Nat : \A c \in C : ds[c].frontier <= deepest
  <2>1. PICK m \in Frontiers : \A f \in Frontiers : f <= m
      BY FsmAssumption
  <2>2. ASSUME NEW c \in C PROVE ds[c].frontier <= m
    <3>1. ds[c] \in DroneState
        BY <1>1
    <3>2. ds[c].frontier \in Frontiers \cup {0}
        BY <3>1 DEF DroneState
    <3>3. m \in Nat
        BY FsmAssumption
    <3>4. CASE ds[c].frontier = 0
        BY <3>3, <3>4
    <3> QED
        BY <2>1, <3>2, <3>4
  <2>3. m \in Nat
      BY FsmAssumption
  <2> QED
      BY <2>2, <2>3
<1> DEFINE Gaps == {deepest - ds[c].frontier : c \in C}
<1>3. Gaps \subseteq Nat /\ Gaps # {}
    BY <1>1, <1>2, RecordFacts
<1>4. PICK gap \in Gaps : \A g \in Gaps : gap <= g
    BY <1>3, LeastNatural
<1> DEFINE Deep == {c \in C : deepest - ds[c].frontier = gap}
<1>5. Deep \subseteq Nat /\ Deep # {}
    BY <1>1, <1>4, RecordFacts
<1>6. PICK first \in Deep : \A c \in Deep : first <= c
  <2> HIDE DEF Deep
  <2> QED BY <1>5, LeastNatural
<1>7. ASSUME NEW e \in C PROVE Before(ds, first, e)
  <2>1. /\ ds[first].frontier \in Nat /\ ds[e].frontier \in Nat
        /\ deepest - ds[first].frontier = gap
        /\ gap <= deepest - ds[e].frontier
      BY <1>1, <1>4, RecordFacts
  <2>2. CASE deepest - ds[e].frontier = gap
      BY <1>6, <2>1, <2>2 DEF Before
  <2>3. CASE deepest - ds[e].frontier # gap
      BY <2>1, <2>3, <1>2 DEF Before
  <2> QED
      BY <2>2, <2>3
<1> QED
    BY <1>7 DEF elect_explorer

\* There is only one such candidate.
LEMMA OneElected ==
    ASSUME NEW ds \in [Drones -> DroneState],
           NEW d \in elect_explorer(ds), NEW e \in elect_explorer(ds)
    PROVE  d = e
<1>1. d \in Drones /\ e \in Drones
    BY DEF elect_explorer, Candidates
<1>2. Before(ds, d, e) /\ Before(ds, e, d)
    BY DEF elect_explorer
<1> QED
    BY <1>1, <1>2, RecordFacts DEF Before

\* The mode before the election is a mode.
LEMMA ModeType ==
    ASSUME TypeOK, NEW peers
    PROVE  ModeOf(peers) \in SwarmState
BY DEF TypeOK, ModeOf, AfterDiscovery, AfterQuorumLoss, AfterIsolation, SwarmState
-------------------------------------------------------------------------------
\* FsmInv holds initially.
LEMMA FsmInit == Init => FsmInv
BY FsmAssumption DEF Init, FsmInv, TypeOK, SwarmState, DroneState, Unheard, NotIsolated,
    ExplorerBeforeExploring, SoloOnlyWhenIsolated, OneExplorer

\* on_heartbeat preserves FsmInv.
LEMMA HeartbeatStep ==
    ASSUME FsmInv, NEW d \in Drones, NEW f \in Frontiers, NEW standby \in BOOLEAN,
           OnHeartbeat(d, f, standby)
    PROVE  FsmInv'
<1> DEFINE ds == [drones EXCEPT ![d] = [age |-> 0, frontier |-> f, standby |-> standby]]
           peers == Cardinality(live_drones(ds))
<1>1. ds \in [Drones -> DroneState] /\ ds[d].age = 0
    BY FsmAssumption DEF FsmInv, TypeOK, DroneState, Unheard
<1>2. elect_explorer(ds) # {}
  <2>1. d \in {c \in Drones : ds[c].age # Unheard}
      BY <1>1, FsmAssumption DEF Unheard
  <2>2. Candidates(ds) # {}
      BY <2>1 DEF Candidates
  <2> QED
      BY <1>1, <2>2, SomebodyElected
<1>3. elect_explorer(ds) \subseteq Drones
    BY DEF elect_explorer, Candidates
<1>4. drones' = ds /\ isolation' = IsolationOf(peers)
    BY DEF OnHeartbeat
<1> HIDE DEF ds, peers
<1>5. \/ /\ ElectsNow(peers)
         /\ explorer_id' = elect_explorer(ds) /\ swarm_state' = "exploring"
      \/ /\ ~ElectsNow(peers)
         /\ explorer_id' = explorer_id /\ swarm_state' = AfterRecovery(ModeOf(peers), peers)
    BY <1>2 DEF OnHeartbeat, ds, peers
<1>6. TypeOK'
  <2>1. swarm_state' \in SwarmState
      BY <1>5, ModeType DEF FsmInv, AfterRecovery, SwarmState
  <2>2. isolation' \in {NotIsolated} \cup 0 .. SoloNoPeer
      BY <1>4, FsmAssumption DEF FsmInv, TypeOK, IsolationOf, NotIsolated
  <2>3. explorer_id' \subseteq Drones
      BY <1>3, <1>5 DEF FsmInv, TypeOK
  <2> QED
      BY <1>1, <1>4, <2>1, <2>2, <2>3 DEF TypeOK
<1>7. ExplorerBeforeExploring'
  <2>1. CASE ElectsNow(peers) \/ explorer_id # {}
      BY <1>2, <1>5, <2>1 DEF ExplorerBeforeExploring
  <2>2. CASE ~ElectsNow(peers) /\ explorer_id = {}
    <3>1. swarm_state \in {"discovery", "solo"}
        BY <2>2 DEF FsmInv, TypeOK, SwarmState, ExplorerBeforeExploring
    <3>2. AfterIsolation(swarm_state, peers, IsolationOf(peers)) \in {"discovery", "solo"}
        BY <3>1 DEF AfterIsolation
    <3>3. ModeOf(peers) \in {"discovery", "solo", "forming"}
        BY <3>2 DEF ModeOf, AfterDiscovery, AfterQuorumLoss
    <3>4. ModeOf(peers) \in {"discovery", "solo"}
        BY <2>2, <3>3 DEF ElectsNow
    <3>5. swarm_state' \in {"discovery", "solo"}
        BY <1>5, <2>2, <3>4 DEF AfterRecovery
    <3> QED
        BY <3>5 DEF ExplorerBeforeExploring
  <2> QED
      BY <2>1, <2>2
<1>8. SoloOnlyWhenIsolated'
  <2>1. SUFFICES ASSUME swarm_state' = "solo" PROVE isolation' = SoloNoPeer
      BY DEF SoloOnlyWhenIsolated
  <2>2. ModeOf(peers) = "solo"
      BY <1>5, <2>1 DEF AfterRecovery
  <2>3. AfterIsolation(swarm_state, peers, IsolationOf(peers)) = "solo"
      BY <2>2 DEF ModeOf, AfterDiscovery, AfterQuorumLoss
  <2>4. ~(peers > 1)
      BY <2>3 DEF AfterIsolation
  <2>5. CASE IsolationOf(peers) >= SoloNoPeer
      BY <1>4, <1>6, <2>5, FsmAssumption DEF TypeOK, NotIsolated
  <2>6. CASE swarm_state = "solo"
      BY <1>4, <2>4, <2>6, FsmAssumption
      DEF FsmInv, SoloOnlyWhenIsolated, IsolationOf, NotIsolated
  <2> QED
      BY <2>3, <2>4, <2>5, <2>6 DEF AfterIsolation
<1>9. OneExplorer'
    BY <1>1, <1>5, OneElected DEF FsmInv, OneExplorer
<1> QED
    BY <1>6, <1>7, <1>8, <1>9 DEF FsmInv

\* The passing of time preserves FsmInv.
LEMMA TimeStep ==
    ASSUME FsmInv, TimePasses
    PROVE  FsmInv'
<1>1. TypeOK'
  <2>1. drones' \in [Drones -> DroneState]
      BY FsmAssumption DEF FsmInv, TypeOK, TimePasses, DroneState, Aged, Old, Unheard
  <2>2. isolation' \in {NotIsolated} \cup 0 .. SoloNoPeer
      BY FsmAssumption DEF FsmInv, TypeOK, TimePasses, NotIsolated
  <2> QED
      BY <2>1, <2>2 DEF FsmInv, TypeOK, TimePasses
<1>2. SoloOnlyWhenIsolated'
    BY FsmAssumption DEF FsmInv, SoloOnlyWhenIsolated, TimePasses
<1>3. ExplorerBeforeExploring' /\ OneExplorer'
    BY DEF FsmInv, ExplorerBeforeExploring, OneExplorer, TimePasses
<1> QED
    BY <1>1, <1>2, <1>3 DEF FsmInv

\* FsmInv is an invariant of the FSM.
THEOREM FsmInvariance == Spec => []FsmInv
<1>1. Init => FsmInv
    BY FsmInit
<1>2. FsmInv /\ [Next]_vars => FsmInv'
  <2>1. SUFFICES ASSUME FsmInv, [Next]_vars PROVE FsmInv'
      OBVIOUS
  <2>2. CASE \E d \in Drones : Heartbeat(d)
      BY <2>1, <2>2, HeartbeatStep DEF Heartbeat
  <2>3. CASE TimePasses
      BY <2>1, <2>3, TimeStep
  <2>4. CASE UNCHANGED vars
      BY <2>1, <2>4 DEF FsmInv, TypeOK, ExplorerBeforeExploring, SoloOnlyWhenIsolated,
          OneExplorer, vars
  <2> QED
      BY <2>1, <2>2, <2>3, <2>4 DEF Next
<1> QED
    BY <1>1, <1>2, PTL DEF Spec

\* Modes, ages and the isolation time stay within range; only known drones are explorers.
THEOREM FsmTypes == Spec => []TypeOK
<1>1. FsmInv => TypeOK
    BY DEF FsmInv
<1> QED
    BY <1>1, FsmInvariance, PTL

\* The swarm never explores, forms or recovers without an elected explorer.
THEOREM ExploringIsLed == Spec => []ExplorerBeforeExploring
<1>1. FsmInv => ExplorerBeforeExploring
    BY DEF FsmInv
<1> QED
    BY <1>1, FsmInvariance, PTL

\* Solo flight happens only after a full solo window without a peer.
THEOREM SoloIsIsolation == Spec => []SoloOnlyWhenIsolated
<1>1. FsmInv => SoloOnlyWhenIsolated
    BY DEF FsmInv
<1> QED
    BY <1>1, FsmInvariance, PTL

\* No election ever leaves two explorers.
THEOREM ExplorerUnique == Spec => []OneExplorer
<1>1. FsmInv => OneExplorer
    BY DEF FsmInv
<1> QED
    BY <1>1, FsmInvariance, PTL
===============================================================================
