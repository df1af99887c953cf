----------------------------- MODULE DroneElection -----------------------------
(***************************************************************************)
(* BullyElection (swarm/bully_election.py) as the DroneCoordinator of      *)
(* scripts/run_5drone_p2p.py drives it, one instance per drone.            *)
(*                                                                         *)
(* Each drone has a thread that ticks once a second and the server's       *)
(* threads, one for every message being handled.  They share the election  *)
(* and the chain manager without a lock, so every write another thread can *)
(* see is a step of its own: a thread's step names the write it makes next.*)
(*                                                                         *)
(* Messages may be lost, repeated and late (the network emulator does all  *)
(* three), so what was sent stays deliverable and is never due.  Time is   *)
(* counted in ticks of the drone, which last a little more than a second;  *)
(* batteries are equal in this coordinator (100) and left out.             *)
(***************************************************************************)
EXTENDS Integers, FiniteSets

CONSTANTS
    Drones,            \* numbers, in the order of the ids
    Depth,             \* the depth each drone is an election candidate with
    Advertised,        \* the depth in its heartbeats (that of its chain manager)
    ElectionTimeout,   \* election_timeout_s in ticks
    HeartbeatTimeout,  \* heartbeat_timeout_s in ticks
    Handlers,          \* bound on the announcements each drone handles at a time
    MaxStops           \* bound on the drones that stop

None == -1

ASSUME DroneElectionAssumption ==
    /\ Drones \subseteq Nat
    /\ Depth \in [Drones -> Nat]
    /\ Advertised \in [Drones -> Nat]
    /\ ElectionTimeout \in Nat /\ HeartbeatTimeout \in Nat
    /\ Handlers \in [Drones -> Nat] /\ MaxStops \in Nat

\* The tick thread of a drone, and the server threads that handle announcements.
Ticker == 0
Handler(d) == 1..Handlers[d]
Threads(d) == 0..Handlers[d]

VARIABLES
    state,       \* ElectionState of each drone
    leader,      \* current_leader
    candidates,  \* per drone, the depth of each candidate it knows, or None
    sinceStart,  \* ticks since _election_start_ms, up to the timeout
    sinceLeader, \* ticks since _last_heartbeat_from_leader_ms, up to the timeout
    role,        \* the chain manager's role
    step,        \* the next write of each thread
    winner,      \* the candidate each thread makes leader
    net,         \* the messages sent
    stopped,     \* the drones whose coordinator was stopped
    basis,       \* history: the candidates a drone's last winner was picked from
    raced        \* history: the drones whose last election crossed an announcement

clocks == <<sinceStart, sinceLeader>>
world == <<net, stopped>>
history == <<basis, raced>>
vars == <<state, leader, candidates, clocks, role, step, winner, world, history>>

ElectionState == {"election_in_progress", "elected", "follower"}
DroneRole == {"explorer", "relay", "standby"}

Restarting == {"restart_state", "restart_candidates"}
Declaring == {"victory_state", "victory_leader", "victory_role"}
Accepting == {"win_leader", "win_timer", "win_state", "win_candidate", "win_role"}
Storing == {"result_state", "result_leader"}

TickerStep ==
    {"idle", "finalize"} \cup Restarting \cup Declaring \cup Accepting \cup Storing
HandlerStep == {"idle"} \cup Accepting

Heartbeat(d) == [kind |-> "HEARTBEAT", from |-> d]
ElectionWin(d) == [kind |-> "ELECTION_WIN", from |-> d]

NoWinner == [node |-> None, depth |-> 0]

\* Fault: the announcement does not say who won.
AnnouncedUnnamed(p) == [node |-> None, depth |-> Depth[p]]

\* The candidate an ELECTION_WIN of p makes leader.
Announced(p) == [node |-> p, depth |-> Depth[p]]

\* __lt__ of CandidateInfo: deeper first, then the smaller id.
Outranks(p, pDepth, q, qDepth) == pDepth > qDepth \/ (pDepth = qDepth /\ p < q)

Known(d) == {p \in Drones : candidates[d][p] # None}

\* p comes first when d sorts its candidates.
Wins(d, p) ==
    \A q \in Known(d) \ {p} : Outranks(p, candidates[d][p], q, candidates[d][q])

OnlySelf(d) == [p \in Drones |-> IF p = d THEN Depth[d] ELSE None]

\* __init__ and start: every coordinator opens an election and has never heard from
\* a leader.
Init ==
    /\ state = [d \in Drones |-> "election_in_progress"]
    /\ leader = [d \in Drones |-> None]
    /\ candidates = [d \in Drones |-> OnlySelf(d)]
    /\ sinceStart = [d \in Drones |-> 0]
    /\ sinceLeader = [d \in Drones |-> HeartbeatTimeout]
    /\ role = [d \in Drones |-> "standby"]
    /\ step = [d \in Drones |-> [t \in Threads(d) |-> "idle"]]
    /\ winner = [d \in Drones |-> [t \in Threads(d) |-> NoWinner]]
    /\ net = {}
    /\ stopped = {}
    /\ basis = [d \in Drones |-> {}]
    /\ raced = {}
-------------------------------------------------------------------------------
\* Thread t of d makes the write named from, and goes on to the one named to.
Write(d, t, from, to) ==
    /\ step[d][t] = from
    /\ step' = [step EXCEPT ![d][t] = to]

\* No thread of d is between two writes.
AtRest(d) == \A t \in Threads(d) : step[d][t] = "idle"

Handling(d) == \E h \in Handler(d) : step[d][h] # "idle"

\* The tick of d has picked a winner and not stored the result.
Settling(d) == step[d][Ticker] \in Declaring \cup Accepting \cup Storing

\* An age a tick later; what has timed out does not get older.
Aged(ticks, timeout) == IF ticks < timeout THEN ticks + 1 ELSE ticks

\* The heartbeat and the sleep that end a tick.
EndTick(d) ==
    /\ net' = net \cup {Heartbeat(d)}
    /\ sinceStart' = [sinceStart EXCEPT ![d] = Aged(@, ElectionTimeout)]
    /\ sinceLeader' = [sinceLeader EXCEPT ![d] = Aged(@, HeartbeatTimeout)]

\* Fault: no leader at all counts as a silent one.
LeaderMissing(d) == leader[d] # d /\ sinceLeader[d] >= HeartbeatTimeout

\* More than the timeout has passed once as many ticks have.
LeaderTimedOut(d) ==
    leader[d] \notin {None, d} /\ sinceLeader[d] >= HeartbeatTimeout

ElectionOver(d) ==
    state[d] = "election_in_progress" /\ sinceStart[d] >= ElectionTimeout

\* tick: decides on what it reads now, and acts on it later.
Decide(d) ==
    /\ d \notin stopped
    /\ IF LeaderTimedOut(d)
       THEN Write(d, Ticker, "idle", "restart_state")
       ELSE ElectionOver(d) /\ Write(d, Ticker, "idle", "finalize")
    /\ UNCHANGED <<state, leader, candidates, clocks, role, winner, world, history>>

\* A tick that neither restarts nor ends an election.
Wait(d) ==
    /\ d \notin stopped
    /\ step[d][Ticker] = "idle"
    /\ ~LeaderTimedOut(d) /\ ~ElectionOver(d)
    /\ EndTick(d)
    /\ UNCHANGED <<state, leader, candidates, role, step, winner, stopped, history>>

\* start_election, which neither forgets the leader nor restarts the clock of its
\* silence.  The election is open before its candidates are cleared.
RestartState(d) ==
    /\ Write(d, Ticker, "restart_state", "restart_candidates")
    /\ state' = [state EXCEPT ![d] = "election_in_progress"]
    /\ UNCHANGED <<leader, candidates, clocks, role, winner, world, history>>

\* The clock of the election restarts, and the tick ends.
RestartCandidates(d) ==
    /\ Write(d, Ticker, "restart_candidates", "idle")
    /\ candidates' = [candidates EXCEPT ![d] = OnlySelf(d)]
    /\ sinceStart' = [sinceStart EXCEPT ![d] = Aged(0, ElectionTimeout)]
    /\ sinceLeader' = [sinceLeader EXCEPT ![d] = Aged(@, HeartbeatTimeout)]
    /\ net' = net \cup {Heartbeat(d)}
    /\ UNCHANGED <<state, leader, role, winner, stopped, history>>

\* _finalize_election picks the winner.
Pick(d) ==
    /\ \E p \in Known(d) :
         /\ Wins(d, p)
         /\ Write(d, Ticker, "finalize", IF p = d THEN "victory_state" ELSE "win_leader")
         /\ winner' = [winner EXCEPT
                         ![d][Ticker] = [node |-> p, depth |-> candidates[d][p]]]
    /\ basis' = [basis EXCEPT ![d] = Known(d)]
    /\ raced' = IF Handling(d) THEN raced \cup {d} ELSE raced \ {d}
    /\ UNCHANGED <<state, leader, candidates, clocks, role, world>>
-------------------------------------------------------------------------------
(* declare_victory and the elected callback. *)

VictoryState(d) ==
    /\ Write(d, Ticker, "victory_state", "victory_leader")
    /\ state' = [state EXCEPT ![d] = "elected"]
    /\ UNCHANGED <<leader, candidates, clocks, role, winner, world, history>>

VictoryLeader(d) ==
    /\ Write(d, Ticker, "victory_leader", "victory_role")
    /\ leader' = [leader EXCEPT ![d] = d]
    /\ sinceLeader' = [sinceLeader EXCEPT ![d] = 0]
    /\ UNCHANGED <<state, candidates, sinceStart, role, winner, world, history>>

\* Fault: a new leader keeps the role it had.
VictoryInRole(d) ==
    /\ Write(d, Ticker, "victory_role", "result_state")
    /\ net' = net \cup {ElectionWin(d)}
    /\ UNCHANGED <<state, leader, candidates, clocks, role, winner, stopped, history>>

\* The role, then the news to all.
VictoryRole(d) ==
    /\ Write(d, Ticker, "victory_role", "result_state")
    /\ role' = [role EXCEPT ![d] = "explorer"]
    /\ net' = net \cup {ElectionWin(d)}
    /\ UNCHANGED <<state, leader, candidates, clocks, winner, stopped, history>>

(* receive_election_win and the lost_election callback: of a tick that lost, or of *)
(* a server thread.                                                                *)

AcceptLeader(d, t) ==
    /\ Write(d, t, "win_leader", "win_timer")
    /\ leader' = [leader EXCEPT ![d] = winner[d][t].node]
    /\ UNCHANGED <<state, candidates, clocks, role, winner, world, history>>

AcceptTimer(d, t) ==
    /\ Write(d, t, "win_timer", "win_state")
    /\ sinceLeader' = [sinceLeader EXCEPT ![d] = 0]
    /\ UNCHANGED <<state, leader, candidates, sinceStart, role, winner, world, history>>

\* Fault: the announcement changes the leader and not the state.
AcceptStateAsIs(d, t) ==
    /\ Write(d, t, "win_state", "win_candidate")
    /\ UNCHANGED <<state, leader, candidates, clocks, role, winner, world, history>>

AcceptState(d, t) ==
    /\ Write(d, t, "win_state", "win_candidate")
    /\ state' = [state EXCEPT ![d] = "follower"]
    /\ UNCHANGED <<leader, candidates, clocks, role, winner, world, history>>

AcceptCandidate(d, t) ==
    /\ Write(d, t, "win_candidate", "win_role")
    /\ candidates' = [candidates EXCEPT ![d][winner[d][t].node] = winner[d][t].depth]
    /\ UNCHANGED <<state, leader, clocks, role, winner, world, history>>

\* A server thread is done; a tick goes on to store its result.
AcceptRole(d, t) ==
    /\ Write(d, t, "win_role", IF t = Ticker THEN "result_state" ELSE "idle")
    /\ role' = [role EXCEPT ![d] = "relay"]
    /\ winner' = [winner EXCEPT ![d][t] = IF t = Ticker THEN @ ELSE NoWinner]
    /\ UNCHANGED <<state, leader, candidates, clocks, world, history>>

Accept(d, t) ==
    \/ AcceptLeader(d, t) \/ AcceptTimer(d, t) \/ AcceptState(d, t)
    \/ AcceptCandidate(d, t) \/ AcceptRole(d, t)

(* The end of _finalize_election. *)

StoreState(d) ==
    /\ Write(d, Ticker, "result_state", "result_leader")
    /\ state' = [state EXCEPT
                   ![d] = IF winner[d][Ticker].node = d THEN "elected" ELSE "follower"]
    /\ UNCHANGED <<leader, candidates, clocks, role, winner, world, history>>

StoreLeader(d) ==
    /\ Write(d, Ticker, "result_leader", "idle")
    /\ leader' = [leader EXCEPT ![d] = winner[d][Ticker].node]
    /\ winner' = [winner EXCEPT ![d][Ticker] = NoWinner]
    /\ EndTick(d)
    /\ UNCHANGED <<state, candidates, role, stopped, history>>
-------------------------------------------------------------------------------
\* receive_election_message, called for every heartbeat: the sender becomes a
\* candidate, whatever the state.
OnHeartbeat(d, p) ==
    /\ d \notin stopped /\ p # d
    /\ Heartbeat(p) \in net
    /\ candidates' = [candidates EXCEPT ![d][p] = Advertised[p]]
    /\ UNCHANGED <<state, leader, clocks, role, step, winner, world, history>>

\* A server thread takes up an announcement; it is believed whenever it arrives.
OnElectionWin(d, h, p) ==
    /\ d \notin stopped /\ p # d
    /\ ElectionWin(p) \in net
    /\ Write(d, h, "idle", "win_leader")
    /\ winner' = [winner EXCEPT ![d][h] = Announced(p)]
    /\ raced' = IF Settling(d) THEN raced \cup {d} ELSE raced
    /\ UNCHANGED <<state, leader, candidates, clocks, role, world, basis>>

\* stop takes effect between two ticks; what is being handled is finished.
Stop(d) ==
    /\ step[d][Ticker] = "idle"
    /\ Cardinality(stopped) < MaxStops
    /\ stopped' = stopped \cup {d}
    /\ UNCHANGED <<state, leader, candidates, clocks, role, step, winner, net, history>>

Tick(d) ==
    \/ Decide(d) \/ Wait(d)
    \/ RestartState(d) \/ RestartCandidates(d)
    \/ Pick(d)
    \/ VictoryState(d) \/ VictoryLeader(d) \/ VictoryRole(d)
    \/ Accept(d, Ticker)
    \/ StoreState(d) \/ StoreLeader(d)

Next ==
    \E d \in Drones :
        \/ Tick(d)
        \/ Stop(d)
        \/ \E h \in Handler(d) :
             Accept(d, h) \/ \E p \in Drones : OnElectionWin(d, h, p)
        \/ \E p \in Drones : OnHeartbeat(d, p)

\* Every thread at work goes on, and every running coordinator keeps ticking;
\* nothing is promised of the network.
Spec ==
    /\ Init /\ [][Next]_vars
    /\ \A d \in Drones : WF_vars(Tick(d))
    /\ \A d \in Drones : \A h \in Handler(d) : WF_vars(Accept(d, h))
-------------------------------------------------------------------------------
\* A thread that makes a drone the leader knows which: a drone of the swarm.
ThreadsTyped(d) ==
    /\ step[d] \in [Threads(d) -> TickerStep]
    /\ winner[d] \in [Threads(d) -> [node : Drones \cup {None}, depth : Nat]]
    /\ \A h \in Handler(d) :
         /\ step[d][h] \in HandlerStep
         /\ step[d][h] # "idle" => winner[d][h].node \in Drones
    /\ Settling(d) => winner[d][Ticker].node \in Drones

\* Ages stay within their timeouts, and every thread that settles an election or
\* handles an announcement knows whom it makes the leader.
TypeOK ==
    /\ state \in [Drones -> ElectionState]
    /\ leader \in [Drones -> Drones \cup {None}]
    /\ candidates \in [Drones -> [Drones -> Nat \cup {None}]]
    /\ sinceStart \in [Drones -> 0..ElectionTimeout]
    /\ sinceLeader \in [Drones -> 0..HeartbeatTimeout]
    /\ role \in [Drones -> DroneRole]
    /\ DOMAIN step = Drones /\ DOMAIN winner = Drones
    /\ \A d \in Drones : ThreadsTyped(d)
    /\ net \subseteq {Heartbeat(d) : d \in Drones} \cup {ElectionWin(d) : d \in Drones}
    /\ stopped \in SUBSET Drones
    /\ basis \in [Drones -> SUBSET Drones]
    /\ raced \in SUBSET Drones

\* A drone between two writes that is elected names itself the leader, whatever
\* announcements its threads crossed with; the converse holds unless the end of its
\* last election crossed an announcement.  (When it did, a follower may be left
\* that names itself the leader: the handler writes its state between the two
\* writes that end _finalize_election.)
LeaderIffElected ==
    \A d \in Drones : AtRest(d) =>
        /\ state[d] = "elected" => leader[d] = d
        /\ leader[d] = d /\ d \notin raced => state[d] = "elected"

\* A drone between two writes whose chain manager explores is the elected one,
\* whatever its threads crossed with; the elected one explores unless the end of its
\* last election crossed an announcement.  (When it did, the elected drone may be
\* left a relay: the handler's set_role comes after that of the election.)
ExplorerIffElected ==
    \A d \in Drones : AtRest(d) =>
        /\ role[d] = "explorer" => state[d] = "elected"
        /\ state[d] = "elected" /\ d \notin raced => role[d] = "explorer"

\* The depth-based election with its deterministic tie-break makes one leader: two
\* drones that had heard of each other when they picked a winner are never both
\* elected.
NoTwoLeadersWhoMet ==
    \A d, p \in Drones :
        /\ d # p
        /\ state[d] = "elected" /\ state[p] = "elected"
        => ~(p \in basis[d] /\ d \in basis[p])

\* The first election ends: every running drone comes to have a leader, even alone.
EveryoneGetsALeader ==
    \A d \in Drones : <>(d \in stopped \/ leader[d] # None)

\* Re-election on timeout: a leader that stopped does not stay the leader of a
\* running drone for ever.
StoppedLeaderReplaced ==
    \A d, p \in Drones : [](p \in stopped => <>(leader[d] # p \/ d \in stopped))
===============================================================================
