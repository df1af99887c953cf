------------------------ MODULE SwarmAgreement_proofs ------------------------
(* Proofs about DroneElection: what two elected drones that met say of their    *)
(* heartbeats, and how far leader, state and role agree, for any swarm, depths, *)
(* timeouts and threads and with any network; and about PbftOrder: when a       *)
(* round, and an order with its view changes, succeeds.                         *)
EXTENDS DroneElection, PbftOrder, FiniteSetTheorems, TLAPS

\* The write the tick thread of d makes next, and whether d is to be the leader.
Ticking(d) == step[d][Ticker]
Own(d) == winner[d][Ticker].node = d

\* Some announcement being handled has named another leader and not set its role yet.
Overtaking(d) == \E h \in Handler(d) : step[d][h] \in Accepting \ {"win_leader"}

\* Some announcement being handled has named another leader and not written the state.
Unseating(d) == \E h \in Handler(d) : step[d][h] \in {"win_timer", "win_state"}

\* Some announcement being handled has written the state and not set the role.
Relaying(d) == \E h \in Handler(d) : step[d][h] \in {"win_candidate", "win_role"}

\* A drone knows of another what it announced or advertised, and itself exactly; so
\* does a thread that is about to follow another drone.
CandidatesTrue(d) ==
    /\ \A p \in Drones : candidates[d][p] \in {None, Depth[p], Advertised[p]}
    /\ candidates[d][d] = Depth[d]
    /\ \A h \in Handler(d) : step[d][h] # "idle" =>
         /\ winner[d][h].node \in Drones \ {d}
         /\ winner[d][h].depth = Depth[winner[d][h].node]
    /\ Ticking(d) \in Accepting =>
         /\ winner[d][Ticker].node \in Drones \ {d}
         /\ winner[d][Ticker].depth
              \in {Depth[winner[d][Ticker].node], Advertised[winner[d][Ticker].node]}
    /\ Ticking(d) \in Declaring => Own(d)

\* d outranks all of its last basis by what it may have known of them.
BeatsBasis(d) ==
    \A q \in basis[d] \ {d} :
        \E depth \in {Depth[q], Advertised[q]} : Outranks(d, Depth[d], q, depth)

\* A drone that is elected, or about to be, beat everyone it picked from.
WinnerBeatsBasis(d) ==
    /\ state[d] = "elected" => BeatsBasis(d)
    /\ Settling(d) /\ Own(d) => BeatsBasis(d)

\* Only a tick that won makes its drone elected, and only a tick that found another
\* drone silent opens an election.
ElectionShape(d) ==
    /\ Ticking(d) \in {"finalize", "restart_candidates"} => state[d] # "elected"
    /\ Settling(d) /\ ~Own(d) => state[d] # "elected"
    /\ state[d] = "election_in_progress" => leader[d] # d
    /\ Ticking(d) \in {"finalize"} \cup Restarting => leader[d] # d
    /\ Ticking(d) \in {"victory_leader", "result_leader"} =>
         state[d] # "election_in_progress"

\* An elected drone that does not name itself the leader is about to be one of the
\* two; an explorer that is not elected is about to be elected or a relay.
Behind(d) ==
    /\ state[d] = "elected" =>
         \/ leader[d] = d
         \/ Ticking(d) = "victory_leader"
         \/ Ticking(d) = "result_leader" /\ Own(d)
         \/ Unseating(d)
    /\ role[d] = "explorer" =>
         \/ state[d] = "elected"
         \/ Ticking(d) = "result_state" /\ Own(d)
         \/ Overtaking(d)
    /\ Ticking(d) \in Restarting /\ role[d] = "explorer" => Overtaking(d)

\* While no announcement crosses the end of an election, its writes agree.
Uncrossed(d) ==
    d \notin raced =>
        /\ Settling(d) => ~Handling(d)
        /\ leader[d] = d /\ ~Settling(d) => state[d] = "elected" /\ ~Overtaking(d)
        /\ Ticking(d) = "result_leader" /\ Own(d) => state[d] = "elected"
        /\ Ticking(d) \in Storing /\ Own(d) => role[d] = "explorer"
        /\ state[d] = "elected" /\ ~Settling(d) => role[d] = "explorer" /\ ~Relaying(d)

Sound(d) ==
    /\ CandidatesTrue(d)
    /\ WinnerBeatsBasis(d)
    /\ ElectionShape(d)
    /\ Behind(d)
    /\ Uncrossed(d)

\* The inductive invariant.
DroneInv == TypeOK /\ \A d \in Drones : Sound(d)

\* A step that leaves everything of d but its clocks.
Unmoved(d) ==
    /\ state'[d] = state[d] /\ leader'[d] = leader[d] /\ role'[d] = role[d]
    /\ candidates'[d] = candidates[d] /\ basis'[d] = basis[d]
    /\ step'[d] = step[d] /\ winner'[d] = winner[d]
    /\ d \in raced' <=> d \in raced

USE DEF None, Ticker

\* The invariant holds when all coordinators have started.
LEMMA DroneInit == Init => DroneInv
<1> SUFFICES ASSUME Init PROVE DroneInv
  OBVIOUS
<1>1. TypeOK
  BY DroneElectionAssumption
  DEF Init, TypeOK, ThreadsTyped, OnlySelf, ElectionState, DroneRole, TickerStep,
      HandlerStep, NoWinner,
      Handler, Threads, Settling, Declaring, Accepting, Storing
<1>2. ASSUME NEW d \in Drones PROVE Sound(d)
  <2>1. step[d][Ticker] = "idle" /\ \A h \in Handler(d) : step[d][h] = "idle"
    BY DroneElectionAssumption DEF Init, Threads, Handler
  <2>2. CandidatesTrue(d)
    BY <2>1, DroneElectionAssumption
    DEF Init, CandidatesTrue, OnlySelf, Ticking, Accepting, Declaring
  <2>3. state[d] = "election_in_progress" /\ leader[d] # d /\ role[d] = "standby"
    BY DroneElectionAssumption DEF Init
  <2>4. ~Settling(d)
    BY <2>1 DEF Settling, Declaring, Accepting, Storing
  <2> QED
    BY <2>1, <2>2, <2>3, <2>4
    DEF Sound, WinnerBeatsBasis, ElectionShape, Behind, Uncrossed, Ticking, Restarting,
        Storing
<1> QED
  BY <1>1, <1>2 DEF DroneInv

\* What is left alone stays sound.
LEMMA UnmovedSound ==
    ASSUME NEW d \in Drones, Sound(d), Unmoved(d)
    PROVE  Sound(d)'
<1>1. /\ Ticking(d)' = Ticking(d) /\ (Own(d))' = Own(d) /\ (Settling(d))' = Settling(d)
      /\ (Handling(d))' = Handling(d) /\ (Overtaking(d))' = Overtaking(d)
      /\ (Unseating(d))' = Unseating(d) /\ (Relaying(d))' = Relaying(d)
  BY DEF Unmoved, Ticking, Own, Settling, Handling, Overtaking, Unseating, Relaying, Handler
<1>2. CandidatesTrue(d)'
  BY <1>1 DEF Sound, Unmoved, CandidatesTrue, Handler
<1>3. WinnerBeatsBasis(d)'
  BY <1>1 DEF Sound, Unmoved, WinnerBeatsBasis, BeatsBasis
<1>4. (ElectionShape(d) /\ Behind(d) /\ Uncrossed(d))'
  BY <1>1 DEF Sound, Unmoved, ElectionShape, Behind, Uncrossed
<1> QED
  BY <1>2, <1>3, <1>4 DEF Sound

\* A write of one thread is a step of that thread alone.
LEMMA WriteStep ==
    ASSUME TypeOK, NEW d \in Drones, NEW t \in Threads(d), NEW to \in TickerStep,
           step' = [step EXCEPT ![d][t] = to]
    PROVE  /\ step'[d] = [step[d] EXCEPT ![t] = to]
           /\ step'[d][t] = to
           /\ \A u \in Threads(d) \ {t} : step'[d][u] = step[d][u]
           /\ \A e \in Drones \ {d} : step'[e] = step[e]
           /\ DOMAIN step' = Drones
           /\ \A e \in Drones : step'[e] \in [Threads(e) -> TickerStep]
<1>1. step[d] \in [Threads(d) -> TickerStep] /\ DOMAIN step = Drones
  BY DEF TypeOK, ThreadsTyped
<1>2. step' = [step EXCEPT ![d] = [step[d] EXCEPT ![t] = to]]
  OBVIOUS
<1>3. step'[d] = [step[d] EXCEPT ![t] = to]
  BY <1>1, <1>2
<1>4. \A e \in Drones \ {d} : step'[e] = step[e]
  BY <1>1, <1>2
<1>5. DOMAIN step' = Drones
  BY <1>1, <1>2
<1> QED
  BY <1>1, <1>3, <1>4, <1>5 DEF TypeOK, ThreadsTyped

\* The threads of a drone.
LEMMA ThreadsOf ==
    ASSUME NEW d \in Drones
    PROVE  /\ Threads(d) = Handler(d) \cup {Ticker} /\ Ticker \notin Handler(d)
           /\ Ticker \in Threads(d) /\ Handler(d) \subseteq Threads(d)
BY DroneElectionAssumption DEF Threads, Handler

\* What a write of the tick thread changes, and what it leaves.
TickerWrote(d, from, to) ==
    /\ Ticking(d) = from /\ Ticking(d)' = to
    /\ \A h \in Handler(d) : step'[d][h] = step[d][h]
    /\ (Handling(d))' = Handling(d) /\ (Overtaking(d))' = Overtaking(d)
    /\ (Unseating(d))' = Unseating(d) /\ (Relaying(d))' = Relaying(d)
    /\ \A e \in Drones \ {d} : step'[e] = step[e]
    /\ DOMAIN step' = Drones
    /\ \A e \in Drones : step'[e] \in [Threads(e) -> TickerStep]

\* What a write of a handler changes, and what it leaves.
HandlerWrote(d, h, from, to) ==
    /\ step[d][h] = from /\ step'[d][h] = to
    /\ Ticking(d)' = Ticking(d) /\ (Settling(d))' = Settling(d)
    /\ \A g \in Handler(d) \ {h} : step'[d][g] = step[d][g]
    /\ \A e \in Drones \ {d} : step'[e] = step[e]
    /\ DOMAIN step' = Drones
    /\ \A e \in Drones : step'[e] \in [Threads(e) -> TickerStep]

\* A write of the tick thread leaves the handlers where they are.
LEMMA TickerWrite ==
    ASSUME TypeOK, NEW d \in Drones, NEW from, NEW to \in TickerStep,
           Write(d, Ticker, from, to)
    PROVE  TickerWrote(d, from, to)
<1>1. Ticker \in Threads(d) /\ Handler(d) \subseteq Threads(d) \ {Ticker}
  BY ThreadsOf
<1>2. /\ step[d][Ticker] = from /\ step'[d][Ticker] = to
      /\ \A u \in Threads(d) \ {Ticker} : step'[d][u] = step[d][u]
      /\ \A e \in Drones \ {d} : step'[e] = step[e]
      /\ DOMAIN step' = Drones
      /\ \A e \in Drones : step'[e] \in [Threads(e) -> TickerStep]
  BY <1>1, WriteStep DEF Write
<1>4. \A h \in Handler(d) : step'[d][h] = step[d][h]
  BY <1>1, <1>2
<1>3. /\ (Handling(d))' = Handling(d) /\ (Overtaking(d))' = Overtaking(d)
      /\ (Unseating(d))' = Unseating(d) /\ (Relaying(d))' = Relaying(d)
  BY <1>4 DEF Handling, Overtaking, Unseating, Relaying, Handler
<1> QED
  BY <1>2, <1>3, <1>4 DEF TickerWrote, Ticking

\* A write of a handler leaves the tick and the other handlers where they are.
LEMMA HandlerWrite ==
    ASSUME TypeOK, NEW d \in Drones, NEW h \in Handler(d), NEW from, NEW to \in TickerStep,
           Write(d, h, from, to)
    PROVE  HandlerWrote(d, h, from, to)
<1>1. h \in Threads(d) /\ Ticker \in Threads(d) \ {h} /\ Handler(d) \subseteq Threads(d)
  BY ThreadsOf
<1>2. /\ step[d][h] = from /\ step'[d][h] = to
      /\ \A u \in Threads(d) \ {h} : step'[d][u] = step[d][u]
      /\ \A e \in Drones \ {d} : step'[e] = step[e]
      /\ DOMAIN step' = Drones
      /\ \A e \in Drones : step'[e] \in [Threads(e) -> TickerStep]
  BY <1>1, WriteStep DEF Write
<1> QED
  BY <1>1, <1>2 DEF HandlerWrote, Ticking, Settling

USE DEF TickerWrote, HandlerWrote

\* A drone that handles no announcement has none on its way.
LEMMA HandlingNone ==
    ASSUME NEW d \in Drones, ~Handling(d)
    PROVE  ~Overtaking(d) /\ ~Unseating(d) /\ ~Relaying(d)
BY DEF Handling, Overtaking, Unseating, Relaying, Accepting

\* Threads of a drone that does not move keep their types.
LEMMA OthersTyped ==
    ASSUME TypeOK, NEW d \in Drones, ThreadsTyped(d)',
           \A e \in Drones \ {d} : step'[e] = step[e] /\ winner'[e] = winner[e]
    PROVE  \A e \in Drones : ThreadsTyped(e)'
<1> SUFFICES ASSUME NEW e \in Drones, e # d PROVE ThreadsTyped(e)'
  OBVIOUS
<1>1. ThreadsTyped(e) /\ step'[e] = step[e] /\ winner'[e] = winner[e]
  BY DEF TypeOK
<1> QED
  BY <1>1 DEF ThreadsTyped, Settling, Handler, Threads

\* After a write of a handler the threads of its drone have their types, if it knows
\* whom it makes the leader.
LEMMA HandlerTyped ==
    ASSUME TypeOK, NEW d \in Drones, NEW h \in Handler(d),
           step'[d] \in [Threads(d) -> TickerStep], (Settling(d))' = Settling(d),
           \A g \in Handler(d) \ {h} : step'[d][g] = step[d][g] /\ winner'[d][g] = winner[d][g],
           winner'[d] \in [Threads(d) -> [node : Drones \cup {None}, depth : Nat]],
           winner'[d][Ticker] = winner[d][Ticker],
           step'[d][h] \in HandlerStep,
           step'[d][h] # "idle" => winner'[d][h].node \in Drones
    PROVE  ThreadsTyped(d)'
<1>1. ASSUME NEW g \in Handler(d)
      PROVE  /\ step'[d][g] \in HandlerStep
             /\ step'[d][g] # "idle" => winner'[d][g].node \in Drones
  <2>1. /\ step[d][g] \in HandlerStep
        /\ step[d][g] # "idle" => winner[d][g].node \in Drones
    BY DEF TypeOK, ThreadsTyped
  <2>2. CASE g # h
    <3>1. step'[d][g] = step[d][g] /\ winner'[d][g] = winner[d][g]
      BY <2>2
    <3> QED
      BY <2>1, <3>1
  <2> QED
    BY <2>2
<1>2. (Settling(d))' => winner'[d][Ticker].node \in Drones
  BY DEF TypeOK, ThreadsTyped
<1> QED
  BY <1>1, <1>2 DEF ThreadsTyped, Handler, Threads

\* A tick's age is within its timeout.
LEMMA AgedTypes ==
    ASSUME NEW timeout \in Nat, NEW ticks \in 0..timeout
    PROVE  Aged(ticks, timeout) \in 0..timeout
BY DEF Aged

\* The election is open again.
LEMMA RestartStateStep ==
    ASSUME TypeOK, NEW d \in Drones, Sound(d), RestartState(d)
    PROVE  TypeOK' /\ Sound(d)' /\ \A e \in Drones \ {d} : Unmoved(e)
<1>1. TickerWrote(d, "restart_state", "restart_candidates")
  <2>1. Write(d, Ticker, "restart_state", "restart_candidates") /\ "restart_candidates" \in TickerStep
    BY DEF RestartState, TickerStep, Restarting, Declaring, Accepting, Storing
  <2> QED
    BY <2>1, TickerWrite
<1>s. ThreadsTyped(d)'
  BY <1>1, ThreadsOf
  DEF RestartState, TypeOK, ThreadsTyped, Settling, Ticking, Handler, Threads,
      Restarting, Declaring, Accepting, Storing
<1>o. \A e \in Drones \ {d} : step'[e] = step[e] /\ winner'[e] = winner[e]
  BY <1>1 DEF RestartState, TypeOK
<1>t. \A e \in Drones : ThreadsTyped(e)'
  BY <1>s, <1>o, OthersTyped
<1>2. TypeOK'
  BY <1>1, <1>t, DroneElectionAssumption
  DEF RestartState, TypeOK, EndTick, ElectionState, clocks, world, history
<1>3. \A e \in Drones \ {d} : Unmoved(e)
  BY <1>1 DEF RestartState, TypeOK, Unmoved, clocks, world, history
<1>4. CandidatesTrue(d)'
  BY <1>1, ThreadsOf
  DEF RestartState, TypeOK, Sound, CandidatesTrue, Own, Restarting, Declaring, Accepting,
      Storing, Handler, clocks, world, history
<1>5. WinnerBeatsBasis(d)'
  BY <1>1
  DEF RestartState, TypeOK, Sound, WinnerBeatsBasis, BeatsBasis, CandidatesTrue,
      ElectionShape, Own, Settling, Ticking, Restarting, Declaring, Accepting, Storing,
      clocks, world, history
<1>6. ElectionShape(d)'
  BY <1>1
  DEF RestartState, TypeOK, Sound, ElectionShape, Behind, CandidatesTrue, Own, Settling,
      Ticking, Restarting, Declaring, Accepting, Storing, clocks, world, history
<1>7. Behind(d)'
  BY <1>1
  DEF RestartState, TypeOK, Sound, Behind, ElectionShape, CandidatesTrue, Own, Settling,
      Ticking, Restarting, Declaring, Accepting, Storing, clocks, world, history
<1>8. Uncrossed(d)'
  BY <1>1, HandlingNone
  DEF RestartState, TypeOK, Sound, Uncrossed, Behind, ElectionShape, CandidatesTrue, Own,
      Settling, Ticking, Restarting, Declaring, Accepting, Storing, clocks, world, history
<1> QED
  BY <1>2, <1>3, <1>4, <1>5, <1>6, <1>7, <1>8 DEF Sound

\* Its candidates are forgotten.
LEMMA RestartCandidatesStep ==
    ASSUME TypeOK, NEW d \in Drones, Sound(d), RestartCandidates(d)
    PROVE  TypeOK' /\ Sound(d)' /\ \A e \in Drones \ {d} : Unmoved(e)
<1>1. TickerWrote(d, "restart_candidates", "idle")
  <2>1. Write(d, Ticker, "restart_candidates", "idle") /\ "idle" \in TickerStep
    BY DEF RestartCandidates, TickerStep, Restarting, Declaring, Accepting, Storing
  <2> QED
    BY <2>1, TickerWrite
<1>a. sinceStart' \in [Drones -> 0..ElectionTimeout]
  BY DroneElectionAssumption, AgedTypes DEF TypeOK, EndTick, RestartCandidates, clocks
<1>b. sinceLeader' \in [Drones -> 0..HeartbeatTimeout]
  BY DroneElectionAssumption, AgedTypes DEF TypeOK, EndTick, RestartCandidates, clocks
<1>c. candidates' \in [Drones -> [Drones -> Nat \cup {None}]]
  BY DroneElectionAssumption DEF TypeOK, RestartCandidates, OnlySelf
<1>s. ThreadsTyped(d)'
  BY <1>1, <1>a, <1>b, <1>c, ThreadsOf
  DEF RestartCandidates, TypeOK, ThreadsTyped, Settling, Ticking, Handler, Threads,
      Restarting, Declaring, Accepting, Storing
<1>o. \A e \in Drones \ {d} : step'[e] = step[e] /\ winner'[e] = winner[e]
  BY <1>1, <1>a, <1>b, <1>c DEF RestartCandidates, TypeOK
<1>t. \A e \in Drones : ThreadsTyped(e)'
  BY <1>s, <1>o, OthersTyped
<1>2. TypeOK'
  BY <1>1, <1>t, <1>a, <1>b, <1>c, DroneElectionAssumption
  DEF RestartCandidates, TypeOK, EndTick, OnlySelf, clocks, world, history
<1>3. \A e \in Drones \ {d} : Unmoved(e)
  BY <1>1 DEF RestartCandidates, TypeOK, Unmoved, clocks, world, history
<1>4. CandidatesTrue(d)'
  BY <1>1, <1>a, <1>b, <1>c, ThreadsOf
  DEF RestartCandidates, TypeOK, Sound, CandidatesTrue, Own, Restarting, Declaring,
      Accepting, Storing, Handler, OnlySelf, clocks, world, history
<1>5. WinnerBeatsBasis(d)'
  BY <1>1, <1>a, <1>b, <1>c
  DEF RestartCandidates, TypeOK, Sound, WinnerBeatsBasis, BeatsBasis, CandidatesTrue,
      ElectionShape, Own, Settling, Ticking, Restarting, Declaring, Accepting, Storing,
      OnlySelf, clocks, world, history
<1>6. ElectionShape(d)'
  BY <1>1, <1>a, <1>b, <1>c
  DEF RestartCandidates, TypeOK, Sound, ElectionShape, Behind, CandidatesTrue, Own,
      Settling, Ticking, Restarting, Declaring, Accepting, Storing, OnlySelf, clocks,
      world, history
<1>7. Behind(d)'
  BY <1>1, <1>a, <1>b, <1>c
  DEF RestartCandidates, TypeOK, Sound, Behind, ElectionShape, CandidatesTrue, Own,
      Settling, Ticking, Restarting, Declaring, Accepting, Storing, OnlySelf, clocks,
      world, history
<1>8. Uncrossed(d)'
  BY <1>1, <1>a, <1>b, <1>c, HandlingNone
  DEF RestartCandidates, TypeOK, Sound, Uncrossed, Behind, ElectionShape, CandidatesTrue,
      Own, Settling, Ticking, Restarting, Declaring, Accepting, Storing, OnlySelf,
      clocks, world, history
<1> QED
  BY <1>2, <1>3, <1>4, <1>5, <1>6, <1>7, <1>8 DEF Sound

\* A tick that won makes its drone elected.
LEMMA VictoryStateStep ==
    ASSUME TypeOK, NEW d \in Drones, Sound(d), VictoryState(d)
    PROVE  TypeOK' /\ Sound(d)' /\ \A e \in Drones \ {d} : Unmoved(e)
<1>1. TickerWrote(d, "victory_state", "victory_leader")
  <2>1. Write(d, Ticker, "victory_state", "victory_leader") /\ "victory_leader" \in TickerStep
    BY DEF VictoryState, TickerStep, Restarting, Declaring, Accepting, Storing
  <2> QED
    BY <2>1, TickerWrite
<1>s. ThreadsTyped(d)'
  BY <1>1, ThreadsOf
  DEF VictoryState, TypeOK, ThreadsTyped, Settling, Ticking, Handler, Threads,
      Restarting, Declaring, Accepting, Storing
<1>o. \A e \in Drones \ {d} : step'[e] = step[e] /\ winner'[e] = winner[e]
  BY <1>1 DEF VictoryState, TypeOK
<1>t. \A e \in Drones : ThreadsTyped(e)'
  BY <1>s, <1>o, OthersTyped
<1>2. TypeOK'
  BY <1>1, <1>t, DroneElectionAssumption
  DEF VictoryState, TypeOK, EndTick, ElectionState, clocks, world, history
<1>3. \A e \in Drones \ {d} : Unmoved(e)
  BY <1>1 DEF VictoryState, TypeOK, Unmoved, clocks, world, history
<1>4. CandidatesTrue(d)'
  BY <1>1, ThreadsOf
  DEF VictoryState, TypeOK, Sound, CandidatesTrue, Own, Restarting, Declaring, Accepting,
      Storing, Handler, clocks, world, history
<1>5. WinnerBeatsBasis(d)'
  BY <1>1
  DEF VictoryState, TypeOK, Sound, WinnerBeatsBasis, BeatsBasis, CandidatesTrue,
      ElectionShape, Own, Settling, Ticking, Restarting, Declaring, Accepting, Storing,
      clocks, world, history
<1>6. ElectionShape(d)'
  BY <1>1
  DEF VictoryState, TypeOK, Sound, ElectionShape, Behind, CandidatesTrue, Own, Settling,
      Ticking, Restarting, Declaring, Accepting, Storing, clocks, world, history
<1>7. Behind(d)'
  BY <1>1
  DEF VictoryState, TypeOK, Sound, Behind, ElectionShape, CandidatesTrue, Own, Settling,
      Ticking, Restarting, Declaring, Accepting, Storing, clocks, world, history
<1>8. Uncrossed(d)'
  BY <1>1, HandlingNone
  DEF VictoryState, TypeOK, Sound, Uncrossed, Behind, ElectionShape, CandidatesTrue, Own,
      Settling, Ticking, Restarting, Declaring, Accepting, Storing, clocks, world, history
<1> QED
  BY <1>2, <1>3, <1>4, <1>5, <1>6, <1>7, <1>8 DEF Sound

\* It makes it the leader.
LEMMA VictoryLeaderStep ==
    ASSUME TypeOK, NEW d \in Drones, Sound(d), VictoryLeader(d)
    PROVE  TypeOK' /\ Sound(d)' /\ \A e \in Drones \ {d} : Unmoved(e)
<1>1. TickerWrote(d, "victory_leader", "victory_role")
  <2>1. Write(d, Ticker, "victory_leader", "victory_role") /\ "victory_role" \in TickerStep
    BY DEF VictoryLeader, TickerStep, Restarting, Declaring, Accepting, Storing
  <2> QED
    BY <2>1, TickerWrite
<1>a. leader' \in [Drones -> Drones \cup {None}]
  BY DEF TypeOK, VictoryLeader
<1>b. sinceLeader' \in [Drones -> 0..HeartbeatTimeout]
  BY DroneElectionAssumption DEF TypeOK, VictoryLeader
<1>s. ThreadsTyped(d)'
  BY <1>1, <1>a, <1>b, ThreadsOf
  DEF VictoryLeader, TypeOK, ThreadsTyped, Settling, Ticking, Handler, Threads,
      Restarting, Declaring, Accepting, Storing
<1>o. \A e \in Drones \ {d} : step'[e] = step[e] /\ winner'[e] = winner[e]
  BY <1>1, <1>a, <1>b DEF VictoryLeader, TypeOK
<1>t. \A e \in Drones : ThreadsTyped(e)'
  BY <1>s, <1>o, OthersTyped
<1>2. TypeOK'
  BY <1>1, <1>t, <1>a, <1>b, DroneElectionAssumption
  DEF VictoryLeader, TypeOK, EndTick, clocks, world, history
<1>3. \A e \in Drones \ {d} : Unmoved(e)
  BY <1>1 DEF VictoryLeader, TypeOK, Unmoved, clocks, world, history
<1>4. CandidatesTrue(d)'
  BY <1>1, <1>a, <1>b, ThreadsOf
  DEF VictoryLeader, TypeOK, Sound, CandidatesTrue, Own, Restarting, Declaring,
      Accepting, Storing, Handler, clocks, world, history
<1>5. WinnerBeatsBasis(d)'
  BY <1>1, <1>a, <1>b
  DEF VictoryLeader, TypeOK, Sound, WinnerBeatsBasis, BeatsBasis, CandidatesTrue,
      ElectionShape, Own, Settling, Ticking, Restarting, Declaring, Accepting, Storing,
      clocks, world, history
<1>6. ElectionShape(d)'
  BY <1>1, <1>a, <1>b
  DEF VictoryLeader, TypeOK, Sound, ElectionShape, Behind, CandidatesTrue, Own, Settling,
      Ticking, Restarting, Declaring, Accepting, Storing, clocks, world, history
<1>7. Behind(d)'
  BY <1>1, <1>a, <1>b
  DEF VictoryLeader, TypeOK, Sound, Behind, ElectionShape, CandidatesTrue, Own, Settling,
      Ticking, Restarting, Declaring, Accepting, Storing, clocks, world, history
<1>8. Uncrossed(d)'
  BY <1>1, <1>a, <1>b, HandlingNone
  DEF VictoryLeader, TypeOK, Sound, Uncrossed, Behind, ElectionShape, CandidatesTrue,
      Own, Settling, Ticking, Restarting, Declaring, Accepting, Storing, clocks, world,
      history
<1> QED
  BY <1>2, <1>3, <1>4, <1>5, <1>6, <1>7, <1>8 DEF Sound

\* It makes it the explorer.
LEMMA VictoryRoleStep ==
    ASSUME TypeOK, NEW d \in Drones, Sound(d), VictoryRole(d)
    PROVE  TypeOK' /\ Sound(d)' /\ \A e \in Drones \ {d} : Unmoved(e)
<1>1. TickerWrote(d, "victory_role", "result_state")
  <2>1. Write(d, Ticker, "victory_role", "result_state") /\ "result_state" \in TickerStep
    BY DEF VictoryRole, TickerStep, Restarting, Declaring, Accepting, Storing
  <2> QED
    BY <2>1, TickerWrite
<1>s. ThreadsTyped(d)'
  BY <1>1, ThreadsOf
  DEF VictoryRole, TypeOK, ThreadsTyped, Settling, Ticking, Handler, Threads, Restarting,
      Declaring, Accepting, Storing
<1>o. \A e \in Drones \ {d} : step'[e] = step[e] /\ winner'[e] = winner[e]
  BY <1>1 DEF VictoryRole, TypeOK
<1>t. \A e \in Drones : ThreadsTyped(e)'
  BY <1>s, <1>o, OthersTyped
<1>2. TypeOK'
  BY <1>1, <1>t, DroneElectionAssumption
  DEF VictoryRole, TypeOK, EndTick, DroneRole, clocks, world, history
<1>3. \A e \in Drones \ {d} : Unmoved(e)
  BY <1>1 DEF VictoryRole, TypeOK, Unmoved, clocks, world, history
<1>4. CandidatesTrue(d)'
  BY <1>1, ThreadsOf
  DEF VictoryRole, TypeOK, Sound, CandidatesTrue, Own, Restarting, Declaring, Accepting,
      Storing, Handler, clocks, world, history
<1>5. WinnerBeatsBasis(d)'
  BY <1>1
  DEF VictoryRole, TypeOK, Sound, WinnerBeatsBasis, BeatsBasis, CandidatesTrue,
      ElectionShape, Own, Settling, Ticking, Restarting, Declaring, Accepting, Storing,
      clocks, world, history
<1>6. ElectionShape(d)'
  BY <1>1
  DEF VictoryRole, TypeOK, Sound, ElectionShape, Behind, CandidatesTrue, Own, Settling,
      Ticking, Restarting, Declaring, Accepting, Storing, clocks, world, history
<1>7. Behind(d)'
  BY <1>1
  DEF VictoryRole, TypeOK, Sound, Behind, ElectionShape, CandidatesTrue, Own, Settling,
      Ticking, Restarting, Declaring, Accepting, Storing, clocks, world, history
<1>8. Uncrossed(d)'
  BY <1>1, HandlingNone
  DEF VictoryRole, TypeOK, Sound, Uncrossed, Behind, ElectionShape, CandidatesTrue, Own,
      Settling, Ticking, Restarting, Declaring, Accepting, Storing, clocks, world, history
<1> QED
  BY <1>2, <1>3, <1>4, <1>5, <1>6, <1>7, <1>8 DEF Sound

\* A tick stores the state of its result.
LEMMA StoreStateStep ==
    ASSUME TypeOK, NEW d \in Drones, Sound(d), StoreState(d)
    PROVE  TypeOK' /\ Sound(d)' /\ \A e \in Drones \ {d} : Unmoved(e)
<1>1. TickerWrote(d, "result_state", "result_leader")
  <2>1. Write(d, Ticker, "result_state", "result_leader") /\ "result_leader" \in TickerStep
    BY DEF StoreState, TickerStep, Restarting, Declaring, Accepting, Storing
  <2> QED
    BY <2>1, TickerWrite
<1>s. ThreadsTyped(d)'
  BY <1>1, ThreadsOf
  DEF StoreState, TypeOK, ThreadsTyped, Settling, Ticking, Handler, Threads, Restarting,
      Declaring, Accepting, Storing
<1>o. \A e \in Drones \ {d} : step'[e] = step[e] /\ winner'[e] = winner[e]
  BY <1>1 DEF StoreState, TypeOK
<1>t. \A e \in Drones : ThreadsTyped(e)'
  BY <1>s, <1>o, OthersTyped
<1>2. TypeOK'
  BY <1>1, <1>t, DroneElectionAssumption
  DEF StoreState, TypeOK, EndTick, ElectionState, clocks, world, history
<1>3. \A e \in Drones \ {d} : Unmoved(e)
  BY <1>1 DEF StoreState, TypeOK, Unmoved, clocks, world, history
<1>4. CandidatesTrue(d)'
  BY <1>1, ThreadsOf
  DEF StoreState, TypeOK, Sound, CandidatesTrue, Own, Restarting, Declaring, Accepting,
      Storing, Handler, clocks, world, history
<1>5. WinnerBeatsBasis(d)'
  BY <1>1
  DEF StoreState, TypeOK, Sound, WinnerBeatsBasis, BeatsBasis, CandidatesTrue,
      ElectionShape, Own, Settling, Ticking, Restarting, Declaring, Accepting, Storing,
      clocks, world, history
<1>6. ElectionShape(d)'
  BY <1>1
  DEF StoreState, TypeOK, Sound, ElectionShape, Behind, CandidatesTrue, Own, Settling,
      Ticking, Restarting, Declaring, Accepting, Storing, clocks, world, history
<1>7. Behind(d)'
  BY <1>1
  DEF StoreState, TypeOK, Sound, Behind, ElectionShape, CandidatesTrue, Own, Settling,
      Ticking, Restarting, Declaring, Accepting, Storing, clocks, world, history
<1>8. Uncrossed(d)'
  BY <1>1, HandlingNone
  DEF StoreState, TypeOK, Sound, Uncrossed, Behind, ElectionShape, CandidatesTrue, Own,
      Settling, Ticking, Restarting, Declaring, Accepting, Storing, clocks, world, history
<1> QED
  BY <1>2, <1>3, <1>4, <1>5, <1>6, <1>7, <1>8 DEF Sound

\* It stores the leader, and the tick ends.
LEMMA StoreLeaderStep ==
    ASSUME TypeOK, NEW d \in Drones, Sound(d), StoreLeader(d)
    PROVE  TypeOK' /\ Sound(d)' /\ \A e \in Drones \ {d} : Unmoved(e)
<1>1. TickerWrote(d, "result_leader", "idle")
  <2>1. Write(d, Ticker, "result_leader", "idle") /\ "idle" \in TickerStep
    BY DEF StoreLeader, TickerStep, Restarting, Declaring, Accepting, Storing
  <2> QED
    BY <2>1, TickerWrite
<1>a. sinceStart' \in [Drones -> 0..ElectionTimeout]
  BY DroneElectionAssumption, AgedTypes DEF TypeOK, EndTick, StoreLeader, clocks
<1>b. sinceLeader' \in [Drones -> 0..HeartbeatTimeout]
  BY DroneElectionAssumption, AgedTypes DEF TypeOK, EndTick, StoreLeader, clocks
<1>c. /\ DOMAIN winner' = Drones
      /\ \A e \in Drones : winner'[e] \in [Threads(e) -> [node : Drones \cup {None}, depth : Nat]]
      /\ \A h \in Handler(d) : winner'[d][h] = winner[d][h]
      /\ \A e \in Drones \ {d} : winner'[e] = winner[e]
  BY ThreadsOf DEF TypeOK, ThreadsTyped, StoreLeader, NoWinner
<1>d. leader' \in [Drones -> Drones \cup {None}]
  BY <1>1 DEF TypeOK, ThreadsTyped, StoreLeader, Settling, Ticking, Storing
<1>e. DOMAIN winner' = Drones /\ DOMAIN step' = Drones
  BY <1>1, <1>c
<1>f. net' \subseteq {Heartbeat(e) : e \in Drones} \cup {ElectionWin(e) : e \in Drones}
  BY DEF TypeOK, StoreLeader, EndTick
<1>s. ThreadsTyped(d)'
  BY <1>1, <1>a, <1>b, <1>c, <1>d, ThreadsOf
  DEF StoreLeader, TypeOK, ThreadsTyped, Settling, Ticking, Handler, Threads, Restarting,
      Declaring, Accepting, Storing
<1>o. \A e \in Drones \ {d} : step'[e] = step[e] /\ winner'[e] = winner[e]
  BY <1>1, <1>a, <1>b, <1>c, <1>d DEF StoreLeader, TypeOK
<1>t. \A e \in Drones : ThreadsTyped(e)'
  BY <1>s, <1>o, OthersTyped
<1>2. TypeOK'
  BY <1>t, <1>a, <1>b, <1>d, <1>e, <1>f
  DEF StoreLeader, TypeOK, EndTick, EndTick, clocks, world, history
<1>3. \A e \in Drones \ {d} : Unmoved(e)
  BY <1>1 DEF StoreLeader, TypeOK, Unmoved, clocks, world, history
<1>4. CandidatesTrue(d)'
  BY <1>1, <1>c
  DEF StoreLeader, Sound, CandidatesTrue, Accepting, Declaring, Handler, clocks, world,
      history
<1>5. WinnerBeatsBasis(d)'
  BY <1>1, <1>a, <1>b, <1>c, <1>d
  DEF StoreLeader, TypeOK, Sound, WinnerBeatsBasis, BeatsBasis, CandidatesTrue,
      ElectionShape, Own, Settling, Ticking, Restarting, Declaring, Accepting, Storing,
      EndTick, NoWinner, clocks, world, history
<1>6. ElectionShape(d)'
  BY <1>1, <1>a, <1>b, <1>c, <1>d
  DEF StoreLeader, TypeOK, Sound, ElectionShape, Behind, CandidatesTrue, Own, Settling,
      Ticking, Restarting, Declaring, Accepting, Storing, EndTick, NoWinner, clocks,
      world, history
<1>7. Behind(d)'
  BY <1>1, <1>a, <1>b, <1>c, <1>d
  DEF StoreLeader, TypeOK, Sound, Behind, ElectionShape, CandidatesTrue, Own, Settling,
      Ticking, Restarting, Declaring, Accepting, Storing, EndTick, NoWinner, clocks,
      world, history
<1>8. Uncrossed(d)'
  BY <1>1, <1>a, <1>b, <1>c, <1>d, HandlingNone
  DEF StoreLeader, TypeOK, Sound, Uncrossed, Behind, ElectionShape, CandidatesTrue, Own,
      Settling, Ticking, Restarting, Declaring, Accepting, Storing, EndTick, NoWinner,
      clocks, world, history
<1> QED
  BY <1>2, <1>3, <1>4, <1>5, <1>6, <1>7, <1>8 DEF Sound

\* A tick decides: only of a drone that does not name itself the leader.
LEMMA DecideStep ==
    ASSUME TypeOK, NEW d \in Drones, Sound(d), Decide(d)
    PROVE  TypeOK' /\ Sound(d)' /\ \A e \in Drones \ {d} : Unmoved(e)
<1> DEFINE to == IF LeaderTimedOut(d) THEN "restart_state" ELSE "finalize"
<1>0. Write(d, Ticker, "idle", to) /\ to \in TickerStep
  BY DEF Decide, TickerStep, Restarting
<1> HIDE DEF to
<1>1. TickerWrote(d, "idle", to)
  BY <1>0, TickerWrite
<1>2. /\ to \in {"restart_state", "finalize"} /\ leader[d] # d
      /\ to = "finalize" => state[d] = "election_in_progress"
  BY DEF Decide, LeaderTimedOut, ElectionOver, Sound, ElectionShape, to
<1>s. ThreadsTyped(d)'
  BY <1>1, <1>2, ThreadsOf
  DEF Decide, TypeOK, ThreadsTyped, Settling, Ticking, Handler, Threads, Restarting,
      Declaring, Accepting, Storing
<1>3. \A e \in Drones : ThreadsTyped(e)'
  BY <1>1, <1>s, OthersTyped DEF Decide
<1>4. TypeOK'
  BY <1>1, <1>3 DEF Decide, TypeOK, clocks, world, history
<1>5. \A e \in Drones \ {d} : Unmoved(e)
  BY <1>1 DEF Decide, Unmoved, clocks, world, history
<1>6. CandidatesTrue(d)'
  BY <1>1, <1>2 DEF Decide, Sound, CandidatesTrue, Declaring, Accepting, Handler
<1>7. WinnerBeatsBasis(d)'
  BY <1>1, <1>2
  DEF Decide, Sound, WinnerBeatsBasis, BeatsBasis, Settling, Ticking, Restarting,
      Declaring, Accepting, Storing,
      history
<1>8. ElectionShape(d)'
  BY <1>1, <1>2
  DEF Decide, Sound, ElectionShape, Settling, Ticking, Restarting, Declaring, Accepting,
      Storing
<1>9. Behind(d)'
  BY <1>1, <1>2
  DEF Decide, Sound, Behind, Overtaking, Unseating, Ticking, Restarting, Declaring,
      Accepting, Storing
<1>10. Uncrossed(d)'
  BY <1>1, <1>2
  DEF Decide, Sound, Uncrossed, Settling, Ticking, Restarting, Declaring, Accepting,
      Storing, history
<1> QED
  BY <1>4, <1>5, <1>6, <1>7, <1>8, <1>9, <1>10 DEF Sound

\* Threads that do not move keep their types.
LEMMA ThreadsStill ==
    ASSUME TypeOK, UNCHANGED <<step, winner>>
    PROVE  /\ DOMAIN step' = Drones /\ DOMAIN winner' = Drones
           /\ \A e \in Drones : ThreadsTyped(e)'
BY DEF TypeOK, ThreadsTyped, Settling

\* A tick that does nothing but end.
LEMMA WaitStep ==
    ASSUME TypeOK, NEW d \in Drones, Wait(d)
    PROVE  TypeOK' /\ \A e \in Drones : Unmoved(e)
<1>1. sinceStart' \in [Drones -> 0..ElectionTimeout]
  BY DroneElectionAssumption, AgedTypes DEF TypeOK, EndTick, Wait
<1>2. sinceLeader' \in [Drones -> 0..HeartbeatTimeout]
  BY DroneElectionAssumption, AgedTypes DEF TypeOK, EndTick, Wait
<1>3. net' \subseteq {Heartbeat(e) : e \in Drones} \cup {ElectionWin(e) : e \in Drones}
  BY DEF TypeOK, EndTick, Wait
<1>4. /\ DOMAIN step' = Drones /\ DOMAIN winner' = Drones
      /\ \A e \in Drones : ThreadsTyped(e)'
  BY ThreadsStill DEF Wait
<1>5. TypeOK'
  BY <1>1, <1>2, <1>3, <1>4 DEF Wait, TypeOK, history
<1>6. \A e \in Drones : Unmoved(e)
  BY DEF Wait, Unmoved, history
<1> QED
  BY <1>5, <1>6

\* A coordinator that stops.
LEMMA StopStep ==
    ASSUME TypeOK, NEW d \in Drones, Stop(d)
    PROVE  TypeOK' /\ \A e \in Drones : Unmoved(e)
<1>1. /\ DOMAIN step' = Drones /\ DOMAIN winner' = Drones
      /\ \A e \in Drones : ThreadsTyped(e)'
  BY ThreadsStill DEF Stop
<1>2. TypeOK'
  BY <1>1 DEF Stop, TypeOK, clocks, history
<1>3. \A e \in Drones : Unmoved(e)
  BY DEF Stop, Unmoved, clocks, history
<1> QED
  BY <1>2, <1>3

\* A heartbeat tells the depth its sender advertises.
LEMMA HeartbeatStep ==
    ASSUME TypeOK, NEW d \in Drones, NEW p \in Drones, Sound(d), OnHeartbeat(d, p)
    PROVE  TypeOK' /\ Sound(d)' /\ \A e \in Drones \ {d} : Unmoved(e)
<1>1. /\ DOMAIN step' = Drones /\ DOMAIN winner' = Drones
      /\ \A e \in Drones : ThreadsTyped(e)'
  BY ThreadsStill DEF OnHeartbeat
<1>2. candidates' \in [Drones -> [Drones -> Nat \cup {None}]]
  BY DroneElectionAssumption DEF TypeOK, OnHeartbeat
<1>3. TypeOK'
  BY <1>1, <1>2 DEF OnHeartbeat, TypeOK, clocks, world, history
<1>4. \A e \in Drones \ {d} : Unmoved(e)
  BY DEF OnHeartbeat, TypeOK, Unmoved, clocks, world, history
<1>5. /\ Ticking(d)' = Ticking(d) /\ (Own(d))' = Own(d) /\ (Settling(d))' = Settling(d)
      /\ (Handling(d))' = Handling(d) /\ (Overtaking(d))' = Overtaking(d)
      /\ (Unseating(d))' = Unseating(d) /\ (Relaying(d))' = Relaying(d)
  BY DEF OnHeartbeat, Ticking, Own, Settling, Handling, Overtaking, Unseating, Relaying
<1>6. CandidatesTrue(d)'
  BY <1>5 DEF OnHeartbeat, TypeOK, Sound, CandidatesTrue
<1>7. WinnerBeatsBasis(d)'
  BY <1>5 DEF OnHeartbeat, Sound, WinnerBeatsBasis, BeatsBasis, history
<1>8. (ElectionShape(d) /\ Behind(d) /\ Uncrossed(d))'
  BY <1>5 DEF OnHeartbeat, Sound, ElectionShape, Behind, Uncrossed, history
<1> QED
  BY <1>3, <1>4, <1>6, <1>7, <1>8 DEF Sound

\* A tick that lost follows the winner: its leader.
LEMMA TickerAcceptLeaderStep ==
    ASSUME TypeOK, NEW d \in Drones, Sound(d), AcceptLeader(d, Ticker)
    PROVE  TypeOK' /\ Sound(d)' /\ \A e \in Drones \ {d} : Unmoved(e)
<1>1. TickerWrote(d, "win_leader", "win_timer")
  <2>1. Write(d, Ticker, "win_leader", "win_timer") /\ "win_timer" \in TickerStep
    BY DEF AcceptLeader, TickerStep, Restarting, Declaring, Accepting, Storing
  <2> QED
    BY <2>1, TickerWrite
<1>a. leader' \in [Drones -> Drones \cup {None}]
  BY <1>1 DEF TypeOK, Sound, CandidatesTrue, AcceptLeader, Accepting
<1>b. leader'[d] # d
  BY <1>1 DEF TypeOK, Sound, CandidatesTrue, AcceptLeader, Accepting
<1>s. ThreadsTyped(d)'
  BY <1>1, ThreadsOf
  DEF AcceptLeader, TypeOK, ThreadsTyped, Settling, Ticking, Handler, Threads,
      Restarting, Declaring, Accepting, Storing
<1>o. \A e \in Drones \ {d} : step'[e] = step[e] /\ winner'[e] = winner[e]
  BY <1>1, <1>a, <1>b DEF AcceptLeader, TypeOK
<1>t. \A e \in Drones : ThreadsTyped(e)'
  BY <1>s, <1>o, OthersTyped
<1>2. TypeOK'
  BY <1>1, <1>t, <1>a, <1>b, DroneElectionAssumption
  DEF AcceptLeader, TypeOK, EndTick, clocks, world, history
<1>3. \A e \in Drones \ {d} : Unmoved(e)
  BY <1>1 DEF AcceptLeader, TypeOK, Unmoved, clocks, world, history
<1>4. CandidatesTrue(d)'
  BY <1>1, <1>a, <1>b, ThreadsOf
  DEF AcceptLeader, TypeOK, Sound, CandidatesTrue, Own, Restarting, Declaring, Accepting,
      Storing, Handler, clocks, world, history
<1>5. WinnerBeatsBasis(d)'
  BY <1>1, <1>a, <1>b
  DEF AcceptLeader, TypeOK, Sound, WinnerBeatsBasis, BeatsBasis, CandidatesTrue,
      ElectionShape, Own, Settling, Ticking, Restarting, Declaring, Accepting, Storing,
      clocks, world, history
<1>6. ElectionShape(d)'
  BY <1>1, <1>a, <1>b
  DEF AcceptLeader, TypeOK, Sound, ElectionShape, Behind, CandidatesTrue, Own, Settling,
      Ticking, Restarting, Declaring, Accepting, Storing, clocks, world, history
<1>7. Behind(d)'
  BY <1>1, <1>a, <1>b
  DEF AcceptLeader, TypeOK, Sound, Behind, ElectionShape, CandidatesTrue, Own, Settling,
      Ticking, Restarting, Declaring, Accepting, Storing, clocks, world, history
<1>8. Uncrossed(d)'
  BY <1>1, <1>a, <1>b, HandlingNone
  DEF AcceptLeader, TypeOK, Sound, Uncrossed, Behind, ElectionShape, CandidatesTrue, Own,
      Settling, Ticking, Restarting, Declaring, Accepting, Storing, clocks, world, history
<1> QED
  BY <1>2, <1>3, <1>4, <1>5, <1>6, <1>7, <1>8 DEF Sound

\* The clock of its silence.
LEMMA TickerAcceptTimerStep ==
    ASSUME TypeOK, NEW d \in Drones, Sound(d), AcceptTimer(d, Ticker)
    PROVE  TypeOK' /\ Sound(d)' /\ \A e \in Drones \ {d} : Unmoved(e)
<1>1. TickerWrote(d, "win_timer", "win_state")
  <2>1. Write(d, Ticker, "win_timer", "win_state") /\ "win_state" \in TickerStep
    BY DEF AcceptTimer, TickerStep, Restarting, Declaring, Accepting, Storing
  <2> QED
    BY <2>1, TickerWrite
<1>a. sinceLeader' \in [Drones -> 0..HeartbeatTimeout]
  BY DroneElectionAssumption DEF TypeOK, AcceptTimer
<1>s. ThreadsTyped(d)'
  BY <1>1, ThreadsOf
  DEF AcceptTimer, TypeOK, ThreadsTyped, Settling, Ticking, Handler, Threads, Restarting,
      Declaring, Accepting, Storing
<1>o. \A e \in Drones \ {d} : step'[e] = step[e] /\ winner'[e] = winner[e]
  BY <1>1, <1>a DEF AcceptTimer, TypeOK
<1>t. \A e \in Drones : ThreadsTyped(e)'
  BY <1>s, <1>o, OthersTyped
<1>2. TypeOK'
  BY <1>1, <1>t, <1>a, DroneElectionAssumption
  DEF AcceptTimer, TypeOK, EndTick, clocks, world, history
<1>3. \A e \in Drones \ {d} : Unmoved(e)
  BY <1>1 DEF AcceptTimer, TypeOK, Unmoved, clocks, world, history
<1>4. CandidatesTrue(d)'
  BY <1>1, <1>a, ThreadsOf
  DEF AcceptTimer, TypeOK, Sound, CandidatesTrue, Own, Restarting, Declaring, Accepting,
      Storing, Handler, clocks, world, history
<1>5. WinnerBeatsBasis(d)'
  BY <1>1, <1>a
  DEF AcceptTimer, TypeOK, Sound, WinnerBeatsBasis, BeatsBasis, CandidatesTrue,
      ElectionShape, Own, Settling, Ticking, Restarting, Declaring, Accepting, Storing,
      clocks, world, history
<1>6. ElectionShape(d)'
  BY <1>1, <1>a
  DEF AcceptTimer, TypeOK, Sound, ElectionShape, Behind, CandidatesTrue, Own, Settling,
      Ticking, Restarting, Declaring, Accepting, Storing, clocks, world, history
<1>7. Behind(d)'
  BY <1>1, <1>a
  DEF AcceptTimer, TypeOK, Sound, Behind, ElectionShape, CandidatesTrue, Own, Settling,
      Ticking, Restarting, Declaring, Accepting, Storing, clocks, world, history
<1>8. Uncrossed(d)'
  BY <1>1, <1>a, HandlingNone
  DEF AcceptTimer, TypeOK, Sound, Uncrossed, Behind, ElectionShape, CandidatesTrue, Own,
      Settling, Ticking, Restarting, Declaring, Accepting, Storing, clocks, world, history
<1> QED
  BY <1>2, <1>3, <1>4, <1>5, <1>6, <1>7, <1>8 DEF Sound

\* Its state.
LEMMA TickerAcceptStateStep ==
    ASSUME TypeOK, NEW d \in Drones, Sound(d), AcceptState(d, Ticker)
    PROVE  TypeOK' /\ Sound(d)' /\ \A e \in Drones \ {d} : Unmoved(e)
<1>1. TickerWrote(d, "win_state", "win_candidate")
  <2>1. Write(d, Ticker, "win_state", "win_candidate") /\ "win_candidate" \in TickerStep
    BY DEF AcceptState, TickerStep, Restarting, Declaring, Accepting, Storing
  <2> QED
    BY <2>1, TickerWrite
<1>s. ThreadsTyped(d)'
  BY <1>1, ThreadsOf
  DEF AcceptState, TypeOK, ThreadsTyped, Settling, Ticking, Handler, Threads, Restarting,
      Declaring, Accepting, Storing
<1>o. \A e \in Drones \ {d} : step'[e] = step[e] /\ winner'[e] = winner[e]
  BY <1>1 DEF AcceptState, TypeOK
<1>t. \A e \in Drones : ThreadsTyped(e)'
  BY <1>s, <1>o, OthersTyped
<1>2. TypeOK'
  BY <1>1, <1>t, DroneElectionAssumption
  DEF AcceptState, TypeOK, EndTick, ElectionState, clocks, world, history
<1>3. \A e \in Drones \ {d} : Unmoved(e)
  BY <1>1 DEF AcceptState, TypeOK, Unmoved, clocks, world, history
<1>4. CandidatesTrue(d)'
  BY <1>1, ThreadsOf
  DEF AcceptState, TypeOK, Sound, CandidatesTrue, Own, Restarting, Declaring, Accepting,
      Storing, Handler, clocks, world, history
<1>5. WinnerBeatsBasis(d)'
  BY <1>1
  DEF AcceptState, TypeOK, Sound, WinnerBeatsBasis, BeatsBasis, CandidatesTrue,
      ElectionShape, Own, Settling, Ticking, Restarting, Declaring, Accepting, Storing,
      clocks, world, history
<1>6. ElectionShape(d)'
  BY <1>1
  DEF AcceptState, TypeOK, Sound, ElectionShape, Behind, CandidatesTrue, Own, Settling,
      Ticking, Restarting, Declaring, Accepting, Storing, clocks, world, history
<1>7. Behind(d)'
  BY <1>1
  DEF AcceptState, TypeOK, Sound, Behind, ElectionShape, CandidatesTrue, Own, Settling,
      Ticking, Restarting, Declaring, Accepting, Storing, clocks, world, history
<1>8. Uncrossed(d)'
  BY <1>1, HandlingNone
  DEF AcceptState, TypeOK, Sound, Uncrossed, Behind, ElectionShape, CandidatesTrue, Own,
      Settling, Ticking, Restarting, Declaring, Accepting, Storing, clocks, world, history
<1> QED
  BY <1>2, <1>3, <1>4, <1>5, <1>6, <1>7, <1>8 DEF Sound

\* Its candidate.
LEMMA TickerAcceptCandidateStep ==
    ASSUME TypeOK, NEW d \in Drones, Sound(d), AcceptCandidate(d, Ticker)
    PROVE  TypeOK' /\ Sound(d)' /\ \A e \in Drones \ {d} : Unmoved(e)
<1>1. TickerWrote(d, "win_candidate", "win_role")
  <2>1. Write(d, Ticker, "win_candidate", "win_role") /\ "win_role" \in TickerStep
    BY DEF AcceptCandidate, TickerStep, Restarting, Declaring, Accepting, Storing
  <2> QED
    BY <2>1, TickerWrite
<1>a. /\ winner[d][Ticker].node \in Drones \ {d} /\ winner[d][Ticker].depth \in Nat
      /\ winner[d][Ticker].depth
           \in {Depth[winner[d][Ticker].node], Advertised[winner[d][Ticker].node]}
  BY <1>1, DroneElectionAssumption DEF Sound, CandidatesTrue, Accepting
<1>b. candidates' \in [Drones -> [Drones -> Nat \cup {None}]]
  BY <1>a DEF TypeOK, AcceptCandidate
<1>s. ThreadsTyped(d)'
  BY <1>1, ThreadsOf
  DEF AcceptCandidate, TypeOK, ThreadsTyped, Settling, Ticking, Handler, Threads,
      Restarting, Declaring, Accepting, Storing
<1>o. \A e \in Drones \ {d} : step'[e] = step[e] /\ winner'[e] = winner[e]
  BY <1>1, <1>a, <1>b DEF AcceptCandidate, TypeOK
<1>t. \A e \in Drones : ThreadsTyped(e)'
  BY <1>s, <1>o, OthersTyped
<1>2. TypeOK'
  BY <1>1, <1>t, <1>a, <1>b, DroneElectionAssumption
  DEF AcceptCandidate, TypeOK, EndTick, clocks, world, history
<1>3. \A e \in Drones \ {d} : Unmoved(e)
  BY <1>1 DEF AcceptCandidate, TypeOK, Unmoved, clocks, world, history
<1>4. CandidatesTrue(d)'
  BY <1>1, <1>a, <1>b, ThreadsOf
  DEF AcceptCandidate, TypeOK, Sound, CandidatesTrue, Own, Restarting, Declaring,
      Accepting, Storing, Handler, clocks, world, history
<1>5. WinnerBeatsBasis(d)'
  BY <1>1, <1>a, <1>b
  DEF AcceptCandidate, TypeOK, Sound, WinnerBeatsBasis, BeatsBasis, CandidatesTrue,
      ElectionShape, Own, Settling, Ticking, Restarting, Declaring, Accepting, Storing,
      clocks, world, history
<1>6. ElectionShape(d)'
  BY <1>1, <1>a, <1>b
  DEF AcceptCandidate, TypeOK, Sound, ElectionShape, Behind, CandidatesTrue, Own,
      Settling, Ticking, Restarting, Declaring, Accepting, Storing, clocks, world, history
<1>7. Behind(d)'
  BY <1>1, <1>a, <1>b
  DEF AcceptCandidate, TypeOK, Sound, Behind, ElectionShape, CandidatesTrue, Own,
      Settling, Ticking, Restarting, Declaring, Accepting, Storing, clocks, world, history
<1>8. Uncrossed(d)'
  BY <1>1, <1>a, <1>b, HandlingNone
  DEF AcceptCandidate, TypeOK, Sound, Uncrossed, Behind, ElectionShape, CandidatesTrue,
      Own, Settling, Ticking, Restarting, Declaring, Accepting, Storing, clocks, world,
      history
<1> QED
  BY <1>2, <1>3, <1>4, <1>5, <1>6, <1>7, <1>8 DEF Sound

\* Its role.
LEMMA TickerAcceptRoleStep ==
    ASSUME TypeOK, NEW d \in Drones, Sound(d), AcceptRole(d, Ticker)
    PROVE  TypeOK' /\ Sound(d)' /\ \A e \in Drones \ {d} : Unmoved(e)
<1>1. TickerWrote(d, "win_role", "result_state")
  <2>1. Write(d, Ticker, "win_role", "result_state") /\ "result_state" \in TickerStep
    BY DEF AcceptRole, TickerStep, Restarting, Declaring, Accepting, Storing
  <2> QED
    BY <2>1, TickerWrite
<1>a. /\ DOMAIN winner' = Drones /\ winner'[d] = winner[d]
      /\ \A e \in Drones \ {d} : winner'[e] = winner[e]
  BY ThreadsOf DEF TypeOK, ThreadsTyped, AcceptRole
<1>s. ThreadsTyped(d)'
  BY <1>1, <1>a, ThreadsOf
  DEF TypeOK, ThreadsTyped, Settling, Ticking, Handler, Threads, Restarting, Declaring,
      Accepting, Storing
<1>o. \A e \in Drones \ {d} : step'[e] = step[e] /\ winner'[e] = winner[e]
  BY <1>1, <1>a DEF AcceptRole, TypeOK
<1>t. \A e \in Drones : ThreadsTyped(e)'
  BY <1>s, <1>o, OthersTyped
<1>2. TypeOK'
  BY <1>1, <1>t, <1>a, DroneElectionAssumption
  DEF AcceptRole, TypeOK, EndTick, DroneRole, clocks, world, history
<1>3. \A e \in Drones \ {d} : Unmoved(e)
  BY <1>1 DEF AcceptRole, TypeOK, Unmoved, clocks, world, history
<1>4. CandidatesTrue(d)'
  BY <1>1, <1>a, ThreadsOf
  DEF AcceptRole, TypeOK, Sound, CandidatesTrue, Own, Restarting, Declaring, Accepting,
      Storing, Handler, clocks, world, history
<1>5. WinnerBeatsBasis(d)'
  BY <1>1, <1>a
  DEF AcceptRole, TypeOK, Sound, WinnerBeatsBasis, BeatsBasis, CandidatesTrue,
      ElectionShape, Own, Settling, Ticking, Restarting, Declaring, Accepting, Storing,
      clocks, world, history
<1>6. ElectionShape(d)'
  BY <1>1, <1>a
  DEF AcceptRole, TypeOK, Sound, ElectionShape, Behind, CandidatesTrue, Own, Settling,
      Ticking, Restarting, Declaring, Accepting, Storing, clocks, world, history
<1>7. Behind(d)'
  BY <1>1, <1>a
  DEF AcceptRole, TypeOK, Sound, Behind, ElectionShape, CandidatesTrue, Own, Settling,
      Ticking, Restarting, Declaring, Accepting, Storing, clocks, world, history
<1>8. Uncrossed(d)'
  BY <1>1, <1>a, HandlingNone
  DEF AcceptRole, TypeOK, Sound, Uncrossed, Behind, ElectionShape, CandidatesTrue, Own,
      Settling, Ticking, Restarting, Declaring, Accepting, Storing, clocks, world, history
<1> QED
  BY <1>2, <1>3, <1>4, <1>5, <1>6, <1>7, <1>8 DEF Sound

\* The picked winner outranks the other candidates by what is known of them.
LEMMA PickStep ==
    ASSUME TypeOK, NEW d \in Drones, Sound(d), Pick(d)
    PROVE  TypeOK' /\ Sound(d)' /\ \A e \in Drones \ {d} : Unmoved(e)
<1>0. PICK p \in Known(d) :
        /\ Wins(d, p)
        /\ Write(d, Ticker, "finalize", IF p = d THEN "victory_state" ELSE "win_leader")
        /\ winner' = [winner EXCEPT ![d][Ticker] = [node |-> p, depth |-> candidates[d][p]]]
  BY DEF Pick
<1> DEFINE to == IF p = d THEN "victory_state" ELSE "win_leader"
<1>1. Write(d, Ticker, "finalize", to) /\ to \in TickerStep
  BY <1>0 DEF TickerStep, Declaring, Accepting
<1>2. to \in {"victory_state", "win_leader"} /\ (to = "victory_state" <=> p = d)
  OBVIOUS
<1> HIDE DEF to
<1>3. TickerWrote(d, "finalize", to)
  BY <1>1, TickerWrite
<1>4. /\ p \in Drones /\ Known(d) \subseteq Drones
      /\ candidates[d][p] \in Nat /\ candidates[d][p] \in {Depth[p], Advertised[p]}
  BY <1>0 DEF TypeOK, Known, Sound, CandidatesTrue
<1>5. /\ DOMAIN winner' = Drones
      /\ winner'[d] = [winner[d] EXCEPT ![Ticker] = [node |-> p, depth |-> candidates[d][p]]]
      /\ \A e \in Drones \ {d} : winner'[e] = winner[e]
  BY <1>0 DEF TypeOK
<1>6. /\ winner'[d][Ticker].node = p /\ winner'[d][Ticker].depth = candidates[d][p]
      /\ \A h \in Handler(d) : winner'[d][h] = winner[d][h]
      /\ winner'[d] \in [Threads(d) -> [node : Drones \cup {None}, depth : Nat]]
  <2>1. [node |-> p, depth |-> candidates[d][p]] \in [node : Drones \cup {None}, depth : Nat]
    BY <1>4
  <2>2. winner[d] \in [Threads(d) -> [node : Drones \cup {None}, depth : Nat]]
    BY DEF TypeOK, ThreadsTyped
  <2> QED
    BY <1>5, <2>1, <2>2, ThreadsOf
<1>s. ThreadsTyped(d)'
  <2>1. \A h \in Handler(d) :
          /\ step'[d][h] \in HandlerStep
          /\ step'[d][h] # "idle" => winner'[d][h].node \in Drones
    BY <1>3, <1>6 DEF TypeOK, ThreadsTyped
  <2>2. winner'[d][Ticker].node \in Drones
    BY <1>4, <1>6
  <2> QED
    BY <1>3, <1>6, <2>1, <2>2 DEF ThreadsTyped, Handler, Threads
<1>7. \A e \in Drones : ThreadsTyped(e)'
  BY <1>3, <1>5, <1>s, OthersTyped
<1>8. TypeOK'
  <2>1. basis' \in [Drones -> SUBSET Drones] /\ raced' \in SUBSET Drones
    BY <1>4 DEF Pick, TypeOK
  <2> QED
    BY <1>3, <1>5, <1>7, <2>1 DEF Pick, TypeOK, clocks, world
<1>9. \A e \in Drones \ {d} : Unmoved(e)
  BY <1>3, <1>5 DEF Pick, TypeOK, Unmoved
<1>10. /\ (Own(d))' <=> p = d
       /\ (Settling(d))'
  BY <1>2, <1>3, <1>6 DEF Own, Settling, Ticking, Declaring, Accepting
<1>11. CandidatesTrue(d)'
  BY <1>2, <1>3, <1>4, <1>6, <1>10
  DEF Pick, Sound, CandidatesTrue, Accepting, Declaring, Handler
<1>12. p = d => BeatsBasis(d)'
  <2> SUFFICES ASSUME p = d, NEW q \in Known(d) \ {d}
               PROVE  \E depth \in {Depth[q], Advertised[q]} : Outranks(d, Depth[d], q, depth)
    BY DEF BeatsBasis, Pick, TypeOK
  <2>1. candidates[d][q] \in {Depth[q], Advertised[q]} /\ candidates[d][d] = Depth[d]
    BY <1>4 DEF Sound, CandidatesTrue, Known
  <2>2. Outranks(d, candidates[d][d], q, candidates[d][q])
    BY <1>0 DEF Wins
  <2> QED
    BY <2>1, <2>2
<1>13. state'[d] = state[d] /\ state[d] # "elected" /\ leader'[d] = leader[d] /\ leader[d] # d
  BY <1>3 DEF Pick, Sound, ElectionShape
<1>14. WinnerBeatsBasis(d)' /\ ElectionShape(d)'
  BY <1>2, <1>3, <1>10, <1>12, <1>13
  DEF WinnerBeatsBasis, ElectionShape, Restarting
<1>15. Behind(d)'
  BY <1>2, <1>3, <1>13 DEF Pick, Sound, Behind, Restarting
<1>16. Uncrossed(d)'
  BY <1>2, <1>3, <1>10, <1>13, HandlingNone DEF Pick, TypeOK, Uncrossed, Storing
<1> QED
  BY <1>8, <1>9, <1>11, <1>14, <1>15, <1>16 DEF Sound

\* A handler names the leader.
LEMMA HandlerAcceptLeaderStep ==
    ASSUME TypeOK, NEW d \in Drones, NEW h \in Handler(d), Sound(d), AcceptLeader(d, h)
    PROVE  TypeOK' /\ Sound(d)' /\ \A e \in Drones \ {d} : Unmoved(e)
<1>1. HandlerWrote(d, h, "win_leader", "win_timer")
  <2>1. Write(d, h, "win_leader", "win_timer") /\ "win_timer" \in TickerStep
    BY ThreadsOf DEF AcceptLeader, TickerStep, Accepting
  <2> QED
    BY <2>1, HandlerWrite
<1>2. Handling(d) /\ (Overtaking(d))' /\ (Unseating(d))' /\ (Relaying(d))' = Relaying(d)
  BY <1>1 DEF Handling, Overtaking, Unseating, Relaying, Accepting, Handler
<1>a. leader' \in [Drones -> Drones \cup {None}] /\ leader'[d] # d
  BY <1>1 DEF TypeOK, Sound, CandidatesTrue, AcceptLeader
<1>w. /\ winner'[d] \in [Threads(d) -> [node : Drones \cup {None}, depth : Nat]]
      /\ winner'[d][Ticker] = winner[d][Ticker]
      /\ \A g \in Handler(d) \ {h} : winner'[d][g] = winner[d][g]
      /\ step'[d][h] # "idle" => winner'[d][h].node \in Drones
  BY <1>1 DEF AcceptLeader, TypeOK, ThreadsTyped
<1>s. ThreadsTyped(d)'
  BY <1>1, <1>w, HandlerTyped DEF HandlerStep, Accepting
<1>o. \A e \in Drones \ {d} : step'[e] = step[e] /\ winner'[e] = winner[e]
  BY <1>1, <1>a DEF AcceptLeader, TypeOK
<1>t. \A e \in Drones : ThreadsTyped(e)'
  BY <1>s, <1>o, OthersTyped
<1>3. TypeOK'
  BY <1>1, <1>t, <1>a, DroneElectionAssumption
  DEF AcceptLeader, TypeOK, clocks, world, history
<1>4. \A e \in Drones \ {d} : Unmoved(e)
  BY <1>1, <1>a DEF AcceptLeader, TypeOK, Unmoved, clocks, world, history
<1>5. CandidatesTrue(d)'
  BY <1>1, <1>a
  DEF AcceptLeader, TypeOK, Sound, CandidatesTrue, Own, Declaring, Accepting, Handler
<1>6. WinnerBeatsBasis(d)'
  BY <1>1, <1>2, <1>a
  DEF AcceptLeader, TypeOK, Sound, WinnerBeatsBasis, BeatsBasis, Own, history
<1>7. ElectionShape(d)'
  BY <1>1, <1>2, <1>a DEF AcceptLeader, TypeOK, Sound, ElectionShape, Own
<1>8. Behind(d)'
  BY <1>1, <1>2, <1>a DEF AcceptLeader, TypeOK, Sound, Behind, ElectionShape, Own, Storing
<1>9. Uncrossed(d)'
  BY <1>1, <1>2, <1>a
  DEF AcceptLeader, TypeOK, Sound, Uncrossed, Settling, Ticking, Restarting, Declaring,
      Accepting, Storing, Own, history
<1> QED
  BY <1>3, <1>4, <1>5, <1>6, <1>7, <1>8, <1>9 DEF Sound

\* It restarts the clock of its silence.
LEMMA HandlerAcceptTimerStep ==
    ASSUME TypeOK, NEW d \in Drones, NEW h \in Handler(d), Sound(d), AcceptTimer(d, h)
    PROVE  TypeOK' /\ Sound(d)' /\ \A e \in Drones \ {d} : Unmoved(e)
<1>1. HandlerWrote(d, h, "win_timer", "win_state")
  <2>1. Write(d, h, "win_timer", "win_state") /\ "win_state" \in TickerStep
    BY ThreadsOf DEF AcceptTimer, TickerStep, Accepting
  <2> QED
    BY <2>1, HandlerWrite
<1>2. Handling(d) /\ Overtaking(d) /\ (Overtaking(d))' /\ (Unseating(d))' /\ (Relaying(d))' = Relaying(d)
  BY <1>1 DEF Handling, Overtaking, Unseating, Relaying, Accepting, Handler
<1>a. sinceLeader' \in [Drones -> 0..HeartbeatTimeout]
  BY DroneElectionAssumption DEF TypeOK, AcceptTimer
<1>w. /\ winner'[d] \in [Threads(d) -> [node : Drones \cup {None}, depth : Nat]]
      /\ winner'[d][Ticker] = winner[d][Ticker]
      /\ \A g \in Handler(d) \ {h} : winner'[d][g] = winner[d][g]
      /\ step'[d][h] # "idle" => winner'[d][h].node \in Drones
  BY <1>1 DEF AcceptTimer, TypeOK, ThreadsTyped
<1>s. ThreadsTyped(d)'
  BY <1>1, <1>w, HandlerTyped DEF HandlerStep, Accepting
<1>o. \A e \in Drones \ {d} : step'[e] = step[e] /\ winner'[e] = winner[e]
  BY <1>1, <1>a DEF AcceptTimer, TypeOK
<1>t. \A e \in Drones : ThreadsTyped(e)'
  BY <1>s, <1>o, OthersTyped
<1>3. TypeOK'
  BY <1>1, <1>t, <1>a, DroneElectionAssumption
  DEF AcceptTimer, TypeOK, clocks, world, history
<1>4. \A e \in Drones \ {d} : Unmoved(e)
  BY <1>1, <1>a DEF AcceptTimer, TypeOK, Unmoved, clocks, world, history
<1>5. CandidatesTrue(d)'
  BY <1>1, <1>a
  DEF AcceptTimer, TypeOK, Sound, CandidatesTrue, Own, Declaring, Accepting, Handler
<1>6. WinnerBeatsBasis(d)'
  BY <1>1, <1>2, <1>a
  DEF AcceptTimer, TypeOK, Sound, WinnerBeatsBasis, BeatsBasis, Own, history
<1>7. ElectionShape(d)'
  BY <1>1, <1>2, <1>a DEF AcceptTimer, TypeOK, Sound, ElectionShape, Own
<1>8. Behind(d)'
  BY <1>1, <1>2, <1>a DEF AcceptTimer, TypeOK, Sound, Behind, ElectionShape, Own, Storing
<1>9. Uncrossed(d)'
  BY <1>1, <1>2, <1>a
  DEF AcceptTimer, TypeOK, Sound, Uncrossed, Settling, Ticking, Restarting, Declaring,
      Accepting, Storing, Own, history
<1> QED
  BY <1>3, <1>4, <1>5, <1>6, <1>7, <1>8, <1>9 DEF Sound

\* It makes the drone a follower.
LEMMA HandlerAcceptStateStep ==
    ASSUME TypeOK, NEW d \in Drones, NEW h \in Handler(d), Sound(d), AcceptState(d, h)
    PROVE  TypeOK' /\ Sound(d)' /\ \A e \in Drones \ {d} : Unmoved(e)
<1>1. HandlerWrote(d, h, "win_state", "win_candidate")
  <2>1. Write(d, h, "win_state", "win_candidate") /\ "win_candidate" \in TickerStep
    BY ThreadsOf DEF AcceptState, TickerStep, Accepting
  <2> QED
    BY <2>1, HandlerWrite
<1>2. Handling(d) /\ Overtaking(d) /\ (Overtaking(d))'
  BY <1>1 DEF Handling, Overtaking, Unseating, Relaying, Accepting, Handler
<1>w. /\ winner'[d] \in [Threads(d) -> [node : Drones \cup {None}, depth : Nat]]
      /\ winner'[d][Ticker] = winner[d][Ticker]
      /\ \A g \in Handler(d) \ {h} : winner'[d][g] = winner[d][g]
      /\ step'[d][h] # "idle" => winner'[d][h].node \in Drones
  BY <1>1 DEF AcceptState, TypeOK, ThreadsTyped
<1>s. ThreadsTyped(d)'
  BY <1>1, <1>w, HandlerTyped DEF HandlerStep, Accepting
<1>o. \A e \in Drones \ {d} : step'[e] = step[e] /\ winner'[e] = winner[e]
  BY <1>1 DEF AcceptState, TypeOK
<1>t. \A e \in Drones : ThreadsTyped(e)'
  BY <1>s, <1>o, OthersTyped
<1>3. TypeOK'
  BY <1>1, <1>t, DroneElectionAssumption
  DEF AcceptState, TypeOK, ElectionState, clocks, world, history
<1>4. \A e \in Drones \ {d} : Unmoved(e)
  BY <1>1 DEF AcceptState, TypeOK, Unmoved, clocks, world, history
<1>5. CandidatesTrue(d)'
  BY <1>1 DEF AcceptState, TypeOK, Sound, CandidatesTrue, Own, Declaring, Accepting, Handler
<1>6. WinnerBeatsBasis(d)'
  BY <1>1, <1>2 DEF AcceptState, TypeOK, Sound, WinnerBeatsBasis, BeatsBasis, Own, history
<1>7. ElectionShape(d)'
  BY <1>1, <1>2 DEF AcceptState, TypeOK, Sound, ElectionShape, Own
<1>8. Behind(d)'
  BY <1>1, <1>2 DEF AcceptState, TypeOK, Sound, Behind, ElectionShape, Own, Storing
<1>9. Uncrossed(d)'
  BY <1>1, <1>2
  DEF AcceptState, TypeOK, Sound, Uncrossed, Settling, Ticking, Restarting, Declaring,
      Accepting, Storing, Own, history
<1> QED
  BY <1>3, <1>4, <1>5, <1>6, <1>7, <1>8, <1>9 DEF Sound

\* It makes the leader a candidate.
LEMMA HandlerAcceptCandidateStep ==
    ASSUME TypeOK, NEW d \in Drones, NEW h \in Handler(d), Sound(d), AcceptCandidate(d, h)
    PROVE  TypeOK' /\ Sound(d)' /\ \A e \in Drones \ {d} : Unmoved(e)
<1>1. HandlerWrote(d, h, "win_candidate", "win_role")
  <2>1. Write(d, h, "win_candidate", "win_role") /\ "win_role" \in TickerStep
    BY ThreadsOf DEF AcceptCandidate, TickerStep, Accepting
  <2> QED
    BY <2>1, HandlerWrite
<1>2. Handling(d) /\ Overtaking(d) /\ (Overtaking(d))' /\ Relaying(d) /\ (Unseating(d))' = Unseating(d)
  BY <1>1 DEF Handling, Overtaking, Unseating, Relaying, Accepting, Handler
<1>a. /\ winner[d][h].node \in Drones \ {d} /\ winner[d][h].depth \in Nat
      /\ winner[d][h].depth = Depth[winner[d][h].node]
  BY <1>1, DroneElectionAssumption DEF Sound, CandidatesTrue
<1>b. candidates' \in [Drones -> [Drones -> Nat \cup {None}]]
  BY <1>a DEF TypeOK, AcceptCandidate
<1>w. /\ winner'[d] \in [Threads(d) -> [node : Drones \cup {None}, depth : Nat]]
      /\ winner'[d][Ticker] = winner[d][Ticker]
      /\ \A g \in Handler(d) \ {h} : winner'[d][g] = winner[d][g]
      /\ step'[d][h] # "idle" => winner'[d][h].node \in Drones
  BY <1>1 DEF AcceptCandidate, TypeOK, ThreadsTyped
<1>s. ThreadsTyped(d)'
  BY <1>1, <1>w, HandlerTyped DEF HandlerStep, Accepting
<1>o. \A e \in Drones \ {d} : step'[e] = step[e] /\ winner'[e] = winner[e]
  BY <1>1, <1>a, <1>b DEF AcceptCandidate, TypeOK
<1>t. \A e \in Drones : ThreadsTyped(e)'
  BY <1>s, <1>o, OthersTyped
<1>3. TypeOK'
  BY <1>1, <1>t, <1>a, <1>b, DroneElectionAssumption
  DEF AcceptCandidate, TypeOK, clocks, world, history
<1>4. \A e \in Drones \ {d} : Unmoved(e)
  BY <1>1, <1>a, <1>b DEF AcceptCandidate, TypeOK, Unmoved, clocks, world, history
<1>5. CandidatesTrue(d)'
  <2>1. \A g \in Handler(d) : step'[d][g] # "idle" => step[d][g] # "idle"
    BY <1>1
  <2>2. \A p \in Drones : candidates'[d][p] \in {None, Depth[p], Advertised[p]}
    BY <1>a DEF AcceptCandidate, TypeOK, Sound, CandidatesTrue
  <2>3. candidates'[d][d] = Depth[d]
    BY <1>a DEF AcceptCandidate, TypeOK, Sound, CandidatesTrue
  <2> QED
    BY <1>1, <2>1, <2>2, <2>3 DEF AcceptCandidate, Sound, CandidatesTrue, Own, Handler
<1>6. WinnerBeatsBasis(d)'
  BY <1>1, <1>2, <1>a, <1>b
  DEF AcceptCandidate, TypeOK, Sound, WinnerBeatsBasis, BeatsBasis, Own, history
<1>7. ElectionShape(d)'
  BY <1>1, <1>2, <1>a, <1>b DEF AcceptCandidate, TypeOK, Sound, ElectionShape, Own
<1>8. Behind(d)'
  BY <1>1, <1>2, <1>a, <1>b
  DEF AcceptCandidate, TypeOK, Sound, Behind, ElectionShape, Own, Storing
<1>9. Uncrossed(d)'
  BY <1>1, <1>2, <1>a, <1>b
  DEF AcceptCandidate, TypeOK, Sound, Uncrossed, Settling, Ticking, Restarting,
      Declaring, Accepting, Storing, Own, history
<1> QED
  BY <1>3, <1>4, <1>5, <1>6, <1>7, <1>8, <1>9 DEF Sound

\* It makes the drone a relay.
LEMMA HandlerAcceptRoleStep ==
    ASSUME TypeOK, NEW d \in Drones, NEW h \in Handler(d), Sound(d), AcceptRole(d, h)
    PROVE  TypeOK' /\ Sound(d)' /\ \A e \in Drones \ {d} : Unmoved(e)
<1>1. HandlerWrote(d, h, "win_role", "idle")
  <2>1. Write(d, h, "win_role", "idle") /\ "idle" \in TickerStep
    BY ThreadsOf DEF AcceptRole, TickerStep, Accepting
  <2> QED
    BY <2>1, HandlerWrite
<1>2. Handling(d) /\ Overtaking(d) /\ Relaying(d) /\ (Unseating(d))' = Unseating(d)
  BY <1>1 DEF Handling, Overtaking, Unseating, Relaying, Accepting, Handler
<1>a. /\ DOMAIN winner' = Drones
      /\ \A e \in Drones \ {d} : winner'[e] = winner[e]
      /\ winner'[d] \in [Threads(d) -> [node : Drones \cup {None}, depth : Nat]]
      /\ \A g \in Handler(d) \ {h} : winner'[d][g] = winner[d][g]
      /\ winner'[d][Ticker] = winner[d][Ticker]
  BY ThreadsOf DEF TypeOK, ThreadsTyped, AcceptRole, NoWinner
<1>w. /\ winner'[d] \in [Threads(d) -> [node : Drones \cup {None}, depth : Nat]]
      /\ winner'[d][Ticker] = winner[d][Ticker]
      /\ \A g \in Handler(d) \ {h} : winner'[d][g] = winner[d][g]
      /\ step'[d][h] # "idle" => winner'[d][h].node \in Drones
  BY <1>1, <1>a DEF TypeOK, ThreadsTyped
<1>s. ThreadsTyped(d)'
  BY <1>1, <1>w, HandlerTyped DEF HandlerStep, Accepting
<1>o. \A e \in Drones \ {d} : step'[e] = step[e] /\ winner'[e] = winner[e]
  BY <1>1, <1>a DEF AcceptRole, TypeOK
<1>t. \A e \in Drones : ThreadsTyped(e)'
  BY <1>s, <1>o, OthersTyped
<1>3. TypeOK'
  BY <1>1, <1>t, <1>a, DroneElectionAssumption
  DEF AcceptRole, TypeOK, DroneRole, clocks, world, history
<1>4. \A e \in Drones \ {d} : Unmoved(e)
  BY <1>1, <1>a DEF AcceptRole, TypeOK, Unmoved, clocks, world, history
<1>5. CandidatesTrue(d)'
  BY <1>1, <1>a
  DEF AcceptRole, TypeOK, Sound, CandidatesTrue, Own, Declaring, Accepting, Handler
<1>6. WinnerBeatsBasis(d)'
  BY <1>1, <1>2, <1>a
  DEF AcceptRole, TypeOK, Sound, WinnerBeatsBasis, BeatsBasis, Own, history
<1>7. ElectionShape(d)'
  BY <1>1, <1>2, <1>a DEF AcceptRole, TypeOK, Sound, ElectionShape, Own
<1>8. Behind(d)'
  BY <1>1, <1>2, <1>a DEF AcceptRole, TypeOK, Sound, Behind, ElectionShape, Own, Storing
<1>9. Uncrossed(d)'
  BY <1>1, <1>2, <1>a
  DEF AcceptRole, TypeOK, Sound, Uncrossed, Settling, Ticking, Restarting, Declaring,
      Accepting, Storing, Own, history
<1> QED
  BY <1>3, <1>4, <1>5, <1>6, <1>7, <1>8, <1>9 DEF Sound

\* A server thread takes up an announcement; a tick that settles remembers it as raced.
LEMMA ElectionWinStep ==
    ASSUME TypeOK, NEW d \in Drones, NEW h \in Handler(d), NEW p \in Drones, Sound(d),
           OnElectionWin(d, h, p)
    PROVE  TypeOK' /\ Sound(d)' /\ \A e \in Drones \ {d} : Unmoved(e)
<1>1. HandlerWrote(d, h, "idle", "win_leader")
  <2>1. Write(d, h, "idle", "win_leader") /\ "win_leader" \in TickerStep
    BY DEF OnElectionWin, TickerStep, Accepting
  <2> QED
    BY <2>1, HandlerWrite
<1>2. /\ (Overtaking(d))' = Overtaking(d) /\ (Unseating(d))' = Unseating(d)
      /\ (Relaying(d))' = Relaying(d)
  BY <1>1 DEF Overtaking, Unseating, Relaying, Accepting, Handler
<1>3. /\ DOMAIN winner' = Drones
      /\ \A e \in Drones \ {d} : winner'[e] = winner[e]
      /\ winner'[d] \in [Threads(d) -> [node : Drones \cup {None}, depth : Nat]]
      /\ \A g \in Handler(d) \ {h} : winner'[d][g] = winner[d][g]
      /\ winner'[d][Ticker] = winner[d][Ticker]
      /\ winner'[d][h] = [node |-> p, depth |-> Depth[p]]
  <2>1. winner[d] \in [Threads(d) -> [node : Drones \cup {None}, depth : Nat]]
    BY DEF TypeOK, ThreadsTyped
  <2>2. /\ DOMAIN winner' = Drones
        /\ \A e \in Drones \ {d} : winner'[e] = winner[e]
        /\ winner'[d] = [winner[d] EXCEPT ![h] = [node |-> p, depth |-> Depth[p]]]
    BY DEF TypeOK, OnElectionWin, Announced
  <2>3. [node |-> p, depth |-> Depth[p]] \in [node : Drones \cup {None}, depth : Nat]
    BY DroneElectionAssumption
  <2> QED
    BY <2>1, <2>2, <2>3, ThreadsOf
<1>4. p # d /\ raced' = IF Settling(d) THEN raced \cup {d} ELSE raced
  BY DEF OnElectionWin
<1>s. ThreadsTyped(d)'
  BY <1>1, <1>3, HandlerTyped DEF HandlerStep, Accepting
<1>5. \A e \in Drones : ThreadsTyped(e)'
  BY <1>1, <1>3, <1>s, OthersTyped
<1>6. TypeOK'
  <2>1. raced' \in SUBSET Drones
    BY <1>4 DEF TypeOK
  <2> QED
    BY <1>1, <1>3, <1>5, <2>1 DEF OnElectionWin, TypeOK, clocks, world
<1>7. \A e \in Drones \ {d} : Unmoved(e)
  BY <1>1, <1>3, <1>4 DEF OnElectionWin, Unmoved, clocks, world
<1>8. CandidatesTrue(d)'
  <2>1. ASSUME NEW g \in Handler(d), step'[d][g] # "idle"
        PROVE  /\ winner'[d][g].node \in Drones \ {d}
               /\ winner'[d][g].depth = Depth[winner'[d][g].node]
    <3>1. CASE g = h
      BY <1>3, <1>4, <3>1
    <3>2. CASE g # h
      <4>1. step'[d][g] = step[d][g] /\ winner'[d][g] = winner[d][g]
        BY <1>1, <1>3, <3>2
      <4> QED
        BY <2>1, <4>1 DEF Sound, CandidatesTrue
    <3> QED
      BY <3>1, <3>2
  <2> QED
    BY <1>1, <1>3, <2>1 DEF OnElectionWin, Sound, CandidatesTrue, Own, Handler
<1>9. WinnerBeatsBasis(d)'
  BY <1>1, <1>3 DEF OnElectionWin, Sound, WinnerBeatsBasis, BeatsBasis, Own
<1>10. ElectionShape(d)' /\ Behind(d)'
  BY <1>1, <1>2, <1>3 DEF OnElectionWin, Sound, ElectionShape, Behind, Own
<1>11. Uncrossed(d)'
  <2>1. d \notin raced' => d \notin raced /\ ~Settling(d)
    BY <1>4 DEF TypeOK
  <2>2. Ticking(d) \in Storing => Settling(d)
    BY DEF Ticking, Settling
  <2> QED
    BY <1>1, <1>2, <1>3, <2>1, <2>2 DEF OnElectionWin, Sound, Uncrossed, Own, Storing
<1> QED
  BY <1>6, <1>7, <1>8, <1>9, <1>10, <1>11 DEF Sound

\* A step of one drone leaves the others sound.
LEMMA OneDroneMoves ==
    ASSUME DroneInv, NEW d \in Drones, TypeOK', Sound(d)',
           \A e \in Drones \ {d} : Unmoved(e)
    PROVE  DroneInv'
<1>1. ASSUME NEW e \in Drones PROVE Sound(e)'
  <2>1. CASE e = d
    BY <2>1
  <2>2. CASE e # d
    BY <2>2, UnmovedSound DEF DroneInv
  <2> QED
    BY <2>1, <2>2
<1> QED
  BY <1>1 DEF DroneInv

\* A step that moves no drone leaves all of them sound.
LEMMA NoDroneMoves ==
    ASSUME DroneInv, TypeOK', \A e \in Drones : Unmoved(e)
    PROVE  DroneInv'
BY UnmovedSound DEF DroneInv

\* DroneInv is an invariant of the drones, whatever the network does and however their
\* threads interleave.
THEOREM DroneInvariance == Spec => []DroneInv
<1>1. DroneInv /\ [Next]_vars => DroneInv'
  <2> SUFFICES ASSUME DroneInv, [Next]_vars PROVE DroneInv'
    OBVIOUS
  <2>0. TypeOK /\ \A d \in Drones : Sound(d)
    BY DEF DroneInv
  <2>1. ASSUME NEW d \in Drones, Tick(d) PROVE DroneInv'
    <3>1. CASE Wait(d)
      BY <2>0, <3>1, WaitStep, NoDroneMoves
    <3>2. CASE Decide(d) \/ RestartState(d) \/ RestartCandidates(d) \/ Pick(d)
      <4>1. TypeOK' /\ Sound(d)' /\ \A e \in Drones \ {d} : Unmoved(e)
        BY <2>0, <3>2, DecideStep, RestartStateStep, RestartCandidatesStep, PickStep
      <4> QED
        BY <4>1, OneDroneMoves
    <3>3. CASE \/ VictoryState(d) \/ VictoryLeader(d) \/ VictoryRole(d)
               \/ StoreState(d) \/ StoreLeader(d)
      <4>1. TypeOK' /\ Sound(d)' /\ \A e \in Drones \ {d} : Unmoved(e)
        BY <2>0, <3>3, VictoryStateStep, VictoryLeaderStep, VictoryRoleStep, StoreStateStep,
           StoreLeaderStep
      <4> QED
        BY <4>1, OneDroneMoves
    <3>4. CASE Accept(d, Ticker)
      <4>1. TypeOK' /\ Sound(d)' /\ \A e \in Drones \ {d} : Unmoved(e)
        BY <2>0, <3>4, TickerAcceptLeaderStep, TickerAcceptTimerStep, TickerAcceptStateStep,
           TickerAcceptCandidateStep, TickerAcceptRoleStep DEF Accept
      <4> QED
        BY <4>1, OneDroneMoves
    <3> QED
      BY <2>1, <3>1, <3>2, <3>3, <3>4 DEF Tick
  <2>2. ASSUME NEW d \in Drones, NEW h \in Handler(d), Accept(d, h) PROVE DroneInv'
    <3>1. TypeOK' /\ Sound(d)' /\ \A e \in Drones \ {d} : Unmoved(e)
      BY <2>0, <2>2, HandlerAcceptLeaderStep, HandlerAcceptTimerStep,
         HandlerAcceptStateStep, HandlerAcceptCandidateStep, HandlerAcceptRoleStep
      DEF Accept
    <3> QED
      BY <3>1, OneDroneMoves
  <2>3. ASSUME NEW d \in Drones, NEW h \in Handler(d), NEW p \in Drones,
               OnElectionWin(d, h, p)
        PROVE  DroneInv'
    <3>1. TypeOK' /\ Sound(d)' /\ \A e \in Drones \ {d} : Unmoved(e)
      BY <2>0, <2>3, ElectionWinStep
    <3> QED
      BY <3>1, OneDroneMoves
  <2>4. ASSUME NEW d \in Drones, NEW p \in Drones, OnHeartbeat(d, p) PROVE DroneInv'
    <3>1. TypeOK' /\ Sound(d)' /\ \A e \in Drones \ {d} : Unmoved(e)
      BY <2>0, <2>4, HeartbeatStep
    <3> QED
      BY <3>1, OneDroneMoves
  <2>5. ASSUME NEW d \in Drones, Stop(d) PROVE DroneInv'
    BY <2>0, <2>5, StopStep, NoDroneMoves
  <2>6. CASE UNCHANGED vars
    <3>1. TypeOK'
      <4>1. /\ DOMAIN step' = Drones /\ DOMAIN winner' = Drones
            /\ \A e \in Drones : ThreadsTyped(e)'
        BY <2>0, <2>6, ThreadsStill DEF vars
      <4> QED
        BY <2>0, <2>6, <4>1 DEF vars, clocks, world, history, TypeOK
    <3>2. \A e \in Drones : Unmoved(e)
      BY <2>6 DEF vars, clocks, world, history, Unmoved
    <3> QED
      BY <3>1, <3>2, NoDroneMoves
  <2> QED
    BY <2>1, <2>2, <2>3, <2>4, <2>5, <2>6 DEF Next
<1> QED
  BY <1>1, DroneInit, PTL DEF Spec

\* Ages, states and winners of the election code stay in their ranges, and every
\* thread of it knows whom it makes the leader.
THEOREM DroneTypes == Spec => []TypeOK
<1>1. DroneInv => TypeOK
  BY DEF DroneInv
<1> QED
  BY <1>1, DroneInvariance, PTL

\* A drone at rest settles nothing and handles nothing.
LEMMA RestMeans ==
    ASSUME NEW d \in Drones, AtRest(d)
    PROVE  Ticking(d) = "idle" /\ ~Settling(d) /\ ~Handling(d)
BY ThreadsOf DEF AtRest, Ticking, Settling, Handling, Declaring, Accepting, Storing

\* Between two writes of its threads an elected drone names itself the leader, and
\* one that names itself the leader is elected unless an announcement crossed the end
\* of its last election: whatever the other threads of a drone are and however many.
THEOREM LeaderAgrees == Spec => []LeaderIffElected
<1>1. DroneInv => LeaderIffElected
  <2> SUFFICES ASSUME DroneInv, NEW d \in Drones, AtRest(d)
               PROVE  /\ state[d] = "elected" => leader[d] = d
                      /\ leader[d] = d /\ d \notin raced => state[d] = "elected"
    BY DEF LeaderIffElected
  <2>1. Behind(d) /\ Uncrossed(d)
    BY DEF DroneInv, Sound
  <2> QED
    BY <2>1, RestMeans, HandlingNone DEF Behind, Uncrossed
<1> QED
  BY <1>1, DroneInvariance, PTL

\* Between two writes of its threads an explorer is elected, and an elected drone
\* explores unless an announcement crossed the end of its last election.
THEOREM ExplorerAgrees == Spec => []ExplorerIffElected
<1>1. DroneInv => ExplorerIffElected
  <2> SUFFICES ASSUME DroneInv, NEW d \in Drones, AtRest(d)
               PROVE  /\ role[d] = "explorer" => state[d] = "elected"
                      /\ state[d] = "elected" /\ d \notin raced => role[d] = "explorer"
    BY DEF ExplorerIffElected
  <2>1. Behind(d) /\ Uncrossed(d)
    BY DEF DroneInv, Sound
  <2> QED
    BY <2>1, RestMeans, HandlingNone DEF Behind, Uncrossed
<1> QED
  BY <1>1, DroneInvariance, PTL

\* Two drones are elected though each counted the other as a candidate.
Split(d, p) ==
    /\ state[d] = "elected" /\ state[p] = "elected"
    /\ p \in basis[d] /\ d \in basis[p]

\* A split brain among drones that met is always one of the depths in heartbeats:
\* of two drones that are elected though each had counted the other when its
\* _finalize_election picked a winner, one advertises less than the depth it is a
\* candidate with.  No loss, delay, repetition or crossing of messages makes one.
THEOREM SplitBrainExplained ==
    Spec => [](\A d, p \in Drones : d # p /\ Split(d, p) =>
                  Advertised[d] < Depth[d] \/ Advertised[p] < Depth[p])
<1>1. DroneInv => \A d, p \in Drones : d # p /\ Split(d, p) =>
                    Advertised[d] < Depth[d] \/ Advertised[p] < Depth[p]
  <2> SUFFICES ASSUME DroneInv, NEW d \in Drones, NEW p \in Drones, d # p, Split(d, p)
               PROVE  Advertised[d] < Depth[d] \/ Advertised[p] < Depth[p]
    OBVIOUS
  <2>0. BeatsBasis(d) /\ BeatsBasis(p)
    BY DEF Split, DroneInv, Sound, WinnerBeatsBasis
  <2>1. PICK x \in {Depth[p], Advertised[p]} : Outranks(d, Depth[d], p, x)
    BY <2>0 DEF Split, BeatsBasis
  <2>2. PICK y \in {Depth[d], Advertised[d]} : Outranks(p, Depth[p], d, y)
    BY <2>0 DEF Split, BeatsBasis
  <2>3. /\ d \in Nat /\ p \in Nat /\ Depth[d] \in Nat /\ Depth[p] \in Nat
        /\ Advertised[d] \in Nat /\ Advertised[p] \in Nat
    BY DroneElectionAssumption
  <2> QED
    BY <2>1, <2>2, <2>3 DEF Outranks
<1> QED
  BY <1>1, DroneInvariance, PTL

-------------------------------------------------------------------------------
(* PBFT. *)

\* The byzantine members of the committee.
Faulty(k, byzantine) == Replicas(k) \cap byzantine

\* What n >= 3f + 1 allows.
Tolerated(k) == (k - 1) \div 3
\* With floor(2n/3) + 1 as the quorum, the honest replicas are a quorum exactly when
\* no more than a third of the others are byzantine.
LEMMA QuorumIsTight ==
    ASSUME NEW k \in Nat \ {0}, NEW b \in 0..k
    PROVE  k - b >= quorum(k) <=> b <= Tolerated(k)
BY DEF quorum, Tolerated

\* The honest members of a committee are those that are not faulty.
LEMMA HonestCount ==
    ASSUME NEW k \in Nat \ {0}, NEW byzantine
    PROVE  /\ IsFiniteSet(Replicas(k) \ byzantine)
           /\ Cardinality(Faulty(k, byzantine)) \in 0..k
           /\ Cardinality(Replicas(k) \ byzantine) = k - Cardinality(Faulty(k, byzantine))
<1>1. IsFiniteSet(Replicas(k)) /\ Cardinality(Replicas(k)) = k
  <2>1. /\ IsFiniteSet(0..(k - 1))
        /\ Cardinality(0..(k - 1)) = IF 0 > k - 1 THEN 0 ELSE (k - 1) - 0 + 1
    BY FS_Interval
  <2> QED
    BY <2>1 DEF Replicas
<1>2. /\ IsFiniteSet(Replicas(k) \ byzantine)
      /\ Cardinality(Replicas(k) \ byzantine)
           = Cardinality(Replicas(k)) - Cardinality(Replicas(k) \cap byzantine)
  BY <1>1, FS_Difference
<1>3. /\ IsFiniteSet(Replicas(k) \cap byzantine)
      /\ Cardinality(Replicas(k) \cap byzantine) <= Cardinality(Replicas(k))
  <2>1. Replicas(k) \cap byzantine \subseteq Replicas(k)
    OBVIOUS
  <2> QED
    BY <1>1, <2>1, FS_Subset
<1>4. Cardinality(Replicas(k) \cap byzantine) \in Nat
  BY <1>3, FS_CardinalityType
<1> QED
  BY <1>1, <1>2, <1>3, <1>4 DEF Faulty

\* A round on a value the replicas find valid is decided by two things only: it
\* succeeds exactly when the primary of its view is honest and at most
\* floor((k - 1) / 3) members of the committee are byzantine.  The bound is tight, so
\* a cluster neither orders without enough honest votes nor refuses with them.
THEOREM RoundSucceedsExactly ==
    ASSUME NEW k \in Nat \ {0}, NEW byzantine, NEW view \in Nat
    PROVE  RoundSucceeds(k, byzantine, view, TRUE) <=>
             /\ primary(k, view) \notin byzantine
             /\ Cardinality(Faulty(k, byzantine)) <= Tolerated(k)
<1> DEFINE b == Cardinality(Faulty(k, byzantine))
<1>1. b \in 0..k /\ Cardinality(Replicas(k) \ byzantine) = k - b
  BY HonestCount
<1>2. k - b >= quorum(k) <=> b <= Tolerated(k)
  BY <1>1, QuorumIsTight
<1>3. CASE primary(k, view) \in byzantine
  <2>1. PrepareVotes(k, byzantine, view, TRUE) = {}
    BY <1>3 DEF PrepareVotes
  <2>2. Cardinality({}) = 0
    BY FS_EmptySet
  <2>3. ~(0 >= quorum(k))
    BY DEF quorum
  <2>4. ~RoundSucceeds(k, byzantine, view, TRUE)
    BY <2>1, <2>2, <2>3 DEF RoundSucceeds
  <2> QED
    BY <1>3, <2>4
<1>4. CASE primary(k, view) \notin byzantine
  <2>1. PrepareVotes(k, byzantine, view, TRUE) = Replicas(k) \ byzantine
    BY <1>4 DEF PrepareVotes
  <2>2. CommitVotes(k, byzantine, view, TRUE) = Replicas(k) \ byzantine
    BY <2>1 DEF CommitVotes
  <2>3. RoundSucceeds(k, byzantine, view, TRUE) <=> k - b >= quorum(k)
    BY <1>1, <2>1, <2>2 DEF RoundSucceeds
  <2> QED
    BY <1>2, <1>4, <2>3
<1> QED
  BY <1>3, <1>4

\* A remainder is found again.
LEMMA RemainderOf ==
    ASSUME NEW k \in Nat \ {0}, NEW q \in Nat, NEW r \in 0..(k - 1)
    PROVE  (k * q + r) % k = r
OBVIOUS

\* Views rotate through the whole committee: whatever the current view, each place
\* is the primary's within k views.
LEMMA PrimariesRotate ==
    ASSUME NEW k \in Nat \ {0}, NEW view \in Nat, NEW r \in Replicas(k)
    PROVE  \E i \in 0..(k - 1) : primary(k, view + i) = r
<1> DEFINE p == view % k
           q == view \div k
           i == IF r >= p THEN r - p ELSE k + r - p
<1>1. p \in 0..(k - 1) /\ q \in Nat /\ view = k * q + p
  OBVIOUS
<1>2. i \in 0..(k - 1)
  BY <1>1 DEF Replicas
<1>3. (view + i) % k = r
  <2>1. CASE r >= p
    <3>1. view + i = k * q + r
      BY <1>1, <2>1 DEF Replicas
    <3> QED
      BY <1>1, <3>1, RemainderOf DEF Replicas
  <2>2. CASE r < p
    <3>1. view + i = k * (q + 1) + r
      BY <1>1, <2>2 DEF Replicas
    <3>2. q + 1 \in Nat /\ r \in 0..(k - 1)
      BY <1>1 DEF Replicas
    <3>3. (k * (q + 1) + r) % k = r
      BY <3>2, RemainderOf
    <3> QED
      BY <3>1, <3>3
  <2> QED
    BY <1>1, <2>1, <2>2 DEF Replicas
<1> QED
  BY <1>2, <1>3 DEF primary

\* order, which tries as many views as the cluster has nodes, always ends in success
\* on a valid value while no more than floor((k - 1) / 3) of the committee's k
\* members are byzantine, whatever view the failures before it have left behind.
THEOREM OrderTolerates ==
    ASSUME NEW k \in Nat \ {0}, NEW byzantine, NEW view \in Nat,
           NEW maxViews \in Nat, maxViews >= k,
           Cardinality(Faulty(k, byzantine)) <= Tolerated(k)
    PROVE  OrderSucceeds(k, byzantine, view, TRUE, maxViews)
<1>1. Cardinality(Replicas(k) \ byzantine) > 0
  <2>1. /\ Cardinality(Faulty(k, byzantine)) \in 0..k
        /\ Cardinality(Replicas(k) \ byzantine) = k - Cardinality(Faulty(k, byzantine))
    BY HonestCount
  <2>2. Tolerated(k) < k
    BY DEF Tolerated
  <2>3. Tolerated(k) \in Int
    BY DEF Tolerated
  <2> QED
    BY <2>1, <2>2, <2>3
<1>2. PICK r \in Replicas(k) : r \notin byzantine
  <2>1. Cardinality({}) = 0
    BY FS_EmptySet
  <2>2. Replicas(k) \ byzantine # {}
    BY <1>1, <2>1
  <2> QED
    BY <2>2
<1>3. PICK i \in 0..(k - 1) : primary(k, view + i) = r
  BY PrimariesRotate
<1>4. RoundSucceeds(k, byzantine, view + i, TRUE)
  <2>1. view + i \in Nat
    OBVIOUS
  <2> QED
    BY <1>2, <1>3, <2>1, RoundSucceedsExactly
<1>5. i \in 0..(maxViews - 1)
  OBVIOUS
<1> QED
  BY <1>4, <1>5 DEF OrderSucceeds

\* A cap never makes a committee larger than the cluster, so order's limit of one
\* view per node covers every committee.
THEOREM CommitteeCovered ==
    ASSUME NEW cap \in Nat, NEW n \in Nat \ {0}
    PROVE  committee(cap, n) \in 1..n
BY DEF committee
===============================================================================
