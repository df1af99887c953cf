------------------------- MODULE MissionRuntime_proofs -------------------------
(***************************************************************************)
(* Theorems about the mission runtime, for any number of concurrent calls, *)
(* any roster and any bounds.                                              *)
(*                                                                         *)
(* The first lemmas are about the ledger the runtime starts from and about *)
(* the phase a replay finds.  Then the actions are brought down to four    *)
(* kinds of step, and the invariant is shown in three parts: the shape of  *)
(* calls, what a checkpoint covers, and what holds while calls are made    *)
(* one after the other.  The last section is about the tree of rows that   *)
(* is left when they are not.                                              *)
(***************************************************************************)
EXTENDS MissionRuntime, SequenceTheorems, FiniteSetTheorems, TLAPS

Rows == Seq(Ledger!LedgerEvent)

\* s is the beginning of t.
Begins(s, t) == Len(s) <= Len(t) /\ \A i \in 1 .. Len(s) : s[i] = t[i]

\* The committed transitions of evs are valid (TransitionsValid of any ledger).
ValidTransitions(evs) ==
    \A i \in 1 .. Len(evs) :
        evs[i].core.eventType = "phase_transition" =>
            evs[i].core.subject \in validVertexNextPhases(Phase(SubSeq(evs, 1, i - 1)))

Kinds == {"idle", "append", "fast", "beat", "checkpoint", "sealing", "rewarded", "sealed",
          "anchored"}

CallRecord ==
    [kind : Kinds, todo : SUBSET Nodes, left : Nat, label : Labels \cup {"-"},
     root : Seq(Cores)]

Pending(c) == inflight[c] # <<>>

\* The kinds of a call that has no append pending.
Resting == {"idle", "sealing", "rewarded"}

\* What the calls, the ledger and the pending appends look like.
CallsShape ==
    /\ scenario \in Scenarios
    /\ events \in Rows
    /\ inflight = [c \in Callers |-> inflight[c]]
    /\ \A c \in Callers : Pending(c) => inflight[c][1] \in Ledger!Input
    /\ call \in [Callers -> CallRecord]
    /\ \A c \in Callers : call[c].kind \in Resting => ~Pending(c)

\* The ledger has a checkpoint row with label l.
Holds(evs, l) == \E i \in 1 .. Len(evs) : evs[i].core = Core("recovery_checkpoint", l)

\* What is saved is the beginning of the ledger, of its scenario, and holds every
\* checkpoint acknowledged for that scenario; a call about to save has its row in
\* the ledger; for the page's scenario nothing is acknowledged before it is open.
CheckpointShape ==
    /\ \A c \in Callers : call[c].kind = "checkpoint" =>
         IF Pending(c) THEN inflight[c][1].core = Core("recovery_checkpoint", call[c].label)
         ELSE Holds(events, call[c].label)
    /\ scenario # PageScenario => \A a \in acked : a.scenario # PageScenario
    /\ saved = <<>> => \A a \in acked : a.scenario # scenario
    /\ saved # <<>> => /\ saved[1].scenario = scenario
                       /\ saved[1].events \in Rows
                       /\ Begins(saved[1].events, events)
                       /\ \A a \in acked : a.scenario = scenario =>
                            Holds(saved[1].events, a.label)

\* What holds while calls are made one after the other: one call is under way, its
\* pending append and the root it seals are those of the ledger as it still stands.
Serial ==
    /\ \A c, d \in Callers : call[c] # NoCall /\ call[d] # NoCall => c = d
    /\ Ledger!ChainVerifies(events)
    /\ ValidTransitions(events)
    /\ \A c \in Callers : Pending(c) =>
         /\ inflight[c][1].previousHash = TailHash(events)
         /\ inflight[c][1].core.eventType = "phase_transition" =>
              inflight[c][1].core.subject \in validVertexNextPhases(Phase(events))
    /\ \A c \in Callers :
         call[c].kind \in {"sealing", "rewarded"} \/ (call[c].kind = "sealed" /\ Pending(c)) =>
             call[c].root = TailHash(events) /\ Settleable(events)
    /\ \A s \in seals : s.root = s.previousHash /\ s.phase \in TERMINAL_PHASES

RuntimeInv ==
    /\ CallsShape
    /\ CheckpointShape
    /\ ~overlapped => Serial

\* Making a call is noticed when another one is under way.
Claims(c) ==
    \/ call[c] # NoCall /\ overlapped' = overlapped
    \/ overlapped' = (overlapped \/ \E d \in Callers : call[d] # NoCall)

\* A step in which c starts an append.
Starts(c) ==
    \E core \in Cores :
        /\ Ledger!StartAppend(c, core)
        /\ core.eventType = "phase_transition" =>
             core.subject \in validVertexNextPhases(Phase(events))
        /\ call' = [call EXCEPT ![c] = call'[c]]
        /\ call'[c] \in CallRecord /\ call'[c].kind \notin Resting
        /\ call'[c].kind = "checkpoint" => core = Core("recovery_checkpoint", call'[c].label)
        /\ call'[c].kind = "sealed" => call[c].kind = "rewarded" /\ call'[c].root = call[c].root
        /\ scenario' = scenario /\ saved' = saved /\ acked' = acked /\ seals' = seals
        /\ Claims(c)

\* A step in which c leaves the ledger alone.
Rests(c) ==
    /\ scenario' = scenario
    /\ events' = events /\ inflight' = inflight /\ seals' = seals
    /\ ~Pending(c)
    /\ call' = [call EXCEPT ![c] = call'[c]]
    /\ call'[c] \in CallRecord /\ call'[c].kind \in Resting
    /\ call'[c].kind # "idle" =>
         /\ Settleable(events)
         /\ \/ call'[c].root = TailHash(events)
            \/ call[c].kind = "sealing" /\ call'[c].root = call[c].root
    /\ \/ saved' = saved /\ acked' = acked
       \/ /\ call[c].kind = "checkpoint"
          /\ saved' = <<[scenario |-> scenario, events |-> events]>>
          /\ acked' = acked \cup {[label |-> call[c].label, scenario |-> scenario]}
    /\ Claims(c)
-------------------------------------------------------------------------------
(* Phases. *)

\* The nominal pipeline, place by place.
LEMMA LinearPlaces ==
    /\ Len(LINEAR) = 8
    /\ LINEAR[1] = "init" /\ LINEAR[2] = "discovery" /\ LINEAR[3] = "search"
    /\ LINEAR[4] = "triage" /\ LINEAR[5] = "rescue" /\ LINEAR[6] = "extraction"
    /\ LINEAR[7] = "return" /\ LINEAR[8] = "complete"
BY DEF LINEAR

\* Whatever may follow a phase is a phase.
LEMMA NextPhaseIsPhase ==
    ASSUME NEW from, NEW to \in validVertexNextPhases(from)
    PROVE  to \in MissionPhase
<1>1. nominalNextPhase(from) \in MissionPhase \cup {NoPhase}
  <2> DEFINE at == {i \in 1 .. Len(LINEAR) - 1 : LINEAR[i] = from}
  <2>1. CASE at = {}
    BY <2>1 DEF nominalNextPhase
  <2>2. CASE at # {}
    <3> DEFINE k == CHOOSE i \in at : TRUE
    <3>1. k \in at
      BY <2>2
    <3>2. nominalNextPhase(from) = LINEAR[k + 1]
      BY <2>2 DEF nominalNextPhase
    <3> HIDE DEF k
    <3>3. k + 1 \in 1 .. Len(LINEAR)
      BY <3>1, LinearPlaces
    <3> QED
      BY <3>2, <3>3 DEF MissionPhase
  <2> QED
    BY <2>1, <2>2
<1>2. "discovery" \in MissionPhase /\ "aborted" \in MissionPhase
  BY LinearPlaces DEF MissionPhase
<1> QED
  BY <1>1, <1>2 DEF validVertexNextPhases

\* The pipeline's own steps are valid.
LEMMA PipelineIsValid ==
    ASSUME NEW k \in 1 .. 7
    PROVE  LINEAR[k + 1] \in validVertexNextPhases(LINEAR[k])
<1> DEFINE at == {i \in 1 .. Len(LINEAR) - 1 : LINEAR[i] = LINEAR[k]}
<1>1. at = {k}
  BY LinearPlaces
<1>2. (CHOOSE i \in at : TRUE) = k
  BY <1>1
<1>3. nominalNextPhase(LINEAR[k]) = LINEAR[k + 1]
  BY <1>1, <1>2 DEF nominalNextPhase
<1>4. LINEAR[k] \notin TERMINAL_PHASES /\ LINEAR[k + 1] # NoPhase
  BY LinearPlaces DEF TERMINAL_PHASES, NoPhase
<1> QED
  BY <1>3, <1>4 DEF validVertexNextPhases

\* The last row that sets the phase decides it.
LEMMA LastSetterDecides ==
    ASSUME NEW evs \in Rows, NEW k \in 1 .. Len(evs), SetsPhase(evs[k]),
           \A j \in k + 1 .. Len(evs) : ~SetsPhase(evs[j])
    PROVE  Phase(evs) = PhaseOf(evs[k].core)
<1> DEFINE n == Len(evs)
           P(i) == /\ i < n => SetsPhase(evs[n - i])
                   /\ \A j \in 0 .. i - 1 : ~SetsPhase(evs[n - j])
           since == CHOOSE i \in 0 .. n : P(i)
<1>1. n \in Nat
  BY DEF Rows
<1>2. n - k \in 0 .. n /\ P(n - k)
  <2>1. n - k \in 0 .. n /\ n - (n - k) = k
    BY <1>1
  <2>2. \A j \in 0 .. n - k - 1 : n - j \in k + 1 .. n
    BY <1>1
  <2> QED
    BY <2>1, <2>2
<1>3. since \in 0 .. n /\ P(since)
  BY <1>2
<1>4. since = n - k
  <2> HIDE DEF since
  <2>1. CASE since < n - k
    <3>1. n - since \in k + 1 .. n /\ since < n
      BY <1>1, <1>3, <2>1
    <3> QED
      BY <1>3, <3>1
  <2>2. CASE since > n - k
    <3>1. n - k \in 0 .. since - 1 /\ n - (n - k) = k
      BY <1>1, <1>3, <2>2
    <3> QED
      BY <1>3, <3>1
  <2> QED
    BY <1>1, <1>3, <2>1, <2>2
<1>5. Phase(evs) = IF since = n THEN "init" ELSE PhaseOf(evs[n - since].core)
  BY DEF Phase
<1> HIDE DEF since
<1>6. since # n /\ n - since = k
  BY <1>1, <1>4
<1> QED
  BY <1>5, <1>6
-------------------------------------------------------------------------------
(* The ledger a mission starts from. *)

\* What is written by one call after another is a ledger whose chain verifies.
LEMMA WrittenVerifies ==
    ASSUME NEW cores \in Seq(Cores)
    PROVE  /\ Written(cores) \in Rows
           /\ Len(Written(cores)) = Len(cores)
           /\ \A i \in 1 .. Len(cores) :
                /\ Written(cores)[i].core = cores[i]
                /\ Written(cores)[i] = Ledger!Event([previousHash |-> SubSeq(cores, 1, i - 1),
                                                     core |-> cores[i]])
           /\ Ledger!ChainVerifies(Written(cores))
<1> DEFINE n == Len(cores)
           Row(i) == Ledger!Event([previousHash |-> SubSeq(cores, 1, i - 1), core |-> cores[i]])
           evs == Written(cores)
<1>1. n \in Nat /\ \A i \in 1 .. n : cores[i] \in Cores
  BY ElementOfSeq, LenProperties
<1>2. \A i \in 1 .. n : /\ SubSeq(cores, 1, i - 1) \in Seq(Cores)
                        /\ Len(SubSeq(cores, 1, i - 1)) = i - 1
                        /\ \A j \in 1 .. i - 1 : SubSeq(cores, 1, i - 1)[j] = cores[j]
  <2> TAKE i \in 1 .. n
  <2>1. \A j \in 1 .. i - 1 : cores[j] \in Cores
    BY <1>1
  <2>2. /\ SubSeq(cores, 1, i - 1) \in Seq(Cores)
        /\ Len(SubSeq(cores, 1, i - 1)) = IF 1 <= i - 1 THEN i - 1 - 1 + 1 ELSE 0
        /\ \A j \in 1 .. i - 1 - 1 + 1 : SubSeq(cores, 1, i - 1)[j] = cores[1 + j - 1]
    BY <1>1, <2>1, SubSeqProperties
  <2> QED
    BY <1>1, <2>2
<1>3. \A i \in 1 .. n :
        /\ Row(i).core = cores[i]
        /\ Row(i).previousHash = SubSeq(cores, 1, i - 1)
        /\ Row(i).eventHash = Append(SubSeq(cores, 1, i - 1), cores[i])
  BY DEF Ledger!Event, Ledger!Hash
<1>4. \A i \in 1 .. n : Row(i) \in Ledger!LedgerEvent
  BY <1>1, <1>2 DEF Ledger!Event, Ledger!Hash, Ledger!LedgerEvent, Ledger!HashValue
<1>5. evs = [i \in 1 .. n |-> Row(i)]
  BY DEF Written
<1> HIDE DEF Row, evs
<1>6. evs \in Rows /\ Len(evs) = n /\ \A i \in 1 .. n : evs[i] = Row(i)
  BY <1>1, <1>4, <1>5 DEF Rows
<1>7. Ledger!ChainVerifies(evs)
  <2> SUFFICES ASSUME NEW i \in 1 .. n
               PROVE  /\ evs[i].previousHash = IF i = 1 THEN <<>> ELSE evs[i - 1].eventHash
                      /\ evs[i].eventHash = Append(evs[i].previousHash, evs[i].core)
    BY <1>6 DEF Ledger!ChainVerifies, Ledger!Genesis, Ledger!Hash
  <2>1. evs[i].eventHash = Append(evs[i].previousHash, evs[i].core)
    BY <1>3, <1>6
  <2>2. CASE i = 1
    <3>1. SubSeq(cores, 1, i - 1) = <<>>
      BY <1>2, <2>2
    <3> QED
      BY <1>3, <1>6, <2>1, <2>2, <3>1
  <2>3. CASE i # 1
    <3>1. i - 1 \in 1 .. n /\ i - 1 - 1 = i - 2
      BY <1>1, <2>3
    <3> DEFINE h == SubSeq(cores, 1, i - 1)
               g == Append(SubSeq(cores, 1, i - 2), cores[i - 1])
    <3>2. /\ h \in Seq(Cores) /\ Len(h) = i - 1
          /\ \A j \in 1 .. i - 1 : h[j] = cores[j]
      BY <1>2
    <3>3. /\ SubSeq(cores, 1, i - 2) \in Seq(Cores)
          /\ Len(SubSeq(cores, 1, i - 2)) = i - 2
          /\ \A j \in 1 .. i - 2 : SubSeq(cores, 1, i - 2)[j] = cores[j]
      BY <1>2, <3>1
    <3>4. g \in Seq(Cores) /\ Len(g) = i - 1 /\ \A j \in 1 .. i - 1 : g[j] = cores[j]
      BY <1>1, <3>1, <3>3
    <3> HIDE DEF h, g
    <3>5. h = g
      BY <3>2, <3>4, SeqEqual
    <3>6. evs[i].previousHash = h /\ evs[i - 1].eventHash = g
      BY <1>3, <1>6, <3>1 DEF h, g
    <3> QED
      BY <2>1, <2>3, <3>5, <3>6
  <2> QED
    BY <2>2, <2>3
<1> QED
  BY <1>3, <1>6, <1>7 DEF evs, Row

\* The roster can be put in an order.
LEMMA RosterOrder ==
    ASSUME NEW sc \in Scenarios
    PROVE  /\ Cardinality(Roster[sc]) \in Nat
           /\ \E s \in [1 .. Cardinality(Roster[sc]) -> Roster[sc]] :
                \A i, j \in DOMAIN s : s[i] = s[j] => i = j
<1>1. /\ Cardinality(Roster[sc]) \in Nat
      /\ ExistsBijection(1 .. Cardinality(Roster[sc]), Roster[sc])
  BY RuntimeAssumption, FS_CardinalityType
<1>2. PICK s : s \in Bijection(1 .. Cardinality(Roster[sc]), Roster[sc])
  BY <1>1 DEF ExistsBijection
<1> QED
  BY <1>1, <1>2 DEF Bijection, Injection, IsInjective

\* A join and a heartbeat per roster node.
LEMMA JoinAndBeatRows ==
    ASSUME NEW sc \in Scenarios
    PROVE  /\ JoinAndBeat(sc) \in Seq(Cores)
           /\ Len(JoinAndBeat(sc)) = 2 * Cardinality(Roster[sc])
           /\ \A i \in 1 .. Len(JoinAndBeat(sc)) :
                JoinAndBeat(sc)[i].eventType \in {"node_join", "node_heartbeat"}
<1> DEFINE n == Cardinality(Roster[sc])
           order == CHOOSE s \in [1 .. n -> Roster[sc]] :
                        \A i, j \in DOMAIN s : s[i] = s[j] => i = j
           Beat(i) == Core(IF i % 2 = 1 THEN "node_join" ELSE "node_heartbeat",
                           order[(i + 1) \div 2])
<1>1. n \in Nat /\ order \in [1 .. n -> Roster[sc]]
  BY RosterOrder
<1>2. JoinAndBeat(sc) = [i \in 1 .. 2 * Len(order) |-> Beat(i)]
  BY DEF JoinAndBeat
<1> HIDE DEF order, n
<1>3. Len(order) = n
  BY <1>1
<1>4. \A i \in 1 .. 2 * n : /\ Beat(i) \in Cores
                            /\ Beat(i).eventType \in {"node_join", "node_heartbeat"}
  <2> TAKE i \in 1 .. 2 * n
  <2>1. (i + 1) \div 2 \in 1 .. n
    BY <1>1
  <2>2. order[(i + 1) \div 2] \in Nodes
    BY <1>1, <2>1 DEF Nodes
  <2> QED
    BY <2>2 DEF Cores, Core
<1> HIDE DEF Beat
<1>5. 2 * n \in Nat
  BY <1>1
<1> QED
  BY <1>2, <1>3, <1>4, <1>5 DEF n

\* The rows before the first transition.
Base(sc) == <<Core("mission_created", "-")>> \o JoinAndBeat(sc)

\* The creation of the mission, then rows that say nothing about the phase.
LEMMA BaseRows ==
    ASSUME NEW sc \in Scenarios
    PROVE  /\ Base(sc) \in Seq(Cores)
           /\ Len(Base(sc)) \in Nat \ {0}
           /\ Base(sc)[1].eventType = "mission_created"
           /\ \A i \in 2 .. Len(Base(sc)) :
                Base(sc)[i].eventType \in {"node_join", "node_heartbeat"}
<1> DEFINE first == <<Core("mission_created", "-")>>
           rest == JoinAndBeat(sc)
<1>1. first \in Seq(Cores) /\ Len(first) = 1 /\ first[1] = Core("mission_created", "-")
  BY DEF Cores, PlainTypes
<1>2. Core("mission_created", "-").eventType = "mission_created"
  BY DEF Core
<1>3. /\ Base(sc) = first \o rest
      /\ rest \in Seq(Cores)
      /\ \A i \in 1 .. Len(rest) : rest[i].eventType \in {"node_join", "node_heartbeat"}
  BY JoinAndBeatRows DEF Base
<1> HIDE DEF first, rest
<1>4. /\ Base(sc) \in Seq(Cores)
      /\ Len(Base(sc)) = Len(first) + Len(rest)
      /\ \A i \in 1 .. Len(first) + Len(rest) :
           Base(sc)[i] = IF i <= Len(first) THEN first[i] ELSE rest[i - Len(first)]
  BY <1>1, <1>3, ConcatProperties
<1>5. Len(rest) \in Nat
  BY <1>3, LenProperties
<1>6. Len(Base(sc)) = 1 + Len(rest) /\ Base(sc)[1] = first[1]
  BY <1>1, <1>4, <1>5
<1>7. \A i \in 2 .. Len(Base(sc)) : /\ i - 1 \in 1 .. Len(rest)
                                    /\ Base(sc)[i] = rest[i - 1]
  BY <1>1, <1>4, <1>5, <1>6
<1> QED
  BY <1>1, <1>2, <1>4, <1>5, <1>3, <1>6, <1>7

\* bootstrap, and the hops that take the mission to phase p.
LEMMA BootRows ==
    ASSUME NEW sc \in Scenarios, NEW p \in MissionPhase \ {"init", "aborted"}
    PROVE  \E h \in 2 .. 8 :
             /\ p = LINEAR[h]
             /\ BootCores(sc, p) \in Seq(Cores)
             /\ Len(BootCores(sc, p)) = Len(Base(sc)) + h - 1
             /\ \A i \in 1 .. Len(Base(sc)) : BootCores(sc, p)[i] = Base(sc)[i]
             /\ \A k \in 1 .. h - 1 :
                  BootCores(sc, p)[Len(Base(sc)) + k] = Core("phase_transition", LINEAR[k + 1])
<1> DEFINE h == Place(p)
           hops == [i \in 1 .. h - 1 |-> Core("phase_transition", LINEAR[i + 1])]
<1>1. h \in 1 .. Len(LINEAR) /\ LINEAR[h] = p
  BY DEF MissionPhase, Place
<1>2. BootCores(sc, p) = Base(sc) \o hops
  BY DEF BootCores, Base
<1> HIDE DEF h
<1>3. h \in 2 .. 8
  BY <1>1, LinearPlaces
<1>4. \A i \in 1 .. h - 1 : Core("phase_transition", LINEAR[i + 1]) \in Cores
  <2> TAKE i \in 1 .. h - 1
  <2>1. LINEAR[i + 1] \in MissionPhase
    BY <1>3, LinearPlaces DEF MissionPhase
  <2> QED
    BY <2>1 DEF Cores
<1>5. /\ hops \in Seq(Cores) /\ Len(hops) = h - 1
      /\ \A i \in 1 .. h - 1 : hops[i] = Core("phase_transition", LINEAR[i + 1])
  BY <1>3, <1>4
<1> HIDE DEF hops
<1>6. /\ Base(sc) \o hops \in Seq(Cores)
      /\ Len(Base(sc) \o hops) = Len(Base(sc)) + Len(hops)
      /\ \A i \in 1 .. Len(Base(sc)) + Len(hops) :
           (Base(sc) \o hops)[i] = IF i <= Len(Base(sc)) THEN Base(sc)[i] ELSE hops[i - Len(Base(sc))]
  <2>1. Base(sc) \in Seq(Cores) /\ hops \in Seq(Cores)
    BY <1>5, BaseRows
  <2> QED
    BY <2>1, ConcatProperties
<1>7. Len(Base(sc)) \in Nat
  BY BaseRows
<1>8. \A i \in 1 .. Len(Base(sc)) : BootCores(sc, p)[i] = Base(sc)[i]
  BY <1>2, <1>3, <1>5, <1>6, <1>7
<1>9. \A k \in 1 .. h - 1 : BootCores(sc, p)[Len(Base(sc)) + k] = hops[k]
  <2> TAKE k \in 1 .. h - 1
  <2>1. /\ Len(Base(sc)) + k \in 1 .. Len(Base(sc)) + Len(hops)
        /\ ~(Len(Base(sc)) + k <= Len(Base(sc))) /\ Len(Base(sc)) + k - Len(Base(sc)) = k
    BY <1>3, <1>5, <1>7
  <2> QED
    BY <1>2, <1>6, <2>1
<1>10. Len(BootCores(sc, p)) = Len(Base(sc)) + h - 1
  BY <1>2, <1>3, <1>5, <1>6, <1>7
<1> QED
  BY <1>1, <1>2, <1>3, <1>5, <1>6, <1>8, <1>9, <1>10

\* A mission starts with a ledger whose chain verifies and whose transitions follow
\* the lattice.
LEMMA BootVerifies ==
    ASSUME NEW sc \in Scenarios, NEW p \in MissionPhase \ {"init", "aborted"}
    PROVE  /\ Bootstrapped(sc, p) \in Rows
           /\ Ledger!ChainVerifies(Bootstrapped(sc, p))
           /\ ValidTransitions(Bootstrapped(sc, p))
<1> DEFINE evs == Bootstrapped(sc, p)
           b == Len(Base(sc))
<1>1. PICK h \in 2 .. 8 :
        /\ BootCores(sc, p) \in Seq(Cores)
        /\ Len(BootCores(sc, p)) = b + h - 1
        /\ \A i \in 1 .. b : BootCores(sc, p)[i] = Base(sc)[i]
        /\ \A k \in 1 .. h - 1 : BootCores(sc, p)[b + k] = Core("phase_transition", LINEAR[k + 1])
  BY BootRows
<1>2. /\ evs \in Rows /\ Ledger!ChainVerifies(evs) /\ Len(evs) = b + h - 1
      /\ \A i \in 1 .. b + h - 1 : evs[i].core = BootCores(sc, p)[i]
  BY <1>1, WrittenVerifies DEF Bootstrapped
<1>3. b \in Nat \ {0}
  BY BaseRows
<1>4. /\ evs[1].core.eventType = "mission_created"
      /\ \A i \in 2 .. b : evs[i].core.eventType \in {"node_join", "node_heartbeat"}
  BY <1>1, <1>2, <1>3, BaseRows
<1>5. \A k \in 1 .. h - 1 : /\ evs[b + k].core.eventType = "phase_transition"
                            /\ evs[b + k].core.subject = LINEAR[k + 1]
  <2> TAKE k \in 1 .. h - 1
  <2>1. b + k \in 1 .. b + h - 1
    BY <1>3
  <2>2. evs[b + k].core = Core("phase_transition", LINEAR[k + 1])
    BY <1>1, <1>2, <2>1
  <2> QED
    BY <2>2 DEF Core
<1> HIDE DEF evs, b
<1>6. ValidTransitions(evs)
  <2> SUFFICES ASSUME NEW i \in 1 .. Len(evs), evs[i].core.eventType = "phase_transition"
               PROVE  evs[i].core.subject \in validVertexNextPhases(Phase(SubSeq(evs, 1, i - 1)))
    BY DEF ValidTransitions
  <2> DEFINE k == i - b
             before == SubSeq(evs, 1, i - 1)
  <2>1. k \in 1 .. h - 1 /\ i = b + k
    BY <1>2, <1>3, <1>4
  <2>2. /\ before \in Rows /\ Len(before) = i - 1
        /\ \A j \in 1 .. i - 1 : before[j] = evs[j]
    <3>1. \A j \in 1 .. i - 1 : evs[j] \in Ledger!LedgerEvent
      BY <1>2, <2>1, <1>3, ElementOfSeq DEF Rows
    <3>2. i - 1 \in Nat /\ i - 1 > 0
      BY <1>3, <2>1
    <3> QED
      BY <3>1, <3>2, SubSeqProperties DEF Rows
  <2> HIDE DEF before
  <2>3. Phase(before) = LINEAR[k]
    <3>1. CASE k = 1
      <4>1. 1 \in 1 .. Len(before) /\ SetsPhase(before[1])
        BY <1>3, <1>4, <2>1, <2>2, <3>1 DEF SetsPhase
      <4>2. \A j \in 2 .. Len(before) : ~SetsPhase(before[j])
        BY <1>3, <1>4, <2>1, <2>2, <3>1 DEF SetsPhase
      <4>3. PhaseOf(before[1].core) = "init"
        BY <1>3, <1>4, <2>1, <2>2, <3>1 DEF PhaseOf
      <4>4. 1 + 1 = 2
        OBVIOUS
      <4> QED
        BY <2>2, <3>1, <4>1, <4>2, <4>3, <4>4, LastSetterDecides, LinearPlaces
    <3>2. CASE k # 1
      <4>1. k - 1 \in 1 .. h - 1 /\ i - 1 = b + (k - 1) /\ i - 1 \in 1 .. Len(before)
        BY <1>3, <2>1, <2>2, <3>2
      <4>2. /\ before[i - 1].core.eventType = "phase_transition"
            /\ before[i - 1].core.subject = LINEAR[(k - 1) + 1]
        BY <1>5, <2>2, <4>1
      <4>3. (k - 1) + 1 = k
        BY <2>1
      <4>4. SetsPhase(before[i - 1]) /\ PhaseOf(before[i - 1].core) = LINEAR[k]
        BY <4>2, <4>3 DEF SetsPhase, PhaseOf
      <4>5. \A j \in (i - 1) + 1 .. Len(before) : FALSE
        BY <2>1, <2>2, <1>3
      <4> QED
        BY <2>2, <4>1, <4>4, <4>5, LastSetterDecides
    <3> QED
      BY <3>1, <3>2
  <2> HIDE DEF k
  <2>4. evs[i].core.subject = LINEAR[k + 1] /\ k \in 1 .. 7
    BY <1>5, <2>1
  <2>5. LINEAR[k + 1] \in validVertexNextPhases(LINEAR[k])
    BY <2>4, PipelineIsValid
  <2> QED
    BY <2>3, <2>4, <2>5 DEF before
<1> QED
  BY <1>2, <1>6 DEF evs

-------------------------------------------------------------------------------
(* The kinds of step. *)

\* What making a call does, whatever the call.
LEMMA CallMade ==
    ASSUME CallsShape, NEW c \in Callers, NEW record \in CallRecord, MakeCall(c, record)
    PROVE  /\ call' = [call EXCEPT ![c] = call'[c]] /\ call'[c] = record
           /\ scenario' = scenario /\ saved' = saved /\ acked' = acked /\ seals' = seals
           /\ Claims(c)
           /\ ~Pending(c)
<1>1. call[c] = NoCall /\ call' = [call EXCEPT ![c] = record]
  BY DEF MakeCall
<1>2. call \in [Callers -> CallRecord] /\ call'[c] = record
  BY <1>1 DEF CallsShape
<1>3. NoCall.kind \in Resting
  BY DEF NoCall, Resting
<1>4. ~Pending(c)
  BY <1>1, <1>3 DEF CallsShape
<1> QED
  BY <1>1, <1>2, <1>4 DEF MakeCall, Claims

\* No call is a record, too; the others are made from it.
LEMMA NoCallRecord == NoCall \in CallRecord /\ NoCall.kind = "idle"
<1>1. "idle" \in Kinds /\ <<>> \in Seq(Cores)
  BY EmptySeq DEF Kinds
<1> QED
  BY <1>1 DEF NoCall, CallRecord

\* The tail hash of a ledger is a hash.
LEMMA TailHashType ==
    ASSUME NEW evs \in Rows
    PROVE  TailHash(evs) \in Seq(Cores)
<1>1. CASE evs = <<>>
  BY <1>1, EmptySeq DEF TailHash, Ledger!TailHash, Ledger!Genesis
<1>2. CASE evs # <<>>
  <2>1. Len(evs) \in 1 .. Len(evs)
    BY <1>2, EmptySeq DEF Rows
  <2>2. evs[Len(evs)] \in Ledger!LedgerEvent
    BY <2>1, ElementOfSeq DEF Rows
  <2> QED
    BY <1>2, <2>2 DEF TailHash, Ledger!TailHash, Ledger!LedgerEvent, Ledger!HashValue
<1> QED
  BY <1>1, <1>2

\* The runtime only appends cores it knows of.
LEMMA CoresKnown ==
    /\ \A t \in PlainTypes : Core(t, "-") \in Cores
    /\ \A n \in Nodes : Core("node_heartbeat", n) \in Cores
    /\ \A l \in Labels : Core("recovery_checkpoint", l) \in Cores
    /\ \A to \in MissionPhase : Core("phase_transition", to) \in Cores
BY DEF Cores

\* A proposal appends a transition that is valid as the ledger stands.
LEMMA ProposalIsValid ==
    ASSUME NEW c \in Callers, ProposeNextPhase(c)
    PROVE  \E core \in Cores :
             /\ Ledger!StartAppend(c, core)
             /\ core.subject \in validVertexNextPhases(Phase(events))
             /\ core.eventType = "phase_transition"
<1> DEFINE to == nominalNextPhase(Phase(events))
<1>1. /\ to \in validVertexNextPhases(Phase(events))
      /\ Ledger!StartAppend(c, Core("phase_transition", to))
  BY DEF ProposeNextPhase
<1> HIDE DEF to
<1>2. Core("phase_transition", to) \in Cores
  BY <1>1, NextPhaseIsPhase, CoresKnown
<1>3. /\ Core("phase_transition", to).subject = to
      /\ Core("phase_transition", to).eventType = "phase_transition"
  BY DEF Core
<1> QED
  BY <1>1, <1>2, <1>3

\* The operator's buttons and the timer.
LEMMA ButtonsAreSteps ==
    ASSUME CallsShape, NEW c \in Callers,
           \/ AdvancePhase(c) \/ FastForward(c) \/ AddTarget(c) \/ AssignDemoTask(c)
           \/ TickHeartbeats(c) \/ \E label \in Labels : RecordCheckpoint(c, label)
    PROVE  Starts(c)
<1> USE DEF Resting
<1>0. /\ "append" \in Kinds /\ "fast" \in Kinds /\ "beat" \in Kinds
      /\ "checkpoint" \in Kinds
  BY DEF Kinds
<1>1. CASE AdvancePhase(c)
  <2> DEFINE record == [NoCall EXCEPT !.kind = "append"]
  <2>1. record \in CallRecord /\ record.kind = "append"
    BY <1>0, NoCallRecord DEF CallRecord
  <2>2. MakeCall(c, record) /\ ProposeNextPhase(c)
    BY <1>1 DEF AdvancePhase
  <2> HIDE DEF record
  <2> QED
    BY <2>1, <2>2, CallMade, ProposalIsValid DEF Starts
<1>2. CASE FastForward(c)
  <2> DEFINE record == [NoCall EXCEPT !.kind = "fast", !.left = MaxFast - 1]
  <2>1. MaxFast - 1 \in Nat
    BY <1>2, RuntimeAssumption DEF FastForward
  <2>2. record \in CallRecord /\ record.kind = "fast"
    BY <1>0, <2>1, NoCallRecord DEF CallRecord
  <2>3. MakeCall(c, record) /\ ProposeNextPhase(c)
    BY <1>2 DEF FastForward
  <2> HIDE DEF record
  <2> QED
    BY <2>2, <2>3, CallMade, ProposalIsValid DEF Starts
<1>3. CASE AddTarget(c) \/ AssignDemoTask(c)
  <2> DEFINE record == [NoCall EXCEPT !.kind = "append"]
  <2>1. record \in CallRecord /\ record.kind = "append"
    BY <1>0, NoCallRecord DEF CallRecord
  <2>2. PICK t \in {"target_discovered", "task_assigned"} :
          MakeCall(c, record) /\ Ledger!StartAppend(c, Core(t, "-"))
    BY <1>3 DEF AddTarget, AssignDemoTask
  <2>3. Core(t, "-") \in Cores /\ Core(t, "-").eventType # "phase_transition"
    BY <2>2, CoresKnown DEF PlainTypes, Core
  <2> HIDE DEF record
  <2> QED
    BY <2>1, <2>2, <2>3, CallMade DEF Starts
<1>4. CASE TickHeartbeats(c)
  <2>1. PICK n \in Roster[scenario] :
          /\ Ledger!StartAppend(c, Core("node_heartbeat", n))
          /\ MakeCall(c, [NoCall EXCEPT !.kind = "beat", !.todo = Roster[scenario] \ {n}])
    BY <1>4 DEF TickHeartbeats
  <2> DEFINE record == [NoCall EXCEPT !.kind = "beat", !.todo = Roster[scenario] \ {n}]
  <2>2. record \in CallRecord /\ record.kind = "beat"
    <3>1. Roster[scenario] \ {n} \in SUBSET Nodes
      BY DEF CallsShape, Nodes
    <3> QED
      BY <1>0, <3>1, NoCallRecord DEF CallRecord
  <2>3. /\ Core("node_heartbeat", n) \in Cores
        /\ Core("node_heartbeat", n).eventType # "phase_transition"
    <3>1. n \in Nodes
      BY DEF CallsShape, Nodes
    <3> QED
      BY <3>1, CoresKnown DEF Core
  <2>4. MakeCall(c, record)
    BY <2>1
  <2> HIDE DEF record
  <2> QED
    BY <2>1, <2>2, <2>3, <2>4, CallMade DEF Starts
<1>5. CASE \E label \in Labels : RecordCheckpoint(c, label)
  <2>1. PICK l \in Labels : RecordCheckpoint(c, l)
    BY <1>5
  <2> DEFINE record == [NoCall EXCEPT !.kind = "checkpoint", !.label = l]
  <2>2. record \in CallRecord /\ record.kind = "checkpoint" /\ record.label = l
    BY <1>0, NoCallRecord DEF CallRecord
  <2>3. MakeCall(c, record) /\ Ledger!StartAppend(c, Core("recovery_checkpoint", l))
    BY <2>1 DEF RecordCheckpoint
  <2>4. /\ Core("recovery_checkpoint", l) \in Cores
        /\ Core("recovery_checkpoint", l).eventType # "phase_transition"
    BY CoresKnown DEF Core
  <2> HIDE DEF record
  <2> QED
    BY <2>2, <2>3, <2>4, CallMade DEF Starts
<1> QED
  BY <1>1, <1>2, <1>3, <1>4, <1>5

\* What returning does.
LEMMA Returned ==
    ASSUME CallsShape, NEW c \in Callers, Return(c)
    PROVE  /\ call' = [call EXCEPT ![c] = call'[c]]
           /\ call'[c] \in CallRecord /\ call'[c].kind = "idle"
BY NoCallRecord DEF CallsShape, Return

\* A call that goes on with its next append.
LEMMA ResumptionsAreSteps ==
    ASSUME CallsShape, NEW c \in Callers,
           \/ NextHeartbeat(c) \/ NextFastForward(c) \/ AppendSeal(c) \/ AppendAnchor(c)
    PROVE  Starts(c) \/ Rests(c)
<1> USE DEF Resting
<1>0. /\ call \in [Callers -> CallRecord] /\ call[c] \in CallRecord
      /\ "sealed" \in Kinds /\ "anchored" \in Kinds
  BY DEF CallsShape, Kinds
<1>1. /\ scenario' = scenario /\ saved' = saved /\ acked' = acked /\ seals' = seals
      /\ overlapped' = overlapped
      /\ ~Pending(c)
      /\ call[c].kind \in {"beat", "fast", "rewarded", "sealed"}
  BY DEF NextHeartbeat, NextFastForward, AppendSeal, AppendAnchor, Resumes, Pending
<1>2. Claims(c)
  BY <1>1, NoCallRecord DEF Claims
<1>3. ASSUME Return(c), events' = events, inflight' = inflight
      PROVE  Rests(c)
  BY <1>1, <1>2, <1>3, Returned DEF Rests
<1>4. CASE NextHeartbeat(c)
  <2>1. CASE call[c].todo = {}
    BY <1>3, <1>4, <2>1 DEF NextHeartbeat
  <2>2. CASE call[c].todo # {}
    <3>1. PICK n \in call[c].todo :
            /\ Ledger!StartAppend(c, Core("node_heartbeat", n))
            /\ call' = [call EXCEPT ![c].todo = @ \ {n}]
      BY <1>4, <2>2 DEF NextHeartbeat
    <3>2. n \in Nodes /\ call[c].kind = "beat"
      BY <1>0, <1>4, <3>1 DEF CallRecord, NextHeartbeat, Resumes
    <3>3. /\ Core("node_heartbeat", n) \in Cores
          /\ Core("node_heartbeat", n).eventType # "phase_transition"
      BY <3>2, CoresKnown DEF Core
    <3>4. /\ call' = [call EXCEPT ![c] = call'[c]]
          /\ call'[c] \in CallRecord /\ call'[c].kind = "beat"
      BY <1>0, <3>1, <3>2 DEF CallRecord
    <3> QED
      BY <1>1, <1>2, <3>1, <3>3, <3>4 DEF Starts
  <2> QED
    BY <2>1, <2>2
<1>5. CASE NextFastForward(c)
  <2>1. CASE Return(c) /\ events' = events /\ inflight' = inflight
    BY <1>3, <2>1
  <2>2. CASE /\ call[c].left > 0 /\ ProposeNextPhase(c)
             /\ call' = [call EXCEPT ![c].left = @ - 1]
    <3>1. call[c].kind = "fast"
      BY <1>5 DEF NextFastForward, Resumes
    <3>2. /\ call' = [call EXCEPT ![c] = call'[c]]
          /\ call'[c] \in CallRecord /\ call'[c].kind = "fast"
      <4>1. call[c].left - 1 \in Nat
        BY <1>0, <2>2 DEF CallRecord
      <4>2. call'[c] = [call[c] EXCEPT !.left = call[c].left - 1]
        BY <1>0, <2>2
      <4>3. [call[c] EXCEPT !.left = call[c].left - 1] \in CallRecord
        BY <1>0, <4>1 DEF CallRecord
      <4>4. [call[c] EXCEPT !.left = call[c].left - 1].kind = "fast"
        BY <1>0, <3>1 DEF CallRecord
      <4>5. call' = [call EXCEPT ![c] = call'[c]]
        BY <1>0, <2>2
      <4> QED
        BY <4>2, <4>3, <4>4, <4>5
    <3> QED
      BY <1>1, <1>2, <2>2, <3>2, ProposalIsValid DEF Starts
  <2> QED
    BY <1>5, <2>1, <2>2 DEF NextFastForward
<1>6. CASE AppendSeal(c)
  <2>1. /\ Ledger!StartAppend(c, Core("settlement_manifest_sealed", "-"))
        /\ call' = [call EXCEPT ![c].kind = "sealed"] /\ call[c].kind = "rewarded"
    BY <1>6 DEF AppendSeal, Resumes
  <2>2. /\ Core("settlement_manifest_sealed", "-") \in Cores
        /\ Core("settlement_manifest_sealed", "-").eventType # "phase_transition"
    BY CoresKnown DEF PlainTypes, Core
  <2>3. /\ call' = [call EXCEPT ![c] = call'[c]]
        /\ call'[c] \in CallRecord /\ call'[c].kind = "sealed" /\ call'[c].root = call[c].root
    BY <1>0, <2>1 DEF CallRecord
  <2> QED
    BY <1>1, <1>2, <2>1, <2>2, <2>3 DEF Starts
<1>7. CASE AppendAnchor(c)
  <2>1. /\ Ledger!StartAppend(c, Core("proof_anchored", "-"))
        /\ call' = [call EXCEPT ![c].kind = "anchored"]
    BY <1>7 DEF AppendAnchor
  <2>2. /\ Core("proof_anchored", "-") \in Cores
        /\ Core("proof_anchored", "-").eventType # "phase_transition"
    BY CoresKnown DEF PlainTypes, Core
  <2>3. /\ call' = [call EXCEPT ![c] = call'[c]]
        /\ call'[c] \in CallRecord /\ call'[c].kind = "anchored"
    BY <1>0, <2>1 DEF CallRecord
  <2> QED
    BY <1>1, <1>2, <2>1, <2>2, <2>3 DEF Starts
<1> QED
  BY <1>4, <1>5, <1>6, <1>7

\* A call that goes on without an append.
LEMMA QuietStepsRest ==
    ASSUME CallsShape, NEW c \in Callers,
           SealSettlement(c) \/ BuildRewards(c) \/ PersistCheckpoint(c)
    PROVE  Rests(c)
<1> USE DEF Resting
<1>0. /\ call \in [Callers -> CallRecord] /\ call[c] \in CallRecord
      /\ "sealing" \in Kinds /\ "rewarded" \in Kinds
  BY DEF CallsShape, Kinds
<1>1. CASE SealSettlement(c)
  <2> DEFINE record == [NoCall EXCEPT !.kind = "sealing", !.root = TailHash(events)]
  <2>1. TailHash(events) \in Seq(Cores)
    BY TailHashType DEF CallsShape
  <2>2. record \in CallRecord /\ record.kind = "sealing" /\ record.root = TailHash(events)
    BY <1>0, <2>1, NoCallRecord DEF CallRecord
  <2>3. /\ Settleable(events) /\ MakeCall(c, record)
        /\ events' = events /\ inflight' = inflight
    BY <1>1 DEF SealSettlement
  <2> HIDE DEF record
  <2> QED
    BY <2>2, <2>3, CallMade DEF Rests
<1>2. CASE BuildRewards(c) \/ PersistCheckpoint(c)
  <2>1. /\ scenario' = scenario
        /\ overlapped' = overlapped /\ ~Pending(c) /\ events' = events
        /\ inflight' = inflight /\ seals' = seals
        /\ call[c].kind \in {"sealing", "checkpoint"}
    BY <1>2 DEF BuildRewards, PersistCheckpoint, Resumes, Pending
  <2>2. Claims(c)
    BY <2>1, NoCallRecord DEF Claims
  <2>3. CASE PersistCheckpoint(c)
    BY <2>1, <2>2, <2>3, Returned DEF PersistCheckpoint, LedgerCopy, Resumes, Rests
  <2>4. CASE BuildRewards(c)
    <3>1. saved' = saved /\ acked' = acked /\ call[c].kind = "sealing"
      BY <2>4 DEF BuildRewards, Resumes
    <3>2. CASE Settleable(events)
      <4>1. call' = [call EXCEPT ![c].kind = "rewarded"]
        BY <2>4, <3>2 DEF BuildRewards
      <4>2. /\ call' = [call EXCEPT ![c] = call'[c]] /\ call'[c] \in CallRecord
            /\ call'[c].kind = "rewarded" /\ call'[c].root = call[c].root
        BY <1>0, <4>1 DEF CallRecord
      <4> QED
        BY <2>1, <2>2, <3>1, <3>2, <4>2 DEF Rests
    <3>3. CASE ~Settleable(events)
      BY <2>1, <2>2, <2>4, <3>1, <3>3, Returned DEF BuildRewards, Rests
    <3> QED
      BY <3>2, <3>3
  <2> QED
    BY <1>2, <2>3, <2>4
<1> QED
  BY <1>1, <1>2

\* Every action is a step of one of four kinds.
LEMMA EveryStep ==
    ASSUME CallsShape, Next
    PROVE  \/ Reload
           \/ \E c \in Callers : Starts(c) \/ Rests(c) \/ AppendDone(c)
BY ButtonsAreSteps, ResumptionsAreSteps, QuietStepsRest DEF Next, Resume
-------------------------------------------------------------------------------
(* The invariant. *)

\* A beginning of a ledger that verifies verifies, with valid transitions.
LEMMA BeginningVerifies ==
    ASSUME NEW s \in Rows, NEW t \in Rows, Begins(s, t)
    PROVE  /\ s = SubSeq(t, 1, Len(s)) /\ Len(s) \in 0 .. Len(t)
           /\ Ledger!ChainVerifies(t) => Ledger!ChainVerifies(s)
           /\ ValidTransitions(t) => ValidTransitions(s)
<1>1. Len(s) \in Nat /\ Len(t) \in Nat /\ Len(s) \in 0 .. Len(t)
  BY DEF Rows, Begins
<1>2. \A i \in 0 .. Len(s) : SubSeq(s, 1, i) = SubSeq(t, 1, i)
  <2> TAKE i \in 0 .. Len(s)
  <2>1. \A j \in 1 .. i : s[j] \in Ledger!LedgerEvent /\ t[j] \in Ledger!LedgerEvent /\ s[j] = t[j]
    BY <1>1, ElementOfSeq DEF Rows, Begins
  <2>2. /\ SubSeq(s, 1, i) \in Rows /\ Len(SubSeq(s, 1, i)) = i
        /\ \A j \in 1 .. i : SubSeq(s, 1, i)[j] = s[j]
    BY <1>1, <2>1, SubSeqProperties DEF Rows
  <2>3. /\ SubSeq(t, 1, i) \in Rows /\ Len(SubSeq(t, 1, i)) = i
        /\ \A j \in 1 .. i : SubSeq(t, 1, i)[j] = t[j]
    BY <1>1, <2>1, SubSeqProperties DEF Rows
  <2> QED
    BY <2>1, <2>2, <2>3, SeqEqual DEF Rows
<1>3. SubSeq(s, 1, Len(s)) = s
  BY SubSeqFull DEF Rows
<1>4. s = SubSeq(t, 1, Len(s))
  BY <1>1, <1>2, <1>3
<1>5. ASSUME Ledger!ChainVerifies(t) PROVE Ledger!ChainVerifies(s)
  <2> SUFFICES ASSUME NEW i \in 1 .. Len(s)
               PROVE  /\ s[i].previousHash = IF i = 1 THEN <<>> ELSE s[i - 1].eventHash
                      /\ s[i].eventHash = Append(s[i].previousHash, s[i].core)
    BY DEF Ledger!ChainVerifies, Ledger!Genesis, Ledger!Hash
  <2>1. /\ i \in 1 .. Len(t) /\ s[i] = t[i]
        /\ i # 1 => i - 1 \in 1 .. Len(s)
    BY <1>1 DEF Begins
  <2>2. i # 1 => s[i - 1] = t[i - 1]
    BY <2>1 DEF Begins
  <2> QED
    BY <1>5, <2>1, <2>2 DEF Ledger!ChainVerifies, Ledger!Genesis, Ledger!Hash
<1>6. ASSUME ValidTransitions(t) PROVE ValidTransitions(s)
  <2> SUFFICES ASSUME NEW i \in 1 .. Len(s), s[i].core.eventType = "phase_transition"
               PROVE  s[i].core.subject \in validVertexNextPhases(Phase(SubSeq(s, 1, i - 1)))
    BY DEF ValidTransitions
  <2>1. i \in 1 .. Len(t) /\ s[i] = t[i] /\ i - 1 \in 0 .. Len(s)
    BY <1>1 DEF Begins
  <2>2. SubSeq(s, 1, i - 1) = SubSeq(t, 1, i - 1)
    BY <1>2, <2>1
  <2> QED
    BY <1>6, <2>1, <2>2 DEF ValidTransitions
<1> QED
  BY <1>1, <1>4, <1>5, <1>6

\* A row appended with the tail's hash, and a valid phase if it sets one, keeps
\* both.
LEMMA AppendedVerifies ==
    ASSUME NEW evs \in Rows, NEW input \in Ledger!Input
    PROVE  LET after == Append(evs, Ledger!Event(input)) IN
           /\ after \in Rows /\ Len(after) = Len(evs) + 1
           /\ Begins(evs, after)
           /\ after[Len(evs) + 1].core = input.core
           /\ Ledger!ChainVerifies(evs) /\ input.previousHash = TailHash(evs)
                => Ledger!ChainVerifies(after)
           /\ /\ ValidTransitions(evs)
              /\ input.core.eventType = "phase_transition" =>
                   input.core.subject \in validVertexNextPhases(Phase(evs))
              => ValidTransitions(after)
<1> DEFINE row == Ledger!Event(input)
           after == Append(evs, row)
           n == Len(evs)
<1>1. /\ row \in Ledger!LedgerEvent
      /\ row.core = input.core /\ row.previousHash = input.previousHash
      /\ row.eventHash = Append(row.previousHash, row.core)
  BY DEF Ledger!Event, Ledger!Input, Ledger!LedgerEvent, Ledger!HashValue, Ledger!Hash
<1> HIDE DEF row
<1>2. /\ n \in Nat /\ after \in Rows /\ Len(after) = n + 1 /\ after[n + 1] = row
      /\ \A i \in 1 .. n : after[i] = evs[i]
  BY <1>1 DEF Rows
<1>3. evs = <<>> <=> n = 0
  BY EmptySeq DEF Rows
<1> HIDE DEF after
<1>4. ASSUME Ledger!ChainVerifies(evs), input.previousHash = TailHash(evs)
      PROVE  Ledger!ChainVerifies(after)
  <2> SUFFICES ASSUME NEW i \in 1 .. n + 1
               PROVE  /\ after[i].previousHash = IF i = 1 THEN <<>> ELSE after[i - 1].eventHash
                      /\ after[i].eventHash = Append(after[i].previousHash, after[i].core)
    BY <1>2 DEF Ledger!ChainVerifies, Ledger!Genesis, Ledger!Hash
  <2>1. CASE i \in 1 .. n
    <3>1. after[i] = evs[i] /\ (i # 1 => after[i - 1] = evs[i - 1])
      BY <1>2, <2>1
    <3> QED
      BY <1>4, <2>1, <3>1 DEF Ledger!ChainVerifies, Ledger!Genesis, Ledger!Hash
  <2>2. CASE i = n + 1
    <3>1. after[i] = row
      BY <1>2, <2>2
    <3>2. CASE n = 0
      <4>1. i = 1
        BY <2>2, <3>2
      <4>2. evs = <<>>
        BY <1>3, <3>2
      <4>3. TailHash(evs) = <<>>
        BY <4>2 DEF TailHash, Ledger!TailHash, Ledger!Genesis
      <4> QED
        BY <1>1, <1>4, <3>1, <4>1, <4>3
    <3>3. CASE n # 0
      <4>1. i # 1 /\ i - 1 = n /\ after[n] = evs[n]
        BY <1>2, <2>2, <3>3
      <4> QED
        BY <1>1, <1>3, <1>4, <3>1, <3>3, <4>1 DEF TailHash, Ledger!TailHash
    <3> QED
      BY <3>2, <3>3
  <2> QED
    BY <1>2, <2>1, <2>2
<1>5. \A i \in 1 .. n + 1 : SubSeq(after, 1, i - 1) = SubSeq(evs, 1, i - 1)
  <2> TAKE i \in 1 .. n + 1
  <2>1. \A j \in 1 .. i - 1 : /\ after[j] \in Ledger!LedgerEvent
                              /\ evs[j] \in Ledger!LedgerEvent /\ after[j] = evs[j]
    BY <1>2, ElementOfSeq DEF Rows
  <2>2. /\ SubSeq(after, 1, i - 1) \in Rows /\ Len(SubSeq(after, 1, i - 1)) = i - 1
        /\ \A j \in 1 .. i - 1 : SubSeq(after, 1, i - 1)[j] = after[j]
    BY <1>2, <2>1, SubSeqProperties DEF Rows
  <2>3. /\ SubSeq(evs, 1, i - 1) \in Rows /\ Len(SubSeq(evs, 1, i - 1)) = i - 1
        /\ \A j \in 1 .. i - 1 : SubSeq(evs, 1, i - 1)[j] = evs[j]
    BY <1>2, <2>1, SubSeqProperties DEF Rows
  <2> QED
    BY <2>1, <2>2, <2>3, SeqEqual DEF Rows
<1>6. ASSUME ValidTransitions(evs),
             input.core.eventType = "phase_transition" =>
               input.core.subject \in validVertexNextPhases(Phase(evs))
      PROVE  ValidTransitions(after)
  <2> SUFFICES ASSUME NEW i \in 1 .. n + 1, after[i].core.eventType = "phase_transition"
               PROVE  after[i].core.subject
                        \in validVertexNextPhases(Phase(SubSeq(after, 1, i - 1)))
    BY <1>2 DEF ValidTransitions
  <2>1. CASE i \in 1 .. n
    BY <1>2, <1>5, <1>6, <2>1 DEF ValidTransitions
  <2>2. CASE i = n + 1
    <3>1. SubSeq(evs, 1, i - 1) = evs
      <4>1. i - 1 = Len(evs)
        BY <1>2, <2>2
      <4> QED
        BY <4>1, SubSeqFull DEF Rows
    <3> QED
      BY <1>1, <1>2, <1>5, <1>6, <2>2, <3>1
  <2> QED
    BY <1>2, <2>1, <2>2
<1>7. Begins(evs, after)
  BY <1>2 DEF Begins
<1> QED
  BY <1>1, <1>2, <1>4, <1>6, <1>7 DEF after, row

\* Everything is in order when the page opens.
LEMMA RuntimeInit == Init => RuntimeInv
<1> SUFFICES ASSUME Init PROVE RuntimeInv
  OBVIOUS
<1>0. scenario \in Scenarios
  BY DEF Init
<1>1. PICK p \in StartPhases : events = Bootstrapped(scenario, p)
  BY DEF Init
<1>2. p \in MissionPhase \ {"init", "aborted"}
  BY RuntimeAssumption
<1>3. /\ events \in Rows /\ Ledger!ChainVerifies(events) /\ ValidTransitions(events)
  BY <1>0, <1>1, <1>2, BootVerifies
<1>4. /\ inflight = [c \in Callers |-> <<>>] /\ call = [c \in Callers |-> NoCall]
      /\ saved = <<>> /\ acked = {} /\ seals = {}
  BY DEF Init
<1>5. \A c \in Callers : ~Pending(c) /\ call[c] = NoCall /\ call[c].kind = "idle"
  BY <1>4, NoCallRecord DEF Pending
<1>6. CallsShape
  <2>1. call \in [Callers -> CallRecord]
    BY <1>4, NoCallRecord
  <2>2. inflight = [c \in Callers |-> inflight[c]]
    BY <1>4
  <2> QED
    BY <1>0, <1>3, <1>5, <2>1, <2>2 DEF CallsShape
<1>7. CheckpointShape
  BY <1>3, <1>4, <1>5 DEF CheckpointShape
<1>8. Serial
  BY <1>3, <1>4, <1>5 DEF Serial
<1> QED
  BY <1>6, <1>7, <1>8 DEF RuntimeInv

\* What starting an append changes.
LEMMA Started ==
    ASSUME CallsShape, NEW c \in Callers, Starts(c)
    PROVE  \E core \in Cores :
             /\ events' = events
             /\ inflight' = [inflight EXCEPT
                               ![c] = <<[previousHash |-> TailHash(events), core |-> core]>>]
             /\ Pending(c)' /\ inflight'[c][1].previousHash = TailHash(events)
             /\ inflight'[c][1].core = core /\ inflight'[c][1] \in Ledger!Input
             /\ \A d \in Callers : d # c => inflight'[d] = inflight[d]
             /\ core.eventType = "phase_transition" =>
                  core.subject \in validVertexNextPhases(Phase(events))
             /\ call'[c].kind = "checkpoint" =>
                  core = Core("recovery_checkpoint", call'[c].label)
<1>1. PICK core \in Cores :
        /\ Ledger!StartAppend(c, core)
        /\ core.eventType = "phase_transition" =>
             core.subject \in validVertexNextPhases(Phase(events))
        /\ call'[c].kind = "checkpoint" => core = Core("recovery_checkpoint", call'[c].label)
  BY DEF Starts
<1> DEFINE input == [previousHash |-> TailHash(events), core |-> core]
<1>2. /\ events' = events /\ inflight' = [inflight EXCEPT ![c] = <<input>>]
  BY <1>1 DEF Ledger!StartAppend, TailHash
<1>3. input \in Ledger!Input /\ input.previousHash = TailHash(events) /\ input.core = core
  BY TailHashType DEF CallsShape, Ledger!Input, Ledger!HashValue
<1>4. inflight = [d \in Callers |-> inflight[d]]
  BY DEF CallsShape
<1> HIDE DEF input
<1>5. inflight'[c] = <<input>> /\ \A d \in Callers : d # c => inflight'[d] = inflight[d]
  BY <1>2, <1>4
<1>6. <<input>> # <<>> /\ <<input>>[1] = input
  OBVIOUS
<1> QED
  BY <1>1, <1>2, <1>3, <1>5, <1>6 DEF Pending, input

\* What the end of an append changes.
LEMMA Appended ==
    ASSUME CallsShape, NEW c \in Callers, AppendDone(c)
    PROVE  /\ Pending(c) /\ inflight[c][1] \in Ledger!Input
           /\ events' = Append(events, Ledger!Event(inflight[c][1]))
           /\ events' \in Rows
           /\ Begins(events, events')
           /\ events'[Len(events) + 1].core = inflight[c][1].core
           /\ Len(events') = Len(events) + 1
           /\ inflight' = [inflight EXCEPT ![c] = <<>>] /\ ~Pending(c)'
           /\ \A d \in Callers : d # c => inflight'[d] = inflight[d] /\ call'[d] = call[d]
           /\ call' \in [Callers -> CallRecord]
           /\ call'[c] = NoCall \/ (call'[c] = call[c] /\ call[c].kind \notin Resting)
           /\ scenario' = scenario
           /\ saved' = saved /\ acked' = acked /\ overlapped' = overlapped
           /\ seals' = seals \/ (call[c].kind = "sealed" /\ seals' = seals \cup {SealRecord(c)})
<1>1. /\ inflight[c] # <<>>
      /\ events' = Append(events, Ledger!Event(inflight[c][1]))
      /\ inflight' = [inflight EXCEPT ![c] = <<>>]
  BY DEF AppendDone, Ledger!FinishAppend, Ledger!Idle, Ledger!InputOf
<1>2. /\ inflight = [d \in Callers |-> inflight[d]] /\ call \in [Callers -> CallRecord]
      /\ events \in Rows /\ inflight[c][1] \in Ledger!Input
      /\ call[c].kind \notin Resting
  BY <1>1 DEF CallsShape, Pending
<1>3. /\ events' \in Rows /\ Begins(events, events') /\ Len(events') = Len(events) + 1
      /\ events'[Len(events) + 1].core = inflight[c][1].core
  BY <1>1, <1>2, AppendedVerifies
<1>4. inflight'[c] = <<>> /\ \A d \in Callers : d # c => inflight'[d] = inflight[d]
  BY <1>1, <1>2
<1>5. \/ call' = call
      \/ call' = [call EXCEPT ![c] = NoCall]
  BY DEF AppendDone, Return
<1>6. /\ \A d \in Callers : d # c => call'[d] = call[d]
      /\ call' \in [Callers -> CallRecord]
      /\ call'[c] = NoCall \/ call'[c] = call[c]
  BY <1>2, <1>5, NoCallRecord
<1>7. /\ scenario' = scenario
      /\ saved' = saved /\ acked' = acked /\ overlapped' = overlapped
      /\ seals' = seals \/ (call[c].kind = "sealed" /\ seals' = seals \cup {SealRecord(c)})
  BY DEF AppendDone
<1> QED
  BY <1>1, <1>2, <1>3, <1>4, <1>6, <1>7 DEF Pending

\* The call record of c is the only one a start or a rest changes.
LEMMA OneCallChanges ==
    ASSUME CallsShape, NEW c \in Callers, Starts(c) \/ Rests(c)
    PROVE  /\ call' \in [Callers -> CallRecord]
           /\ \A d \in Callers : d # c => call'[d] = call[d]
<1>1. call' = [call EXCEPT ![c] = call'[c]] /\ call'[c] \in CallRecord
  BY DEF Starts, Rests
<1>2. call \in [Callers -> CallRecord]
  BY DEF CallsShape
<1>3. call' = [d \in Callers |-> IF d = c THEN call'[c] ELSE call[d]]
  BY <1>1, <1>2
<1> QED
  BY <1>1, <1>2, <1>3

\* Reloading drops the calls, and goes back to a beginning of the ledger or starts
\* a new mission.
LEMMA Reloaded ==
    ASSUME RuntimeInv, Reload
    PROVE  /\ events' \in Rows
           /\ \/ /\ Begins(events', events)
                 /\ scenario = PageScenario
                 /\ saved' = saved /\ saved # <<>> /\ events' = saved[1].events
              \/ /\ NewMission
                 /\ Ledger!ChainVerifies(events') /\ ValidTransitions(events')
                 /\ saved' = <<>> /\ \A a \in acked : a.scenario # PageScenario
           /\ scenario' = PageScenario
           /\ inflight' = [c \in Callers |-> <<>>] /\ call' = [c \in Callers |-> NoCall]
           /\ \A c \in Callers : ~Pending(c)' /\ call'[c] = NoCall /\ call'[c].kind = "idle"
           /\ acked' = acked /\ seals' = seals /\ overlapped' = overlapped
<1>1. /\ scenario' = PageScenario
      /\ inflight' = [c \in Callers |-> <<>>] /\ call' = [c \in Callers |-> NoCall]
      /\ acked' = acked /\ seals' = seals /\ overlapped' = overlapped
  BY DEF Reload, TryRestoreSession, NewMission, SavedMission
<1>2. "discovery" \in MissionPhase \ {"init", "aborted"}
  BY LinearPlaces DEF MissionPhase
<1>3. CASE saved # <<>> /\ saved[1].scenario = PageScenario
  <2>1. events' = saved[1].events /\ saved' = saved
    BY <1>3 DEF Reload, TryRestoreSession, SavedMission
  <2>2. events' \in Rows /\ Begins(events', events) /\ scenario = PageScenario
    BY <1>3, <2>1 DEF RuntimeInv, CheckpointShape
  <2>3. \A c \in Callers : ~Pending(c)' /\ call'[c] = NoCall /\ call'[c].kind = "idle"
    BY <1>1, NoCallRecord DEF Pending
  <2> QED
    BY <1>1, <1>3, <2>1, <2>2, <2>3
<1>4. CASE ~(saved # <<>> /\ saved[1].scenario = PageScenario)
  <2>1. NewMission /\ saved' = <<>>
    BY <1>4 DEF Reload, TryRestoreSession
  <2>2. /\ events' \in Rows
        /\ Ledger!ChainVerifies(events') /\ ValidTransitions(events')
    BY <1>2, <2>1, RuntimeAssumption, BootVerifies DEF NewMission
  <2>3. \A a \in acked : a.scenario # PageScenario
    BY <1>4 DEF RuntimeInv, CheckpointShape
  <2>4. \A c \in Callers : ~Pending(c)' /\ call'[c] = NoCall /\ call'[c].kind = "idle"
    BY <1>1, NoCallRecord DEF Pending
  <2> QED
    BY <1>1, <2>1, <2>2, <2>3, <2>4
<1> QED
  BY <1>3, <1>4

\* Every step keeps the shape of calls.
LEMMA CallsShapeKept ==
    ASSUME RuntimeInv, Next
    PROVE  CallsShape'
<1>0. CallsShape
  BY DEF RuntimeInv
<1>1. CASE Reload
  <2>1. call' \in [Callers -> CallRecord] /\ inflight' = [c \in Callers |-> inflight'[c]]
    BY <1>1, Reloaded, NoCallRecord
  <2> QED
    BY <1>1, <2>1, Reloaded, RuntimeAssumption DEF CallsShape
<1>2. ASSUME NEW c \in Callers, Starts(c) PROVE CallsShape'
  <2>1. /\ events' = events /\ inflight'[c][1] \in Ledger!Input
        /\ \A d \in Callers : d # c => inflight'[d] = inflight[d]
        /\ \E x : inflight' = [inflight EXCEPT ![c] = x]
    BY <1>0, <1>2, Started
  <2>2. inflight' = [d \in Callers |-> inflight'[d]]
    BY <1>0, <2>1 DEF CallsShape
  <2>3. /\ call' \in [Callers -> CallRecord]
        /\ \A d \in Callers : d # c => call'[d] = call[d]
    BY <1>0, <1>2, OneCallChanges
  <2>4. call'[c].kind \notin Resting /\ scenario' = scenario
    BY <1>2 DEF Starts
  <2>5. \A d \in Callers : Pending(d)' => inflight'[d][1] \in Ledger!Input
    BY <1>0, <2>1 DEF CallsShape, Pending
  <2>6. \A d \in Callers : call'[d].kind \in Resting => ~Pending(d)'
    BY <1>0, <2>1, <2>3, <2>4 DEF CallsShape, Pending
  <2> QED
    BY <1>0, <2>1, <2>2, <2>3, <2>4, <2>5, <2>6 DEF CallsShape
<1>3. ASSUME NEW c \in Callers, Rests(c) PROVE CallsShape'
  <2>1. /\ call' \in [Callers -> CallRecord]
        /\ \A d \in Callers : d # c => call'[d] = call[d]
    BY <1>0, <1>3, OneCallChanges
  <2>2. scenario' = scenario /\ events' = events /\ inflight' = inflight /\ ~Pending(c)
    BY <1>3 DEF Rests
  <2> QED
    BY <1>0, <2>1, <2>2 DEF CallsShape, Pending
<1>4. ASSUME NEW c \in Callers, AppendDone(c) PROVE CallsShape'
  <2>1. /\ events' \in Rows /\ inflight' = [inflight EXCEPT ![c] = <<>>] /\ ~Pending(c)'
        /\ \A d \in Callers : d # c => inflight'[d] = inflight[d] /\ call'[d] = call[d]
        /\ call' \in [Callers -> CallRecord] /\ scenario' = scenario
    BY <1>0, <1>4, Appended
  <2>2. inflight' = [d \in Callers |-> inflight'[d]]
    BY <1>0, <2>1 DEF CallsShape
  <2>3. \A d \in Callers : Pending(d)' => inflight'[d][1] \in Ledger!Input
    BY <1>0, <2>1 DEF CallsShape, Pending
  <2>4. \A d \in Callers : call'[d].kind \in Resting => ~Pending(d)'
    BY <1>0, <2>1 DEF CallsShape, Pending
  <2> QED
    BY <1>0, <2>1, <2>2, <2>3, <2>4 DEF CallsShape
<1> QED
  BY <1>0, <1>1, <1>2, <1>3, <1>4, EveryStep

\* A beginning's checkpoints are in the ledger, and beginnings are transitive.
LEMMA BeginningHolds ==
    ASSUME NEW s \in Rows, NEW t \in Rows, NEW u \in Rows, Begins(s, t), Begins(t, u), NEW l
    PROVE  /\ Holds(s, l) => Holds(t, l)
           /\ Begins(s, u)
<1>1. Len(s) \in Nat /\ Len(t) \in Nat /\ Len(u) \in Nat
  BY DEF Rows
<1> QED
  BY <1>1 DEF Begins, Holds

\* A ledger begins with itself.
LEMMA BeginsReflexive ==
    ASSUME NEW s \in Rows
    PROVE  Begins(s, s)
BY DEF Begins, Rows

\* Every step keeps what checkpoints cover.
LEMMA CheckpointShapeKept ==
    ASSUME RuntimeInv, Next
    PROVE  CheckpointShape'
<1>0. CallsShape /\ CheckpointShape /\ events \in Rows
  BY DEF RuntimeInv, CallsShape
<1>1. CASE Reload
  <2>1. /\ \A c \in Callers : call'[c].kind = "idle"
        /\ acked' = acked /\ scenario' = PageScenario /\ events' \in Rows
        /\ \/ /\ scenario = PageScenario
              /\ saved' = saved /\ saved # <<>> /\ events' = saved[1].events
           \/ saved' = <<>> /\ \A a \in acked : a.scenario # PageScenario
    BY <1>1, Reloaded
  <2>2. Begins(events', events')
    BY <2>1, BeginsReflexive
  <2> QED
    BY <1>0, <2>1, <2>2 DEF CheckpointShape
<1>2. ASSUME NEW c \in Callers, Starts(c) PROVE CheckpointShape'
  <2>1. /\ events' = events /\ Pending(c)'
        /\ call'[c].kind = "checkpoint" =>
             inflight'[c][1].core = Core("recovery_checkpoint", call'[c].label)
        /\ \A d \in Callers : d # c => inflight'[d] = inflight[d]
    BY <1>0, <1>2, Started
  <2>2. \A d \in Callers : d # c => call'[d] = call[d]
    BY <1>0, <1>2, OneCallChanges
  <2>3. saved' = saved /\ acked' = acked /\ scenario' = scenario
    BY <1>2 DEF Starts
  <2>4. ASSUME NEW d \in Callers, call'[d].kind = "checkpoint"
        PROVE  IF Pending(d)' THEN inflight'[d][1].core = Core("recovery_checkpoint", call'[d].label)
               ELSE Holds(events', call'[d].label)
    <3>1. CASE d = c
      BY <2>1, <2>4, <3>1
    <3>2. CASE d # c
      BY <1>0, <2>1, <2>2, <2>4, <3>2 DEF CheckpointShape, Pending
    <3> QED
      BY <3>1, <3>2
  <2> QED
    BY <1>0, <2>1, <2>3, <2>4 DEF CheckpointShape
<1>3. ASSUME NEW c \in Callers, Rests(c) PROVE CheckpointShape'
  <2>1. \A d \in Callers : d # c => call'[d] = call[d]
    BY <1>0, <1>3, OneCallChanges
  <2>2. /\ scenario' = scenario /\ events' = events /\ inflight' = inflight
        /\ ~Pending(c) /\ call'[c].kind # "checkpoint"
    BY <1>3 DEF Rests, Resting
  <2>3. ASSUME NEW d \in Callers, call'[d].kind = "checkpoint"
        PROVE  IF Pending(d)' THEN inflight'[d][1].core = Core("recovery_checkpoint", call'[d].label)
               ELSE Holds(events', call'[d].label)
    BY <1>0, <2>1, <2>2, <2>3 DEF CheckpointShape, Pending
  <2>4. CASE saved' = saved /\ acked' = acked
    BY <1>0, <2>2, <2>3, <2>4 DEF CheckpointShape
  <2>5. CASE /\ call[c].kind = "checkpoint"
             /\ saved' = <<[scenario |-> scenario, events |-> events]>>
             /\ acked' = acked \cup {[label |-> call[c].label, scenario |-> scenario]}
    <3>1. saved' # <<>> /\ saved'[1].scenario = scenario /\ saved'[1].events = events
      BY <2>5
    <3>2. Begins(events, events)
      BY <1>0, BeginsReflexive
    <3>3. Holds(events, call[c].label)
      BY <1>0, <2>2, <2>5 DEF CheckpointShape
    <3>4. \A a \in acked : a.scenario = scenario => Holds(events, a.label)
      BY <1>0, <3>2, BeginningHolds DEF CheckpointShape
    <3>5. \A a \in acked' : a.scenario = scenario => Holds(events, a.label)
      BY <2>5, <3>3, <3>4
    <3>6. scenario # PageScenario => \A a \in acked' : a.scenario # PageScenario
      BY <1>0, <2>5 DEF CheckpointShape
    <3> QED
      BY <1>0, <2>2, <2>3, <3>1, <3>2, <3>5, <3>6 DEF CheckpointShape
  <2> QED
    BY <1>3, <2>4, <2>5 DEF Rests
<1>4. ASSUME NEW c \in Callers, AppendDone(c) PROVE CheckpointShape'
  <2>1. /\ Pending(c) /\ events' \in Rows /\ Begins(events, events') /\ ~Pending(c)'
        /\ events'[Len(events) + 1].core = inflight[c][1].core
        /\ Len(events') = Len(events) + 1
        /\ \A d \in Callers : d # c => inflight'[d] = inflight[d] /\ call'[d] = call[d]
        /\ call'[c] = NoCall \/ call'[c] = call[c]
        /\ saved' = saved /\ acked' = acked /\ scenario' = scenario
    BY <1>0, <1>4, Appended
  <2>2. Begins(events', events')
    BY <2>1, BeginsReflexive
  <2>3. ASSUME NEW d \in Callers, call'[d].kind = "checkpoint"
        PROVE  IF Pending(d)' THEN inflight'[d][1].core = Core("recovery_checkpoint", call'[d].label)
               ELSE Holds(events', call'[d].label)
    <3>1. CASE d = c
      <4>1. call'[c] = call[c] /\ call[c].kind = "checkpoint"
        BY <2>1, <2>3, <3>1, NoCallRecord
      <4>2. events'[Len(events) + 1].core = Core("recovery_checkpoint", call[c].label)
        BY <1>0, <2>1, <4>1 DEF CheckpointShape
      <4>3. Len(events) + 1 \in 1 .. Len(events')
        BY <1>0, <2>1 DEF Rows
      <4> QED
        BY <2>1, <3>1, <4>1, <4>2, <4>3 DEF Holds
    <3>2. CASE d # c
      <4>1. Holds(events, call[d].label) => Holds(events', call[d].label)
        BY <1>0, <2>1, <2>2, BeginningHolds
      <4> QED
        BY <1>0, <2>1, <2>3, <3>2, <4>1 DEF CheckpointShape, Pending
    <3> QED
      BY <3>1, <3>2
  <2>4. saved' # <<>> => /\ saved'[1].events \in Rows /\ Begins(saved'[1].events, events')
    BY <1>0, <2>1, BeginningHolds DEF CheckpointShape
  <2> QED
    BY <1>0, <2>1, <2>3, <2>4 DEF CheckpointShape
<1> QED
  BY <1>0, <1>1, <1>2, <1>3, <1>4, EveryStep

\* While calls have never overlapped, a step of c is taken with no other call
\* under way.
LEMMA Alone ==
    ASSUME RuntimeInv, ~overlapped', NEW c \in Callers,
           Starts(c) \/ Rests(c) \/ AppendDone(c)
    PROVE  /\ ~overlapped /\ Serial
           /\ \A d \in Callers : d # c => /\ call[d] = NoCall /\ call[d].kind = "idle"
                                          /\ ~Pending(d)
<1>0. CallsShape
  BY DEF RuntimeInv
<1>1. Claims(c)
  <2>1. CASE Starts(c) \/ Rests(c)
    BY <2>1 DEF Starts, Rests
  <2>2. CASE AppendDone(c)
    <3>1. Pending(c) /\ overlapped' = overlapped
      BY <1>0, <2>2, Appended
    <3>2. call[c].kind # "idle"
      BY <1>0, <3>1 DEF CallsShape, Resting
    <3> QED
      BY <3>1, <3>2, NoCallRecord DEF Claims
  <2> QED
    BY <2>1, <2>2
<1>2. ~overlapped
  BY <1>1 DEF Claims
<1>3. Serial
  BY <1>2 DEF RuntimeInv
<1>4. ASSUME NEW d \in Callers, d # c PROVE call[d] = NoCall
  BY <1>1, <1>3, <1>4 DEF Claims, Serial
<1>5. \A d \in Callers : d # c => call[d].kind = "idle"
  BY <1>4, NoCallRecord
<1>6. \A d \in Callers : d # c => ~Pending(d)
  BY <1>0, <1>5 DEF CallsShape, Resting
<1> QED
  BY <1>2, <1>3, <1>4, <1>5, <1>6

\* Every step keeps what holds of calls made one after the other.
LEMMA SerialKept ==
    ASSUME RuntimeInv, Next, ~overlapped'
    PROVE  Serial'
<1>0. CallsShape /\ events \in Rows
  BY DEF RuntimeInv, CallsShape
<1>1. CASE Reload
  <2>1. /\ events' \in Rows
        /\ \/ Begins(events', events)
           \/ Ledger!ChainVerifies(events') /\ ValidTransitions(events')
        /\ \A c \in Callers : ~Pending(c)' /\ call'[c] = NoCall /\ call'[c].kind = "idle"
        /\ seals' = seals /\ overlapped' = overlapped
    BY <1>1, Reloaded
  <2>2. Serial
    BY <2>1 DEF RuntimeInv
  <2>3. Ledger!ChainVerifies(events') /\ ValidTransitions(events')
    BY <1>0, <2>1, <2>2, BeginningVerifies DEF Serial
  <2> QED
    BY <2>1, <2>2, <2>3 DEF Serial
<1>2. ASSUME NEW c \in Callers, Starts(c) PROVE Serial'
  <2>1. /\ Serial
        /\ \A d \in Callers : d # c => call[d] = NoCall /\ call[d].kind = "idle" /\ ~Pending(d)
    BY <1>2, Alone
  <2>2. \A d \in Callers : d # c => call'[d] = call[d]
    BY <1>0, <1>2, OneCallChanges
  <2>3. /\ events' = events
        /\ inflight'[c][1].previousHash = TailHash(events)
        /\ inflight'[c][1].core.eventType = "phase_transition" =>
             inflight'[c][1].core.subject \in validVertexNextPhases(Phase(events))
        /\ \A d \in Callers : d # c => inflight'[d] = inflight[d]
    BY <1>0, <1>2, Started
  <2>4. /\ call'[c].kind \notin Resting /\ seals' = seals
        /\ call'[c].kind = "sealed" => call[c].kind = "rewarded" /\ call'[c].root = call[c].root
    BY <1>2 DEF Starts
  <2>5. \A d, e \in Callers : call'[d] # NoCall /\ call'[e] # NoCall => d = e
    BY <2>1, <2>2
  <2>6. \A d \in Callers : Pending(d)' => d = c
    BY <2>1, <2>3 DEF Pending
  <2>7. ASSUME NEW d \in Callers,
               \/ call'[d].kind \in {"sealing", "rewarded"}
               \/ call'[d].kind = "sealed" /\ Pending(d)'
        PROVE  call'[d].root = TailHash(events) /\ Settleable(events)
    <3>1. d = c
      BY <2>1, <2>2, <2>7
    <3>2. call'[c].kind = "sealed"
      BY <2>4, <2>7, <3>1 DEF Resting
    <3> QED
      BY <2>1, <2>4, <3>1, <3>2 DEF Serial
  <2>8. TailHash(events)' = TailHash(events) /\ Settleable(events)' = Settleable(events)
    BY <2>3 DEF TailHash, Ledger!TailHash, Settleable, Phase
  <2> QED
    BY <2>1, <2>3, <2>4, <2>5, <2>6, <2>7, <2>8 DEF Serial
<1>3. ASSUME NEW c \in Callers, Rests(c) PROVE Serial'
  <2>1. /\ Serial
        /\ \A d \in Callers : d # c => call[d] = NoCall /\ call[d].kind = "idle" /\ ~Pending(d)
    BY <1>3, Alone
  <2>2. \A d \in Callers : d # c => call'[d] = call[d]
    BY <1>0, <1>3, OneCallChanges
  <2>3. /\ events' = events /\ inflight' = inflight /\ seals' = seals /\ ~Pending(c)
        /\ call'[c].kind \in Resting
        /\ call'[c].kind # "idle" =>
             /\ Settleable(events)
             /\ \/ call'[c].root = TailHash(events)
                \/ call[c].kind = "sealing" /\ call'[c].root = call[c].root
    BY <1>3 DEF Rests
  <2>4. \A d, e \in Callers : call'[d] # NoCall /\ call'[e] # NoCall => d = e
    BY <2>1, <2>2
  <2>5. \A d \in Callers : ~Pending(d)'
    BY <2>1, <2>3 DEF Pending
  <2>6. ASSUME NEW d \in Callers, call'[d].kind \in {"sealing", "rewarded"}
        PROVE  call'[d].root = TailHash(events) /\ Settleable(events)
    <3>1. d = c
      BY <2>1, <2>2, <2>6
    <3> QED
      BY <2>1, <2>3, <2>6, <3>1 DEF Serial
  <2> QED
    BY <2>1, <2>3, <2>4, <2>5, <2>6 DEF Serial
<1>4. ASSUME NEW c \in Callers, AppendDone(c) PROVE Serial'
  <2>1. /\ Serial
        /\ \A d \in Callers : d # c => call[d] = NoCall /\ call[d].kind = "idle" /\ ~Pending(d)
    BY <1>4, Alone
  <2>2. /\ Pending(c) /\ inflight[c][1] \in Ledger!Input
        /\ events' = Append(events, Ledger!Event(inflight[c][1]))
        /\ ~Pending(c)'
        /\ \A d \in Callers : d # c => inflight'[d] = inflight[d] /\ call'[d] = call[d]
        /\ call'[c] = NoCall \/ (call'[c] = call[c] /\ call[c].kind \notin Resting)
        /\ seals' = seals \/ (call[c].kind = "sealed" /\ seals' = seals \cup {SealRecord(c)})
    BY <1>0, <1>4, Appended
  <2>3. /\ inflight[c][1].previousHash = TailHash(events)
        /\ inflight[c][1].core.eventType = "phase_transition" =>
             inflight[c][1].core.subject \in validVertexNextPhases(Phase(events))
    BY <2>1, <2>2 DEF Serial
  <2>4. Ledger!ChainVerifies(events') /\ ValidTransitions(events')
    BY <1>0, <2>1, <2>2, <2>3, AppendedVerifies DEF Serial
  <2>5. \A d, e \in Callers : call'[d] # NoCall /\ call'[e] # NoCall => d = e
    BY <2>1, <2>2
  <2>6. \A d \in Callers : ~Pending(d)'
    BY <2>1, <2>2 DEF Pending
  <2>7. \A d \in Callers : call'[d].kind \notin {"sealing", "rewarded"}
    BY <2>1, <2>2, NoCallRecord DEF Resting
  <2>8. ASSUME NEW s \in seals'
        PROVE  s.root = s.previousHash /\ s.phase \in TERMINAL_PHASES
    <3>1. CASE s \in seals
      BY <2>1, <3>1 DEF Serial
    <3>2. CASE call[c].kind = "sealed" /\ s = SealRecord(c)
      <4>1. call[c].root = TailHash(events) /\ Settleable(events)
        BY <2>1, <2>2, <3>2 DEF Serial
      <4>2. /\ s.root = call[c].root /\ s.previousHash = inflight[c][1].previousHash
            /\ s.phase = Phase(events)
        BY <3>2 DEF SealRecord
      <4> QED
        BY <2>3, <4>1, <4>2 DEF Settleable
    <3> QED
      BY <2>2, <2>8, <3>1, <3>2
  <2> QED
    BY <2>4, <2>5, <2>6, <2>7, <2>8 DEF Serial
<1> QED
  BY <1>0, <1>1, <1>2, <1>3, <1>4, EveryStep
-------------------------------------------------------------------------------
(* The theorems. *)

\* The invariant holds in every reachable state, however calls overlap and whenever
\* the page is reloaded.
THEOREM RuntimeInvariance == Spec => []RuntimeInv
<1>1. Init => RuntimeInv
  BY RuntimeInit
<1>2. RuntimeInv /\ [Next]_vars => RuntimeInv'
  <2> SUFFICES ASSUME RuntimeInv, [Next]_vars PROVE RuntimeInv'
    OBVIOUS
  <2>1. CASE Next
    <3>1. ~overlapped' => Serial'
      BY <2>1, SerialKept
    <3> QED
      BY <2>1, <3>1, CallsShapeKept, CheckpointShapeKept DEF RuntimeInv
  <2>2. CASE UNCHANGED vars
    <3>1. /\ scenario' = scenario
          /\ events' = events /\ inflight' = inflight /\ call' = call /\ saved' = saved
          /\ acked' = acked /\ seals' = seals /\ overlapped' = overlapped
      BY <2>2 DEF vars
    <3>2. CallsShape'
      BY <3>1 DEF RuntimeInv, CallsShape, Pending
    <3>3. CheckpointShape'
      BY <3>1 DEF RuntimeInv, CheckpointShape, Pending
    <3>4. Serial => Serial'
      BY <3>1 DEF Serial, Pending
    <3> QED
      BY <3>1, <3>2, <3>3, <3>4 DEF RuntimeInv
  <2> QED
    BY <2>1, <2>2
<1> QED
  BY <1>1, <1>2, PTL DEF Spec

\* While calls are made one after the other (LocalMissionRuntime's buttons and
\* heartbeat timer), verifyChain() succeeds at every moment, reloads included.
THEOREM SerialCallsVerify == Spec => []SerialChainVerifies
<1>1. RuntimeInv => SerialChainVerifies
  BY DEF RuntimeInv, Serial, SerialChainVerifies, RuntimeChainVerifies
<1> QED
  BY <1>1, RuntimeInvariance, PTL

\* While calls are made one after the other, every phase_transition row leads to a
\* phase that may follow the one a replay of the rows before it finds.
THEOREM SerialCallsFollowLattice == Spec => []SerialTransitionsValid
<1>1. RuntimeInv => SerialTransitionsValid
  BY DEF RuntimeInv, Serial, SerialTransitionsValid, TransitionsValid, ValidTransitions
<1> QED
  BY <1>1, RuntimeInvariance, PTL

\* While calls are made one after the other, sealSettlement's row is committed only
\* while the mission is complete or aborted.
THEOREM SealsAreTerminal == Spec => []SealedWhenTerminal
<1>1. RuntimeInv => SealedWhenTerminal
  BY DEF RuntimeInv, Serial, SealedWhenTerminal
<1> QED
  BY <1>1, RuntimeInvariance, PTL

\* While calls are made one after the other, the ledgerRootHash taken when
\* sealSettlement starts is the hash of the row its seal follows.
THEOREM SealsCoverLedger == Spec => []SealCoversLedger
<1>1. RuntimeInv => SealCoversLedger
  BY DEF RuntimeInv, Serial, SealCoversLedger
<1> QED
  BY <1>1, RuntimeInvariance, PTL

\* However calls overlap, a checkpoint reported as recorded is in the ledger at
\* every later moment, reloads included, as long as its scenario is the open one.
THEOREM CheckpointsSurvive == Spec => []AckedCheckpointsSurvive
<1>1. RuntimeInv => AckedCheckpointsSurvive
  <2> SUFFICES ASSUME RuntimeInv, NEW a \in acked, a.scenario = scenario
               PROVE  Holds(events, a.label)
    BY DEF AckedCheckpointsSurvive, Holds
  <2>1. events \in Rows /\ CheckpointShape
    BY DEF RuntimeInv, CallsShape
  <2>2. /\ saved # <<>> /\ saved[1].events \in Rows
        /\ Begins(saved[1].events, events) /\ Holds(saved[1].events, a.label)
    BY <2>1 DEF CheckpointShape
  <2>3. Begins(events, events)
    BY <2>1, BeginsReflexive
  <2> QED
    BY <2>1, <2>2, <2>3, BeginningHolds
<1> QED
  BY <1>1, RuntimeInvariance, PTL

\* However calls overlap, the runtime's steps are steps of MissionLedger: rows are
\* appended one by one, or the ledger is reopened at an earlier length, unless a
\* reload begins a new mission.
THEOREM RuntimeUsesLedger == Spec => LedgerSteps
<1>1. RuntimeInv /\ [Next]_vars => [Ledger!Next \/ NewMission]_<<events, inflight>>
  <2> SUFFICES ASSUME RuntimeInv, [Next]_vars
               PROVE  Ledger!Next \/ NewMission \/ UNCHANGED <<events, inflight>>
    OBVIOUS
  <2>0. CallsShape /\ events \in Rows
    BY DEF RuntimeInv, CallsShape
  <2>1. CASE UNCHANGED vars
    BY <2>1 DEF vars
  <2>2. CASE Reload
    <3>1. /\ events' \in Rows /\ inflight' = [c \in Callers |-> <<>>]
          /\ Begins(events', events) \/ NewMission
      BY <2>2, Reloaded
    <3>2. CASE Begins(events', events)
      <4>1. events' = SubSeq(events, 1, Len(events')) /\ Len(events') \in 0 .. Len(events)
        BY <2>0, <3>1, <3>2, BeginningVerifies
      <4> QED
        BY <3>1, <4>1 DEF Ledger!Next, Ledger!Reopen
    <3> QED
      BY <3>1, <3>2
  <2>3. ASSUME NEW c \in Callers, Starts(c) PROVE Ledger!Next
    BY <2>3 DEF Starts, Ledger!Next, Ledger!Room
  <2>4. ASSUME NEW c \in Callers, Rests(c) PROVE UNCHANGED <<events, inflight>>
    BY <2>4 DEF Rests
  <2>5. ASSUME NEW c \in Callers, AppendDone(c) PROVE Ledger!Next
    BY <2>5 DEF AppendDone, Ledger!Next, Ledger!Room
  <2> QED
    BY <2>0, <2>1, <2>2, <2>3, <2>4, <2>5, EveryStep
<1> QED
  BY <1>1, RuntimeInvariance, PTL DEF Spec, LedgerSteps
-------------------------------------------------------------------------------
(* The tree of rows that is left when calls overlap. *)

Known(evs, h, n) == h = <<>> \/ \E j \in 1 .. n : evs[j].eventHash = h

LinksKnown(evs) == \A i \in 1 .. Len(evs) : Known(evs, evs[i].previousHash, i - 1)

\* Rows and pending appends link to rows of the ledger, or are first.
Rooted ==
    /\ LinksKnown(events)
    /\ \A c \in Callers : Pending(c) => Known(events, inflight[c][1].previousHash, Len(events))

\* The hash of a ledger's tail is known in it.
LEMMA TailKnown ==
    ASSUME NEW evs \in Rows
    PROVE  Known(evs, TailHash(evs), Len(evs))
<1>1. CASE evs = <<>>
  BY <1>1 DEF Known, TailHash, Ledger!TailHash, Ledger!Genesis
<1>2. CASE evs # <<>>
  <2>1. Len(evs) \in 1 .. Len(evs)
    BY <1>2, EmptySeq DEF Rows
  <2> QED
    BY <1>2, <2>1 DEF Known, TailHash, Ledger!TailHash
<1> QED
  BY <1>1, <1>2

\* What is known in a beginning of a ledger is known in the ledger.
LEMMA KnownGrows ==
    ASSUME NEW s \in Rows, NEW t \in Rows, Begins(s, t), NEW h,
           NEW n \in 0 .. Len(s), NEW m \in 0 .. Len(t), n <= m, Known(s, h, n)
    PROVE  Known(t, h, m)
<1>1. Len(s) \in Nat /\ Len(t) \in Nat
  BY DEF Rows
<1>2. \A j \in 1 .. n : j \in 1 .. m /\ s[j] = t[j]
  BY <1>1 DEF Begins
<1> QED
  BY <1>2 DEF Known

\* A beginning of a rooted ledger is rooted.
LEMMA BeginningRooted ==
    ASSUME NEW s \in Rows, NEW t \in Rows, Begins(s, t), LinksKnown(t)
    PROVE  LinksKnown(s)
<1>1. Len(s) \in Nat /\ Len(t) \in Nat /\ Len(s) <= Len(t)
  BY DEF Rows, Begins
<1>2. ASSUME NEW i \in 1 .. Len(s) PROVE Known(s, s[i].previousHash, i - 1)
  <2>1. i \in 1 .. Len(t) /\ s[i] = t[i] /\ Known(t, t[i].previousHash, i - 1)
    BY <1>1 DEF Begins, LinksKnown
  <2>2. \A j \in 1 .. i - 1 : j \in 1 .. Len(s) /\ s[j] = t[j]
    BY <1>1 DEF Begins
  <2> QED
    BY <2>1, <2>2 DEF Known
<1> QED
  BY <1>2 DEF LinksKnown

\* A ledger whose chain verifies is rooted.
LEMMA VerifiedRooted ==
    ASSUME NEW evs \in Rows, Ledger!ChainVerifies(evs)
    PROVE  LinksKnown(evs)
<1>1. ASSUME NEW i \in 1 .. Len(evs) PROVE Known(evs, evs[i].previousHash, i - 1)
  <2>1. evs[i].previousHash = IF i = 1 THEN <<>> ELSE evs[i - 1].eventHash
    BY DEF Ledger!ChainVerifies, Ledger!Genesis
  <2>2. i # 1 => i - 1 \in 1 .. i - 1
    OBVIOUS
  <2> QED
    BY <2>1, <2>2 DEF Known
<1> QED
  BY <1>1 DEF LinksKnown

\* Every step of the runtime keeps rows and pending appends rooted.
LEMMA RootedKept ==
    ASSUME RuntimeInv, Rooted, Next
    PROVE  Rooted'
<1>0. CallsShape /\ events \in Rows /\ Len(events) \in Nat
  BY DEF RuntimeInv, CallsShape, Rows
<1>1. CASE Reload
  <2>1. /\ events' \in Rows /\ inflight' = [c \in Callers |-> <<>>]
        /\ Begins(events', events) \/ Ledger!ChainVerifies(events')
    BY <1>0, <1>1, Reloaded DEF RuntimeInv
  <2>2. LinksKnown(events')
    BY <1>0, <2>1, BeginningRooted, VerifiedRooted DEF Rooted
  <2> QED
    BY <2>1, <2>2 DEF Rooted, Pending
<1>2. ASSUME NEW c \in Callers, Starts(c) PROVE Rooted'
  <2>1. /\ events' = events /\ inflight'[c][1].previousHash = TailHash(events)
        /\ \A d \in Callers : d # c => inflight'[d] = inflight[d]
    BY <1>0, <1>2, Started
  <2>2. Known(events, TailHash(events), Len(events))
    BY <1>0, TailKnown
  <2> QED
    BY <2>1, <2>2 DEF Rooted, Pending
<1>3. ASSUME NEW c \in Callers, Rests(c) PROVE Rooted'
  BY <1>3 DEF Rests, Rooted, Pending
<1>4. ASSUME NEW c \in Callers, AppendDone(c) PROVE Rooted'
  <2> DEFINE n == Len(events)
             input == inflight[c][1]
             row == Ledger!Event(input)
  <2>1. /\ Pending(c) /\ events' = Append(events, row)
        /\ events' \in Rows /\ Begins(events, events') /\ Len(events') = n + 1
        /\ ~Pending(c)'
        /\ \A d \in Callers : d # c => inflight'[d] = inflight[d]
    BY <1>0, <1>4, Appended
  <2>2. events'[n + 1] = row /\ row.previousHash = input.previousHash
    BY <1>0, <2>1 DEF Rows, Ledger!Event
  <2>3. \A i \in 1 .. n : events'[i] = events[i]
    BY <2>1 DEF Begins
  <2> HIDE DEF row
  <2>4. ASSUME NEW i \in 1 .. n + 1 PROVE Known(events', events'[i].previousHash, i - 1)
    <3>1. CASE i = n + 1
      <4>1. Known(events, input.previousHash, n)
        BY <2>1 DEF Rooted
      <4>2. n \in 0 .. Len(events) /\ n \in 0 .. Len(events') /\ n <= n
        BY <1>0, <2>1
      <4>3. Known(events', input.previousHash, n)
        BY <1>0, <2>1, <4>1, <4>2, KnownGrows
      <4> QED
        BY <1>0, <2>2, <3>1, <4>3
    <3>2. CASE i # n + 1
      <4>1. /\ i \in 1 .. n /\ i - 1 <= i - 1
            /\ i - 1 \in 0 .. Len(events) /\ i - 1 \in 0 .. Len(events')
        BY <1>0, <2>1, <3>2
      <4>2. Known(events, events[i].previousHash, i - 1)
        BY <4>1 DEF Rooted, LinksKnown
      <4>3. Known(events', events[i].previousHash, i - 1)
        BY <1>0, <2>1, <4>1, <4>2, KnownGrows
      <4> QED
        BY <2>3, <4>1, <4>3
    <3> QED
      BY <3>1, <3>2
  <2>5. ASSUME NEW d \in Callers, Pending(d)'
        PROVE  Known(events', inflight'[d][1].previousHash, n + 1)
    <3>1. d # c /\ inflight'[d] = inflight[d] /\ Pending(d)
      BY <2>1, <2>5 DEF Pending
    <3>2. Known(events, inflight[d][1].previousHash, n)
      BY <3>1 DEF Rooted
    <3>3. n \in 0 .. n /\ n + 1 \in 0 .. n + 1 /\ n <= n + 1
      BY <1>0
    <3>4. Known(events', inflight[d][1].previousHash, n + 1)
      BY <1>0, <2>1, <3>2, <3>3, KnownGrows
    <3> QED
      BY <3>1, <3>4
  <2> QED
    BY <2>1, <2>4, <2>5 DEF Rooted, LinksKnown
<1> QED
  BY <1>0, <1>1, <1>2, <1>3, <1>4, EveryStep

\* However calls overlap and whenever the page is reloaded, every row of the runtime's
\* ledger links to a row before it or is a first one: what tailHash() gave a call is
\* still there when its append is done, although other rows have come in between.
THEOREM RuntimeLedgerRooted == Spec => []Ledger!LinksRooted
<1>1. Init => Rooted
  <2> SUFFICES ASSUME Init PROVE Rooted
    OBVIOUS
  <2>1. scenario \in Scenarios /\ \E p \in StartPhases : events = Bootstrapped(scenario, p)
    BY DEF Init
  <2>2. events \in Rows /\ Ledger!ChainVerifies(events)
    BY <2>1, RuntimeAssumption, BootVerifies
  <2>3. \A c \in Callers : ~Pending(c)
    BY DEF Init, Pending
  <2> QED
    BY <2>2, <2>3, VerifiedRooted DEF Rooted
<1>2. RuntimeInv /\ Rooted /\ [Next]_vars => Rooted'
  <2> SUFFICES ASSUME RuntimeInv, Rooted, [Next]_vars PROVE Rooted'
    OBVIOUS
  <2>1. CASE Next
    BY <2>1, RootedKept
  <2>2. CASE UNCHANGED vars
    BY <2>2 DEF vars, Rooted, Pending
  <2> QED
    BY <2>1, <2>2
<1>3. Rooted => Ledger!LinksRooted
  BY DEF Rooted, LinksKnown, Known, Ledger!LinksRooted, Ledger!Known, Ledger!Genesis
<1> QED
  BY <1>1, <1>2, <1>3, RuntimeInvariance, PTL DEF Spec
===============================================================================
