----------------------------- MODULE MissionRuntime -----------------------------
(***************************************************************************)
(* The in-browser mission runtime: LocalMissionRuntime                     *)
(* (src/lib/runtime/localMissionRuntime.ts) as the runtime store           *)
(* (src/lib/state/runtimeStore.ts) drives it, over the APIs of             *)
(* src/backend/api and the MissionLedger.                                  *)
(*                                                                         *)
(* Every operator button and the 4-second heartbeat timer is an            *)
(* asynchronous call on one shared ledger.  A call runs without            *)
(* interruption between two awaits; an action here is such a stretch, so   *)
(* whatever a call has read is used, after its await, as it was read.      *)
(* A page reload drops all of them and opens the page's own scenario: the  *)
(* ledger is restored from the checkpoint in sessionStorage when it is of  *)
(* that scenario; any other checkpoint is thrown away and a new mission    *)
(* begins.                                                                 *)
(*                                                                         *)
(* Left out: telemetry values (whether validateScenarioBudget lets a       *)
(* proposal through is left open: the call just may not get that far),     *)
(* views, and everything of an event's payload but what is named below.    *)
(* Also left out: another scenario chosen in the open page.  It opens a    *)
(* workspace as a reload does, but the calls under way then go on with the *)
(* old ledger; here a run begins with any scenario and keeps it until the  *)
(* page is reloaded.                                                       *)
(***************************************************************************)
EXTENDS MissionPhases, FiniteSets

CONSTANTS
    Callers,      \* the asynchronous calls that may be under way at once
    Scenarios,    \* the mission scenarios
    PageScenario, \* the one a page load starts with
    Roster,       \* the nodes of each scenario's default roster
    HasCarrier,   \* for each scenario: one of them is a carrier
    Labels,       \* checkpoint labels
    StartPhases,  \* the phases a run starts from
    MaxCalls,     \* bound on the calls made
    MaxFast       \* iterations of fastForwardDemo (14 in the code)

ASSUME RuntimeAssumption ==
    /\ MaxCalls \in Nat /\ MaxFast \in Nat
    /\ PageScenario \in Scenarios
    /\ HasCarrier \in [Scenarios -> BOOLEAN]
    /\ \A sc \in Scenarios : IsFiniteSet(Roster[sc])
    /\ StartPhases \subseteq MissionPhase \ {"init", "aborted"}

VARIABLES
    scenario,  \* the scenario of the open mission
    events,    \* the ledger
    inflight,  \* the pending ledger.append of each call
    call,      \* what each call is doing
    saved,     \* the checkpoint in sessionStorage: <<>> or
               \* <<its scenario and events>>
    acked,     \* the checkpoints reported as recorded to the operator: label
               \* and scenario
    seals,     \* per settlement_manifest_sealed event: what it claims and where
    calls,     \* how many calls have been made
    overlapped \* history: some call was made while another one was under way

vars == <<scenario, events, inflight, call, saved, acked, seals, calls, overlapped>>

\* The event cores the runtime appends.  subject is the node, label or phase
\* the payload names.
Core(type, subject) == [eventType |-> type, subject |-> subject]

PlainTypes == {"mission_created", "target_discovered", "task_assigned",
               "settlement_manifest_sealed", "proof_anchored"}

Nodes == UNION {Roster[sc] : sc \in Scenarios}

Cores ==
    {Core(t, "-") : t \in PlainTypes}
    \cup {Core(t, n) : t \in {"node_join", "node_heartbeat"}, n \in Nodes}
    \cup {Core("recovery_checkpoint", l) : l \in Labels}
    \cup {Core("phase_transition", p) : p \in MissionPhase}

Ledger == INSTANCE MissionLedger WITH MaxEvents <- 0, Exclusive <- FALSE

TailHash(evs) == Ledger!TailHash(evs)
-------------------------------------------------------------------------------
\* replayMissionFromLedger, as far as the phase goes: mission_created sets it to
\* init and each phase_transition to its toPhase, whatever phase it was proposed
\* from, so the last of these rows decides.
PhaseOf(core) == IF core.eventType = "mission_created" THEN "init" ELSE core.subject

SetsPhase(event) == event.core.eventType \in {"mission_created", "phase_transition"}

Phase(evs) ==
    LET n == Len(evs)
        since == CHOOSE k \in 0 .. n :
                    /\ k < n => SetsPhase(evs[n - k])
                    /\ \A i \in 0 .. k - 1 : ~SetsPhase(evs[n - i])
    IN  IF since = n THEN "init" ELSE PhaseOf(evs[n - since].core)

\* A ledger written by one call after another: each row links to the one before.
Written(cores) ==
    [i \in 1 .. Len(cores) |->
        Ledger!Event([previousHash |-> SubSeq(cores, 1, i - 1), core |-> cores[i]])]

JoinAndBeat(sc) ==
    LET order == CHOOSE s \in [1 .. Cardinality(Roster[sc]) -> Roster[sc]] :
                     \A i, j \in DOMAIN s : s[i] = s[j] => i = j
    IN  [i \in 1 .. 2 * Len(order) |->
            Core(IF i % 2 = 1 THEN "node_join" ELSE "node_heartbeat", order[(i + 1) \div 2])]

\* bootstrap: mission_created, a join and a heartbeat per roster node, then the
\* hop to discovery (when the budget lets it; such missions only are modelled).
\* A run may start later on the nominal pipeline.
Place(phase) == CHOOSE k \in 1 .. Len(LINEAR) : LINEAR[k] = phase

BootCores(sc, phase) ==
    <<Core("mission_created", "-")>> \o JoinAndBeat(sc)
        \o [i \in 1 .. Place(phase) - 1 |-> Core("phase_transition", LINEAR[i + 1])]

Bootstrapped(sc, phase) == Written(BootCores(sc, phase))

Ready(sc, phase) ==
    latticePhaseReadiness(phase, Cardinality(Roster[sc]), HasCarrier[sc])

\* A mission of scenario sc can have come to phase: without a carrier it stays in
\* rescue.
Reaches(sc, phase) == \A k \in 1 .. Place(phase) : Ready(sc, LINEAR[k])

NoCall == [kind |-> "idle", todo |-> {}, left |-> 0, label |-> "-", root |-> <<>>]

Init ==
    /\ inflight = [c \in Callers |-> <<>>]
    /\ scenario \in Scenarios
    /\ \E p \in StartPhases :
         Reaches(scenario, p) /\ events = Bootstrapped(scenario, p)
    /\ call = [c \in Callers |-> NoCall]
    /\ saved = <<>>
    /\ acked = {}
    /\ seals = {}
    /\ calls = 0
    /\ overlapped = FALSE
-------------------------------------------------------------------------------
(* Making a call. *)

MakeCall(c, record) ==
    /\ calls < MaxCalls
    /\ call[c] = NoCall
    /\ calls' = calls + 1
    /\ overlapped' = (overlapped \/ \E d \in Callers : call[d] # NoCall)
    /\ call' = [call EXCEPT ![c] = record]
    /\ UNCHANGED <<scenario, saved, acked, seals>>

\* Fault: the proposal is computed from the phase it leads to, and not validated.
ProposeTwoPhasesOn(c) ==
    LET to == nominalNextPhase(nominalNextPhase(Phase(events)))
    IN  /\ to # NoPhase
        /\ Ledger!StartAppend(c, Core("phase_transition", to))

\* proposeAndCommitPhaseTransition up to its await, with the phase that
\* advancePhase has just taken from the same replay.
ProposeNextPhase(c) ==
    LET to == nominalNextPhase(Phase(events))
    IN  /\ to # NoPhase
        /\ Ready(scenario, to)
        /\ to \in validVertexNextPhases(Phase(events))
        /\ Ledger!StartAppend(c, Core("phase_transition", to))

AdvancePhase(c) ==
    /\ ProposeNextPhase(c)
    /\ MakeCall(c, [NoCall EXCEPT !.kind = "append"])

\* fastForwardDemo: up to 14 advances, each after the one before.
FastForward(c) ==
    /\ MaxFast > 0
    /\ Phase(events) \notin TERMINAL_PHASES
    /\ ProposeNextPhase(c)
    /\ MakeCall(c, [NoCall EXCEPT !.kind = "fast", !.left = MaxFast - 1])

\* addTarget and assignDemoTask commit one suggestion each.
AddTarget(c) ==
    /\ Ledger!StartAppend(c, Core("target_discovered", "-"))
    /\ MakeCall(c, [NoCall EXCEPT !.kind = "append"])

AssignDemoTask(c) ==
    /\ Roster[scenario] # {}
    /\ Ledger!StartAppend(c, Core("task_assigned", "-"))
    /\ MakeCall(c, [NoCall EXCEPT !.kind = "append"])

\* tickHeartbeats, from the timer: one append per roster node, one by one.
TickHeartbeats(c) ==
    \E n \in Roster[scenario] :
        /\ Ledger!StartAppend(c, Core("node_heartbeat", n))
        /\ MakeCall(c, [NoCall EXCEPT !.kind = "beat", !.todo = Roster[scenario] \ {n}])

\* recordCheckpoint: the row goes into the ledger, then the ledger is saved.
RecordCheckpoint(c, label) ==
    /\ Ledger!StartAppend(c, Core("recovery_checkpoint", label))
    /\ MakeCall(c, [NoCall EXCEPT !.kind = "checkpoint", !.label = label])

\* Fault: a mission on its way back counts as over.
SettleableOnReturn(evs) == Phase(evs) \in TERMINAL_PHASES \cup {"return"}

\* Both sealArcSettlement and buildRewardManifest ask this of a replay.
Settleable(evs) == Phase(evs) \in TERMINAL_PHASES

\* Fault: the root comes from the saved checkpoint.
SealSettlementOfSaved(c) ==
    /\ Settleable(events)
    /\ MakeCall(c, [NoCall EXCEPT !.kind = "sealing",
                   !.root = IF saved = <<>> THEN TailHash(events) ELSE TailHash(saved[1].events)])
    /\ UNCHANGED <<events, inflight>>

\* sealSettlement: refused unless the mission is terminal; the root hash is
\* taken now, the manifest is built from a copy of the ledger taken now.
SealSettlement(c) ==
    /\ Settleable(events)
    /\ MakeCall(c, [NoCall EXCEPT !.kind = "sealing", !.root = TailHash(events)])
    /\ UNCHANGED <<events, inflight>>
-------------------------------------------------------------------------------
(* What a call does after an await. *)

Resumes(c, kind) == inflight[c] = <<>> /\ call[c].kind = kind

Return(c) == call' = [call EXCEPT ![c] = NoCall]

SealRecord(c) ==
    [root |-> call[c].root,
     previousHash |-> inflight[c][1].previousHash,
     phase |-> Phase(events)]

\* The digest of a pending append is there: the event is pushed.  Calls with
\* nothing left to do but refresh views are over.
AppendDone(c) ==
    /\ Ledger!FinishAppend(c)
    /\ IF call[c].kind \in {"append", "anchored"} THEN Return(c) ELSE UNCHANGED call
    /\ seals' = IF call[c].kind = "sealed" THEN seals \cup {SealRecord(c)} ELSE seals
    /\ UNCHANGED <<scenario, saved, acked, calls, overlapped>>

NextHeartbeat(c) ==
    /\ Resumes(c, "beat")
    /\ IF call[c].todo = {}
       THEN Return(c) /\ UNCHANGED <<events, inflight>>
       ELSE \E n \in call[c].todo :
              /\ Ledger!StartAppend(c, Core("node_heartbeat", n))
              /\ call' = [call EXCEPT ![c].todo = @ \ {n}]
    /\ UNCHANGED <<scenario, saved, acked, seals, calls, overlapped>>

\* Fault: the loop has no exit but its last iteration.
NextFastForwardToTheEnd(c) ==
    /\ Resumes(c, "fast")
    /\ \/ /\ call[c].left > 0
          /\ ProposeNextPhase(c)
          /\ call' = [call EXCEPT ![c].left = @ - 1]
       \/ call[c].left = 0 /\ Return(c) /\ UNCHANGED <<events, inflight>>
    /\ UNCHANGED <<scenario, saved, acked, seals, calls, overlapped>>

\* The loop of fastForwardDemo goes on, or ends: out of iterations, in a
\* terminal phase, or on a refusal (which the open budget gate may always be).
NextFastForward(c) ==
    /\ Resumes(c, "fast")
    /\ \/ /\ call[c].left > 0
          /\ Phase(events) \notin TERMINAL_PHASES
          /\ ProposeNextPhase(c)
          /\ call' = [call EXCEPT ![c].left = @ - 1]
       \/ Return(c) /\ UNCHANGED <<events, inflight>>
    /\ UNCHANGED <<scenario, saved, acked, seals, calls, overlapped>>

\* Fault: the copy lacks the newest row.
WithoutLast == SubSeq(events, 1, Len(events) - 1)

\* Fault: the copy is compacted.
WithoutHeartbeats == SelectSeq(events, LAMBDA e : e.core.eventType # "node_heartbeat")

\* ledger.toArray()
LedgerCopy == events

\* persistCheckpoint stores the ledger as it is when the call resumes.
PersistCheckpoint(c) ==
    /\ Resumes(c, "checkpoint")
    /\ saved' = <<[scenario |-> scenario, events |-> LedgerCopy]>>
    /\ acked' = acked \cup {[label |-> call[c].label, scenario |-> scenario]}
    /\ Return(c)
    /\ UNCHANGED <<scenario, events, inflight, seals, calls, overlapped>>

\* buildRewardManifest replays the ledger again and throws unless the mission
\* is still terminal; runSettlementSeal turns that into an error.
BuildRewards(c) ==
    /\ Resumes(c, "sealing")
    /\ IF Settleable(events)
       THEN call' = [call EXCEPT ![c].kind = "rewarded"]
       ELSE Return(c)
    /\ UNCHANGED <<scenario, events, inflight, saved, acked, seals, calls, overlapped>>

\* The manifest is anchored, and the seal is appended with the root taken at
\* the start of the call.
AppendSeal(c) ==
    /\ Resumes(c, "rewarded")
    /\ Ledger!StartAppend(c, Core("settlement_manifest_sealed", "-"))
    /\ call' = [call EXCEPT ![c].kind = "sealed"]
    /\ UNCHANGED <<scenario, saved, acked, seals, calls, overlapped>>

AppendAnchor(c) ==
    /\ Resumes(c, "sealed")
    /\ Ledger!StartAppend(c, Core("proof_anchored", "-"))
    /\ call' = [call EXCEPT ![c].kind = "anchored"]
    /\ UNCHANGED <<scenario, saved, acked, seals, calls, overlapped>>

\* A new ledger, for a mission of the page's scenario.
NewMission ==
    /\ events' = Bootstrapped(PageScenario, "discovery")
    /\ inflight' = [c \in Callers |-> <<>>]

\* The saved mission's ledger, as fromCheckpoint reopens it.
SavedMission ==
    /\ events' = saved[1].events
    /\ inflight' = [c \in Callers |-> <<>>]

\* tryRestoreSession: a checkpoint of another scenario is cleared.
TryRestoreSession ==
    IF saved # <<>> /\ saved[1].scenario = PageScenario
    THEN SavedMission /\ UNCHANGED saved
    ELSE NewMission /\ saved' = <<>>

\* The page is reloaded: every call is gone, and the page opens its scenario.
Reload ==
    /\ scenario' = PageScenario
    /\ TryRestoreSession
    /\ call' = [c \in Callers |-> NoCall]
    /\ UNCHANGED <<acked, seals, calls, overlapped>>

Resume(c) ==
    \/ AppendDone(c)
    \/ NextHeartbeat(c)
    \/ NextFastForward(c)
    \/ PersistCheckpoint(c)
    \/ BuildRewards(c)
    \/ AppendSeal(c)
    \/ AppendAnchor(c)

Next ==
    \/ \E c \in Callers : AdvancePhase(c)
    \/ \E c \in Callers : FastForward(c)
    \/ \E c \in Callers : AddTarget(c)
    \/ \E c \in Callers : AssignDemoTask(c)
    \/ \E c \in Callers : TickHeartbeats(c)
    \/ \E c \in Callers, label \in Labels : RecordCheckpoint(c, label)
    \/ \E c \in Callers : SealSettlement(c)
    \/ \E c \in Callers : Resume(c)
    \/ Reload

Spec == Init /\ [][Next]_vars

\* The event loop runs the continuation of every settled promise.
FairSpec == Spec /\ \A c \in Callers : WF_vars(Resume(c))
-------------------------------------------------------------------------------
\* However calls overlap, the runtime uses its ledger as MissionLedger allows:
\* rows are only appended, or the ledger is reopened at an earlier length, unless
\* a reload with nothing to restore begins a new mission.
LedgerSteps == [][Ledger!Next \/ NewMission]_<<events, inflight>>

\* A checkpoint that recordCheckpoint has reported is in the ledger at every later
\* moment, reloads included, as long as the scenario it was taken in is the one
\* that is open.  (tryRestoreSession throws away a checkpoint of a scenario other
\* than the page's.)
AckedCheckpointsSurvive ==
    \A a \in acked : a.scenario = scenario =>
        \E i \in 1 .. Len(events) :
            events[i].core = Core("recovery_checkpoint", a.label)

\* Every call returns, whatever the others do (fastForwardDemo included).
CallsReturn == \A c \in Callers : (call[c] # NoCall) ~> (call[c] = NoCall)

\* verifyChain() succeeds: each row has the correct previousHash.
RuntimeChainVerifies == Ledger!ChainVerifies(events)

\* Each committed transition leads to a phase that may follow the one before.
TransitionsValid ==
    \A i \in 1 .. Len(events) :
        events[i].core.eventType = "phase_transition" =>
            events[i].core.subject \in validVertexNextPhases(Phase(SubSeq(events, 1, i - 1)))

\* While calls are made one after the other (reloads at any moment), verifyChain()
\* succeeds at every moment.
SerialChainVerifies == ~overlapped => RuntimeChainVerifies

\* While calls are made one after the other, committed phases follow the lattice.
SerialTransitionsValid == ~overlapped => TransitionsValid

\* While calls are made one after the other, a settlement is sealed only while the
\* mission is complete or aborted.
SealedWhenTerminal == ~overlapped => \A s \in seals : s.phase \in TERMINAL_PHASES

\* While calls are made one after the other, a seal's ledgerRootHash is the hash of
\* the very row the seal follows: the sealed root leaves nothing out.
SealCoversLedger == ~overlapped => \A s \in seals : s.root = s.previousHash
===============================================================================
