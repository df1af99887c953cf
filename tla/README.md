# Specifications of the BLACKOUT swarm platform

TLA+ models of the coordination code of this repository, the TLC runs that check
them on small instances, and TLAPS proofs of their invariants and action properties for
every instance. Paths below are relative to the root of the repository (`PROJECT.json`
prefixes them with `src/`).

## 1. The system

The repository is a search-and-rescue swarm platform in two languages. The
TypeScript web application (`src/`) holds a mission backend split in three planes,
all of which write to one append-only ledger:

* **Vertex** (ordering): `MissionLedger`, the consensus gateway, replay, the swarm
  simulator with its task orchestrator;
* **Lattice** (capability): node registry, reputation, readiness gates;
* **Arc** (settlement): manifests, anchoring, the settlement queue.

The Python packages (`swarm/`, `mesh_survival/`, ...) hold the drone-side
coordination: the blackout state machine, leader election, PBFT, relay chains, mesh I/O.

### Inventory

| Component | State | Operations | Interacts with | What is hard | What makes it correct |
|---|---|---|---|---|---|
| Settlement queue `src/backend/settlement/settlement-queue.ts` | `fifo`, `byMission`, promise chain `tail` | `enqueue`, `drainOnce`, `flush`, `getStatus` | the emitter (a promise) | enqueue during a drain; an emitter that rejects; flush awaits one link | one emission at a time, in order, exactly once; dedupe; flush covers what was scheduled |
| Phase lattice `src/backend/shared/mission-phases.ts` | none | `nominalNextPhase`, `validVertexNextPhases`, `latticePhaseReadiness` | ledger callers | – | committed transitions follow it |
| Mission ledger `src/backend/vertex/mission-ledger.ts` | `events` | `append`, `tailHash`, `toArray`, `verifyChain` | every other part | the tail is read by the caller, the push happens after an await | the chain verifies; rows are never lost or reordered |
| Consensus gateway `src/backend/vertex/consensus-gateway.ts` | none | `suggest*`, `commitVertexBatch` | ledger | validated before, committed after an await; string order of keys | deterministic order, valid transitions |
| Replay `src/backend/vertex/demo-replay.ts`, `src/backend/replay/` | none | fold of the ledger | all views | agreement with the live objects | replay shows what the live object holds |
| Local runtime and store `src/lib/runtime/localMissionRuntime.ts`, `src/lib/state/runtimeStore.ts` | ledger, registry, saved checkpoint, interval | bootstrap, advance, fast-forward, target, task, checkpoint, heartbeats, seal, restore | ledger, gateway, settlement API, sessionStorage | every button and the timer overlap; page reloads | valid phases, seals only of finished missions, acknowledged checkpoints of the open scenario survive |
| Settlement API `src/backend/api/settlement.ts`, `src/backend/arc/` | none | `sealArcSettlement`, `buildRewardManifest` | ledger | phase and root read before awaits | sealed root covers the ledger |
| Task orchestrator and swarm simulator `src/backend/vertex/task-orchestrator.ts`, `swarm-simulator.ts` | tasks, bids, telemetry, graph | `tick` and its steps | ledger, event bus, shared map | `tick` overlaps itself; winners disappear | completion is final, lost winners are replaced, replay agrees |
| Blackout FSM `swarm/coordination/state_machine.py` | mode, drones, explorer, isolation clock | `on_heartbeat`, `elect_explorer` | heartbeats, time | any order and loss of heartbeats | no exploring without an explorer; solo only after the window |
| Bully election `swarm/bully_election.py` under `scripts/run_5drone_p2p.py` | candidates, leader, state, timers, role | `start_election`, `receive_*`, `tick`, `declare_victory` | P2P messages, chain manager | several threads without a lock; lost, late and repeated messages; timeouts | no two leaders who know of each other; state, leader and role agree; elections end |
| PBFT cluster `swarm/bft_pbft.py` | view, ordered log | `run_consensus_round`, `order` | task bidding | rounding of quorum and fault bound | orders exactly when enough replicas are honest |
| Monotonic shared map `src/backend/shared/tashi-mission-map-machine.ts` | cells, dirty set, version | `mark*`, `upsert`, `merge`, `delta`, `snapshot`, `MapDeltaCoordinator` | other nodes through the commit adapter | late, duplicated, reordered, lost deltas; batches cut at a limit | knowledge only grows, nothing dirty is forgotten, copies converge |
| Mission state machine (same file) | phase, version, transitions, targets, objectives | `transition`, `forceAbort`, `advanceIfReady`, target operations | map, nodes | targets change while the phase moves on | transitions form one chain; nobody is left behind |
| Task bidding `src/backend/shared/tashi-task-bidding-recovery.ts` | window, bids, weights, commits | `openBidding`, `submitBid`, `commitBids` | Lattice, Vertex (a promise) | bids, commits and windows during the await | one authoritative winner |
| Recovery (same file) | ledger, checkpoints, mission context | `createCheckpoint`, `restoreFromLatestCheckpoint`, `rehydrateMissionState` | ledger shared with other missions | restarts; replay over shared objects | replay rebuilds the mission |
| Live fleet map `src/foxmq/`, `src/swarm/sharedMap.ts` | cells with rank, version, time | `mergeMapCellMeta`, sync step, partition buffer | simulated mesh edges | late, duplicated, reordered deltas | merge is monotone and independent of order |
| Mesh resilience `src/vertex2/` | proposal, votes, retry queue, peers | `registerVote`, `drain`, ... | the simulator | the quorum base changes between votes | one decision per proposal |
| Recovery manager, safety engine, registry, reputation, relay chains, role manager | scores and snapshots | – | ledger | real numbers | see `PROJECT.json` |
| UI, wallet, ROS 2, Webots, vision, cloud functions | – | – | – | I/O | not modelled |

`PROJECT.json` lists every component with its status, and the hazards: the places in
the code where an untested order of events could go wrong, with the properties
that watch them.

## 2. The modules

```
MissionPhases            the phase lattice (operators only)
MissionLedger            append split at its await, reopening, verifyChain
MissionMachine           EXTENDS MissionPhases; phase and targets of a mission
  MissionHistory_proofs  theorems about both
MissionRuntime           EXTENDS MissionPhases, INSTANCE MissionLedger
  MissionRuntime_proofs
SettlementQueue          INSTANCE SerialSettlement (refinement)
  SerialSettlement       the abstract promise of the queue
  SettlementQueue_proofs
SwarmTasks               TaskOrchestrator under the ticks of the simulator
  SwarmTasks_proofs
SharedMap                replicas of the monotonic map over an unreliable network
FoxMapMerge              the live map's cell join (operators only)
  MapMerge_proofs        theorems about both
TaskBidding              bid window, bids and overlapping commitBids
MissionRecovery          checkpoints, restarts and replay
  MissionExecution_proofs  theorems about both
DroneElection            bully election, one step per unlocked write
PbftOrder                PBFT rounds and view changes (operators only)
  SwarmAgreement_proofs  theorems about both
BlackoutStateMachine     the Python FSM
  BlackoutStateMachine_proofs
MC*                      one per module with a run
```

**Asynchrony.** JavaScript runs to completion between awaits. So in the TypeScript
models an action is what a function does from its start, or from an await, to the
next await or return; what it read before the await is kept in the call's record
and used as it was. Synchronous code (the map, the mission machine, recovery) has one action per
method. In Python, `on_heartbeat` is one action; the drone coordinator has several threads
and no lock, so its code is cut at every write another thread can see.

**Overlap.** `MissionRuntime` and `SwarmTasks` let calls overlap and record in the history
variable `overlapped` whether they have. What the code only keeps up for one call at a
time is stated under `~overlapped`; the rest is stated without it.

Operators marked `Fault:` are never part of a specification. Each changes one
definition the way a slip in the code might; substituting it must make TLC
refute one property, which shows that the property has teeth. `PROJECT.json`
lists them under `mutants`.

### SettlementQueue, SerialSettlement

`rows` are the `QueuedSettlement` objects in the order `enqueue` created them; `fifo`
and `byMission` refer to them by number as the code shares them by reference. The
promise chain `tail` gets one `drainOnce` per row, so it is represented by
its length `Len(rows)` and by `drained`, the number of links that have returned.
`DrainOnce` runs a link to its first await or its return; `EmitAnswers` resolves or rejects
the emitter's promise and goes on with the loop. `flush` captures the chain's
length. The manifest is carried unread and left out.

`SerialSettlement` states the promise without queue or chain: settlements are accepted,
emitted one at a time in the order of acceptance, and answered once.

### MissionPhases, MissionLedger

`append` is `StartAppend` (arguments evaluated, `tailHash()` among them; the digest
is under way) and `FinishAppend` (the row is pushed). Digests may end in any
order. SHA-256 is taken to be collision free and a hash is modelled by what it is
computed from, the sequence of event cores up to the row. The module has no run of its own: `MissionRuntime` runs it, with calls that may
overlap. The constant `Exclusive` tells callers that await each other (bootstrap, one batch) from those that
do not, for the theorems. `Reopen` is `new MissionLedger(copy)`. `MaxEvents` bounds the ledger; 0 means
no bound, which is how `MissionRuntime` instantiates it.

### MissionRuntime

One shared ledger; `call[c]` is the stage of an asynchronous call, `inflight[c]`
its pending append. Actions: `AdvancePhase`, `FastForward`/`NextFastForward`
(the loop of `fastForwardDemo`), `AddTarget`, `AssignDemoTask`, `TickHeartbeats`/
`NextHeartbeat` (the interval), `RecordCheckpoint`/`PersistCheckpoint`,
`SealSettlement`/`BuildRewards`/`AppendSeal`/`AppendAnchor`, `AppendDone`, and
`Reload` (page reload: calls are gone, and the page opens the scenario it starts with).
`scenario` is that of the open mission; a run may begin with any. `TryRestoreSession` reopens the saved ledger when it is of the page's scenario; any other
checkpoint is cleared, and `NewMission` begins. Another scenario chosen in the open page is left out: it opens a workspace as a reload does, but the calls under way then go on with the old ledger.
Bootstrap is not cut at its awaits; what it leaves is `Bootstrapped`.
Whether the registry's budget check passes depends on telemetry and is left open.
`acked` and `seals` record what the operator was told (label and scenario) and what was sealed.
`Phase` is the phase a replay ends in: only `mission_created` and `phase_transition` rows set it, so it is that of
the last such row.

### SwarmTasks

The task half of `VertexSwarmSimulator.tick`, with several ticks under way (the
store's interval does not wait, and `stepOnce` may be pressed at any time).
A task keeps the number of bids still `submitted` per node; any ranking of them may
come out of `scoreBid`; any set of nodes may have usable telemetry. `assignments`
is what a replay of the rows pushed so far shows. `AssignLoop` and
`ReassignLoop` are the two loops of `assignOpenTasks` from one await to the next.

### SharedMap

Each node has `cells`, `dirty` and `version` as `MonotonicSharedMap` has. `sent` holds every delta and
snapshot handed to the commit adapter, and any of them can be merged at any time and any number of
times: loss, delay, repetition and reordering need no further actions. `marked` is the common body of the six `mark*`
methods, `resolve` and `merge` are kept whole. `stageTarget` and `mergeRemote` commit what the
code commits in the same call. Clocks of different nodes are unrelated: a mark carries any time.
Metadata is the set of its keys.

### MissionMachine

`targets` holds statuses; every check of `computeChecks` on targets is exact, and the checks on nodes, roles, coverage and
positions are a choice made anew at each evaluation, as all of these change under the machine. `Record` is the common end of `transition`
and `forceAbort`: the request is recorded and, if granted, the phase and its version move. `TransitionsChain` is about every record, the rejected ones and forced aborts among them. `reopened` remembers whether a target
changed when the mission was already on its way home.

### TaskBidding

One task. `commitBids` ranks and then awaits Vertex; `Committed`, `Aborted` and `Failed` are what
follows the await. While a call waits, bids are taken, other calls start and windows are opened; `raced` remembers in which rounds
that happened. A score is any number, a verdict of Lattice any Boolean, and so is whether Lattice still knows the bidders.

### MissionRecovery

Replay assigns to fields of target objects that checkpoints and ledger rows refer to as well. The model therefore has a `heap` of target objects,
and context, checkpoints and rows hold references. `live` is what the host left; `NewCoordinator` is a restart over the same ledger. Nothing in the code makes it restore before it is used:
it may act, and `createCheckpoint` may seal its blank mission. `partial` remembers that a context may lack what earlier rows tell; only a restore without a checkpoint ends it, since it replays them all.
Of a target the four fields are kept that replay brings back. It stamps the times of a target anew and does not bring back the metadata of a confirmation; the optional `setPhase` and `upsertTarget` are there, as in the repository's context.
A checkpoint seals the last row of the shared ledger; when that row belongs to another mission, `missionEventsAfter` does not find it
and everything is replayed. The host's own steps (`UpsertTarget`, `ChangeTarget`, `SetPhase`) are external: they change the context with a new object and append the row, as
the demo host in the file and the mission state machine do. The loop of `restore` over the ledger is the recursive function `ReplayFrom`: the context
before the first row and after each. The specification's names (`RecoverySpec` and its parts) differ from those of `TaskBidding` so that one module can extend both.

### DroneElection

Per drone: the fields of `BullyElection` and the chain manager's role, written by the tick thread (thread 0) and by as many server threads as `Handlers` says, one for each
announcement being handled. No lock protects the fields, so `step` names the write each thread makes next and `winner` the drone it makes leader. A tick decides (`Decide`) on what it reads and
acts later: `RestartState`, `RestartCandidates` are `start_election`; `Pick` and what follows it is `_finalize_election`, through `Victory...` (`declare_victory` and its callback) or `Accept...` (`receive_election_win`
and its callback), to `StoreState` and `StoreLeader`. `OnElectionWin` is a server thread taking up an announcement, which goes on with the same `Accept...` writes; `OnHeartbeat` makes one write, and is one step.
Messages sent stay deliverable and are never due. `Depth` is the depth a drone ranks itself by, `Advertised` the one in its heartbeats, which the code takes from
another object. History: `basis`, the candidates a drone picked its last winner from; `raced`, the drones for which an announcement was being handled between that pick and the end of the storing.
The agreement of state, leader and role is a matter of drones `AtRest`, where no thread is between two writes.

### BlackoutStateMachine

Time is kept as ages, capped where comparing them tells nothing more; depth and
trust are one ordered value; ids are numbers in their order. `OnHeartbeat` composes
the mode changes in the order of the code.

### FoxMapMerge, PbftOrder

Pure functions, for which theorems about all inputs (in `MapMerge_proofs` and `SwarmAgreement_proofs`) say more than a run: the join of two cell records of the live map,
and a PBFT round as a function of view, committee and byzantine members (the cluster is one sequential scheduler).

## 3. The runs

| Run | Bounds | Shows |
|---|---|---|
| `settlement_queue` | 2 missions, 4 rows, 1 flush at a time | `OnePendingPerMission`, `FlushSeesAllDone`, refinement `SerialSpec`, `EveryRowFinishes` |
| `runtime` | 2 calls that may overlap, 2 scenarios (with 1 and 2 roster nodes), 3 calls in all, 2 fast-forward steps, starting in return | `SerialChainVerifies`, `SerialTransitionsValid`, `SealedWhenTerminal`, `SealCoversLedger`, `AckedCheckpointsSurvive`, `LedgerSteps`, `CallsReturn` |
| `runtime_fork` | 1 roster node, starting in discovery | counterexample to `RuntimeChainVerifies` |
| `swarm_tasks` | 2 ticks that may overlap, 2 nodes, 1 task, 2 bids per node | `AssignmentsReplayed`, `WinnerWasRanked`, `CompletedStaysCompleted`, `LostWinnerReplaced` |
| `blackout_fsm` | 3 drones, 2 depths, ages to 1, window 2 | `ExplorerBeforeExploring`, `SoloOnlyWhenIsolated`, `OneExplorer` |
| `shared_map` | 2 replicas, 2 cells, marks seen and target, 2 times, deltas of 1 cell, versions to 2, 2 messages | `KnowledgeGrows`, `ThreeExchangesConverge`, `CleanMeansSent`, `VersionNamesContent` |
| `mission_machine` | 2 targets, 1 expected, 8 transition records of which 1 rejected, counters to 2 | `TransitionsChain`, `CompleteLeavesNobody` |
| `recovery` | 1 target, 1 node, 2 phases, 6 rows, 2 checkpoints | `RestoreRebuilds`, `VersionRebuilt` |
| `bidding` | 2 bids, 2 scores, 2 calls, 2 windows, 3 commit records | `OneWinnerUnlessRaced`, `CancelledHasNoWinner` |
| `drone_election` | 2 drones, the deeper one with 1 and the other with 3 threads, timeouts of 1 and 2 ticks, 1 stop | `LeaderIffElected`, `ExplorerIffElected`, `EveryoneGetsALeader` |
| `drone_split_brain` | 2 drones, the first the deeper, heartbeats that tell depth 0 as the script's do | counterexample to `NoTwoLeadersWhoMet` |
| `drone_reelect` | 2 drones with 1 thread each, 1 stop | counterexample to `StoppedLeaderReplaced` |

The `TypeOK` of each module that has one (`MachineTypeOK` in `MissionMachine`) is checked in its passing run; `MissionRuntime`, `SwarmTasks` and `MissionRecovery` have none, since
their properties depend on all of their state.

**Why the bounds are enough.** Four rows let a mission be enqueued, finish, be
enqueued again, and let a link of the chain find the queue already emptied by an
earlier one. In the runtime all races are between two calls; the start
phase puts the run next to the end of the pipeline, where the terminal tests are
made, and three calls are enough for advance, seal and checkpoint to meet. Two scenarios are the page's own and
any other; once the page is reloaded its own is the open one, and one roster node is then enough for the loops, whose longer form the other has. Two bids
of one node are what makes a node its own fallback. Three drones with thresholds
3 and 2 separate all branches of the FSM. `MaxFast` stands for the 14
iterations of `fastForwardDemo`; the loop's exits do not depend on the number. Two replicas suffice for the map: its properties
are about one node or a pair of them, and messages are never consumed; deltas of one cell make the batch limit bite with two cells. Eight
transition records are the seven that lead from init to complete and one rejected request. Six ledger rows hold a target's
life, a phase change, a checkpoint and a row of another mission, and a new coordinator's checkpoint. In `drone_election` the shallower drone wins or loses by whether it has heard of the other, and
its tick can cross two announcements at once: one between any two of its writes, and a second between any two of the first's. Split brain is a matter of two drones; that of a
larger swarm contains it.

**Symmetry** is used in `shared_map` (replicas, cells), `mission_machine` (targets) and `bidding` (bids, calls), where nothing
depends on which it is and no liveness is checked.

**Deadlock** is checked except in `shared_map` and `bidding`, whose bounds on messages, versions and commits end every behaviour; elsewhere flushes, reloads,
new ticks, restores and time are always possible.

**Fairness.** Weak fairness of continuations: the event loop runs the continuation of
every settled promise, and digests settle. In `SettlementQueue` that the emitter
answers is an assumption on the function passed to the constructor. In
`SwarmTasks`, new ticks begin because the interval is running; target rows are not assumed to
occur. In `DroneElection` the tick thread of a running drone keeps ticking; nothing is assumed of the
network, so every liveness property there holds, or fails, with all messages lost.

### Where code and documentation disagree

1. `runtime_fork`: `consensus-gateway.ts:99` promises rows "with correct
   ``previousHash``"; the tail is read before the digest is awaited, so a heartbeat tick and
   a button press give two rows the same predecessor and `verifyChain()` fails. What still holds is `LinksRooted` of `MissionLedger`, proved for any overlap of the ledger alone (`LedgerRooted`) and
   of the runtime with its reloads (`RuntimeLedgerRooted`): the rows are a tree. That the runtime uses its
   ledger in no other way is `LedgerSteps`, which `runtime` checks and `RuntimeUsesLedger` proves.
2. `drone_split_brain`: `bully_election.py:3` says "Implements depth-based leader election with deterministic tie-breaking (lexicographic drone ID)." and `run_5drone_p2p.py:233`
   names one drone "# Explorer (deepest)"; heartbeats carry the chain manager's depth, which is 0.0 and never set (`run_5drone_p2p.py:137`), while every drone ranks itself by the 50.0 to 10.0 it was given. So each
   ranks itself first however often it hears of the others, and elects itself unless another's victory is announced to it before its own election ends. That nothing else can do this to drones that met, no loss, crossing or repetition of messages, is `SplitBrainExplained`.
3. `drone_reelect`: `bully_election.py:4` says "Supports automatic re-election on explorer timeout."; on a timeout `tick` calls
   `start_election`, which keeps `current_leader` and the time of its last sign, so the next tick restarts
   the election again, and it never ends.

`runtime` shows that (1) is a matter of overlap only: until calls overlap, with reloads anywhere, the chain verifies.

### What a reader of the code should know

Observed while modelling; where a property is restricted, this is why.

* Overlapping phase advances both commit the step from the phase they read (`api/missions.ts:51`), and a stale one can take a mission out
  of its terminal phase while its settlement is being sealed: hence `~overlapped` in `SerialTransitionsValid` and `SealedWhenTerminal`.
* A row appended while a settlement is being sealed is not covered by the root it carries (`api/settlement.ts:31`): hence `~overlapped` in `SealCoversLedger`.
* A page load starts with `collapsed_building` (`TashiWorkspace.tsx:7`), and `tryRestoreSession` throws away a saved checkpoint of any other scenario (`localMissionRuntime.ts:91-97`), although it was
  reported as recorded: hence the open scenario in `AckedCheckpointsSurvive`.
* Rows of overlapping simulator ticks may be pushed in another order than the orchestrator changed: hence `~overlapped` in `AssignmentsReplayed`.
* After solo flight the blackout FSM has its old `_explorer_id` and stays in FORMING (`state_machine.py:194`), whereas `docs/state-machine.mmd:4` has `FORMING --> EXPLORING : explorer elected`.
* In the shared map one merge can drop a stronger state that has the lower version, and merging raises versions itself; three exchanges, not one, make two copies agree.
* `areObjectivesComplete` is true while the counters are zero; confirming an extracted target reopens it and inflates the counters; `complete` does not look at open extractions again: hence `~reopened` in `CompleteLeavesNobody`.
* `commitBids` may be repeated, and commits and rewards again; a bid that arrives during the await may outrank the winner that is then recorded; the fallback ranking also contains rejected bids; the `ok` flag of Vertex is not read.
* Replay counts phase rows again when it goes over rows the context has counted (hence `~inflated` in `VersionRebuilt`). It also overwrites objects that sealed checkpoints and ledger rows hold, so their hashes no longer verify; the model has no hashes.
* Heartbeats of the drone coordinator carry the chain manager's depth, which nothing sets, so with the script's depths every drone ranks itself first. Each is elected unless another's announcement reaches it before its own election ends (`drone_split_brain`); `drone_election` gives both depths the same value so that elections are lost as well as won.
* An announcement handled between `bully_election.py:188` and `:189` leaves a follower that names itself the leader; one whose `set_role` comes after that of the election leaves an elected drone with the role of a relay.
  Hence `raced` in one half of `LeaderIffElected` and `ExplorerIffElected`; the other halves (an elected drone names itself leader, an explorer is elected) hold whatever crosses.
* A coordinator that takes a checkpoint before it has restored (`tashi-task-bidding-recovery.ts:1516`) seals a blank mission over the rows that tell it, and the next restore starts there and replays nothing of them: hence
  `partial` in `RestoreRebuilds` and `VersionRebuilt`. What such a context knows is still true or blank.
* Replay sets `confirmedAtMs`, `assignedAtMs` and `extractedAtMs` to the time of the replay, and drops the metadata of a confirmation (`tashi-task-bidding-recovery.ts:1222`).

## 4. The proofs

All for arbitrary constants. The assumptions are the named `ASSUME`s, which give the constants their types and say that
the roster and the targets are finite sets and, for the FSM, that the set of depths has a greatest element. The bounds of the
runs are constants too, so the theorems hold for every value of them. In each module the theorem `...Invariance` shows
the inductive invariant, and the others follow from it.

* **SettlementQueue_proofs.** That one mission
  has one pending row depends on `byMission` pointing to it, which depends on `fifo` being the
  unfinished suffix of `rows`. `QueueInv` says that: `FifoShape` (fifo is exactly the suffix of unfinished
  rows), `StatusShape` (finished, then at most one processing, then queued), `LatestShape` (a
  pending row is the one `byMission` knows), and that no more links have returned than
  rows are finished. From it: `OnePending`, `FlushComplete` (the link a flush awaits returns only after
  the row it was chained for) and `QueueIsSerial`, the step-by-step refinement of `SerialSettlement`.
* **MissionHistory_proofs**, the ledger. `LedgerInv` adds to the properties what holds of calls under
  way: `PendingRooted` (a pending call links to a row that is there, hence
  `LedgerRooted` under any overlap) and `PendingAtTail` (without overlap it links to the tail,
  hence `LedgerChainIntact`). These theorems are about every use of the ledger; the run `runtime` is one of them.
* **MissionHistory_proofs**, the mission machine. `MachineInv` is the type invariant, `TransitionsChain` and
  `HomeLeavesNobody`: a mission in return or complete, with no target changed since, has no assigned target. The last part is
  what `CompleteLeavesNobody` lacks, since the checks for complete do not look at open extractions; those for return do. The
  work in `RecordsTellTheMission` is what a new record does to the set of accepted ones, its
  cardinality and its greatest element.
  The names of the machine's specification (`MachineSpec` and its parts) differ from the ledger's so that one module can extend both.
* **MissionRuntime_proofs.** The actions are first brought down to four kinds of step (start an append, finish one, change a call without the ledger, reload, which restores or begins a new mission).
  `RuntimeInv` has three parts. `CallsShape`: which calls have an append pending. `CheckpointShape`: what is saved
  is of the open scenario, is the beginning of its ledger and holds every checkpoint acknowledged for it; before the page's scenario is open nothing is acknowledged for it, and a call about to save has its row in the ledger; this is what
  `CheckpointsSurvive` needs, and it holds however calls overlap. `Serial`, under `~overlapped`: one call is under way, and
  its pending append and the root it seals are those of the ledger as it still stands. From that
  follow `SerialCallsVerify`, `SerialCallsFollowLattice`, `SealsAreTerminal` and `SealsCoverLedger`, that is, everything that was read before
  an await is still true after it. `RuntimeUsesLedger` shows the runtime to be a user of `MissionLedger`.
  `RuntimeLedgerRooted` needs an invariant of its own, `Rooted`: not only the rows, but also the appends under way, link to a row that is there or to genesis. A
  reload keeps it because the saved copy is a beginning of the ledger (`BeginningRooted`), or the new mission's ledger is written row after row, and because it drops every call.
* **SwarmTasks_proofs.** One fact, `Visited`, says what a stretch of either loop of `assignOpenTasks` leaves behind: which tasks it may have
  changed and how, and which row the tick then waits for. `SwarmInv` is the shape of tasks and ticks, `Ranked` (the winner was ranked,
  which needs that the first of a ranking has a submitted bid) and, under `~overlapped`, `OneTick`: the row a tick waits
  for is the only thing the replayed assignments lack. `CompletedForGood` is an action property and holds with any overlap.
* **BlackoutStateMachine_proofs.** The three properties and `TypeOK` are inductive together
  (`FsmInv`). The work is in the election: `SomebodyElected` (a best candidate exists, from
  the greatest depth and least id) and `OneElected` (the order is total), which give
  `ExploringIsLed` and `ExplorerUnique`; `SoloIsIsolation` follows the isolation clock.
* **SwarmAgreement_proofs**, the bully election, with every write a step and any number of server threads. `DroneInv` is `Sound` of every drone: `CandidatesTrue` (a drone knows of another only a depth that one announced or
  advertised), `WinnerBeatsBasis` (an elected drone, or one about to be, beat everyone it picked from), `ElectionShape` (what a thread between two writes can rely on), and two parts about how far
  leader, state and role have come apart: `Behind` says which thread is about to mend an elected drone that does not name itself leader, or an explorer that is not elected, and needs no assumption about what crosses; `Uncrossed`
  says the rest, for drones not in `raced`. At rest they give the two halves of `LeaderAgrees` and `ExplorerAgrees`. Each write is a lemma of its own, and a drone that does not move stays sound (`UnmovedSound`).
  `SplitBrainExplained`: two winners who met would outrank each other, unless one of them advertises less depth than it ranks itself by. With heartbeats that tell the depth a drone ranks itself by there is no split
  brain among drones that met; with the script's there is (`drone_split_brain`). The theorem is about every value of both and has no hypothesis on them.
* **SwarmAgreement_proofs**, PBFT. `QuorumIsTight` is the arithmetic of the two roundings; with the cardinalities (`HonestCount`) it gives `RoundSucceedsExactly`.
  `PrimariesRotate` finds a view with an honest primary, hence `OrderTolerates`.
* **MapMerge_proofs**, the shared map. `MapInv` adds that every cell on the network has been marked (`SentCellsMarked`: a map takes over a cell it does not know as it is,
  so an unmarked one would come in with version 0) and that a clean cell went out as it stands. Every action is shown to be a step of one node
  (`StepOf`), from which `KnowledgeNeverShrinks` and `VersionIsIdentity` follow as action properties. `Convergence` is a fact about `resolve` on all well-typed
  cells, by cases on versions, times and states.
* **MapMerge_proofs**, the live map. The merge of two records is an upper bound of both in the order rank, version, time and has the key of one of them (`MergeIsUpperBound`). From that
  alone follow `RedeliveryIsHarmless` and `OrderDoesNotMatter`; `KnowledgeIsKept` is by cases. Order can matter for confidence and trust, which the code takes from whichever record came with the higher version, and the theorem does not claim otherwise.
* **MissionExecution_proofs**, bidding. While a window has not been raced, a call that waits decided on what is still the ranking. `BiddingInv` says so of the
  current window (`CurrentVoice`: calls and commits name the first of the ranking as it is) and of earlier ones (`PastVoice`: their commits agree), that calls left over from an
  earlier window have raced it (`OldCallsRace`), that an abort was decided without a ranked bid (`AbortsAreBlind`) and that a committed window takes no bids (`CommittedTakesNoBids`). That
  a ranking has a first bid (`TopExists`) is an induction over its length, done as a least counterexample with `WFMin`.
* **MissionExecution_proofs**, recovery. Replay assigns to objects that checkpoints and rows hold too, so what a checkpoint shows today is not what it
  showed when it was sealed. The invariant (`RecoveryInv`) says that two histories exist: `past`, the mission after each row (`Tells`: each row takes the mission from one
  to the next, and the last is `live`), and `birth`, for each object the row that added the target it stands for (`Objects`). An object `Shows` its target at row q if
  its value is that of the target at q or at a later row before the target is added anew; so a later replay may write to it, but never take it back behind q. With it `ContextSound` speaks of the context,
  and `CheckpointsSound` of every checkpoint at its sealed row, each with less to say of a partial one: what it knows is right. The loop is an induction over the ledger (`LoopRuns`, `LoopRebuilds`, as a
  least counterexample, `LeastNat`): at row i the context is `Rebuilt`: each target is what the mission had at i, or `Mixed`, with some fields of that and
  others of a later value that an earlier replay left in the object (`Between`); this is where it matters that `confirmedBy` only grows within one life of a target (`EpochGrows`). At the last row nothing is left to be between
  (`RebuiltAtEnd`), which is `MissionRebuilt`, and the objects written to may stay where checkpoints hold them (`Kept`). `VersionIsRebuilt` counts the same rows.
  No assumption on the constants is needed.

**Only model-checked:** all liveness (`EveryRowFinishes`, `CallsReturn`,
`LostWinnerReplaced`, `EveryoneGetsALeader`), which the prover does not handle. Every invariant, action property and refinement that a passing run checks is also a theorem.

## 5. Not modelled, and the plan

Not modelled, with reasons, in `PROJECT.json`: numeric scoring, geometry, hashing and
reward arithmetic, hardware and UI I/O. A failing `sessionStorage` write is outside
`MissionRuntime` too. Most of the repository's lines are presentation (React components, pages, styles, demo
data, generated routes) without protocol state of their own: the modelled share of all lines is small for that reason, while the
parts that coordinate are mostly covered. The mesh simulators (`src/vertex2/`, `src/swarm/`, `src/foxmq/mapSyncEngine.ts`) are
single-threaded simulations that draw loss and delay at random; their algorithms are the candidates that remain.

In this order:

1. `MeshConsensus`: proposals, votes over changing reachability, the retry queue.
2. `WorkspaceLifecycle`: `initWorkspace` and `setScenario` overlapping, the lost interval handle.
3. `VertexBatch`: order of a batch as the code's string keys give it, against the order by time.
4. `SwarmTasks` extended by start-up, phase advance and the rows written with `void`.
5. The partition handler beside `DroneElection`; the recovery manager and snapshot replay of `src/backend/`.
