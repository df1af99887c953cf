------------------------------- MODULE SwarmTasks -------------------------------
(***************************************************************************)
(* Task allocation in the swarm simulator: TaskOrchestrator                *)
(* (src/backend/vertex/task-orchestrator.ts) as the ticks of               *)
(* VertexSwarmSimulator (src/backend/vertex/swarm-simulator.ts) drive it,  *)
(* and the assignments that a replay of the ledger shows.                  *)
(*                                                                         *)
(* tick() is asynchronous and nothing keeps two of them apart: the store's *)
(* interval and every operator button call it without waiting for the last *)
(* one.  An action is what a tick does from one await to the next; the     *)
(* await is that of a ledger row, which is pushed when the tick goes on.   *)
(*                                                                         *)
(* Data: nothing tells "open" from "bidding", so both are "open" here.     *)
(* Only bids still "submitted" ever count, so a task keeps their number    *)
(* per node; a bid that is rejected, stale or superseded is gone.  Scores  *)
(* are real numbers of a noisy world, computed anew on every tick: any     *)
(* ranking of the submitted bids may come out.  Which nodes have usable    *)
(* telemetry is left open too (dropouts and blackouts included).           *)
(***************************************************************************)
EXTENDS Naturals, Sequences, FiniteSetsExt

CONSTANTS
    Nodes,      \* the agents of the swarm
    Ticks,      \* the ticks that may be under way at once
    MaxTasks,   \* bound on the tasks opened
    MaxBids     \* bound on the bids of one node for one task

NoNode == "none"

ASSUME SwarmTasksAssumption ==
    /\ NoNode \notin Nodes
    /\ MaxTasks \in Nat /\ MaxBids \in Nat

VARIABLES
    task,         \* the tasks, in the order they were opened
    viable,       \* the nodes with usable telemetry, as the last tick saw them
    tick,         \* what each tick is doing
    assignments,  \* per task, the node a replay of the ledger shows it with
    overlapped    \* history: some tick began while another one was under way

vars == <<task, viable, tick, assignments, overlapped>>

\* openTask.  Of the declared statuses "expired" and "superseded" are never given.
OpenTask ==
    [status |-> "open", bids |-> [n \in Nodes |-> 0],
     winnerNodeId |-> NoNode, fallbackNodeIds |-> <<>>]

\* The ledger row a tick waits for.
Row(type, t, n) == [type |-> type, task |-> t, node |-> n]

NoRow == Row("none", 0, NoNode)

NoTick == [at |-> "idle", todo |-> {}, row |-> NoRow]

Init ==
    /\ task = <<>>
    /\ viable = Nodes
    /\ tick = [p \in Ticks |-> NoTick]
    /\ assignments = [t \in 1 .. MaxTasks |-> NoNode]
    /\ overlapped = FALSE
-------------------------------------------------------------------------------
(* TaskOrchestrator *)

\* The rankings scoreBid may produce, cut as assignWinner cuts them: a winner
\* and the nodes of the next three bids, or all of them when there are no more.
\* A node that bid twice may turn up twice, and be its own fallback.
Rankings(spec) ==
    {ranked \in UNION {[1 .. k -> Nodes] : k \in 1 .. 4} :
        \A n \in Nodes :
            LET places == Cardinality({i \in DOMAIN ranked : ranked[i] = n})
            IN  /\ places <= spec.bids[n]
                /\ Len(ranked) < 4 => places = spec.bids[n]}

\* Fault: the winner's own bid is superseded too.
assignWinnerSupersedesAll(spec, ranked) ==
    [status |-> "assigned",
     bids |-> [n \in Nodes |-> 0],
     winnerNodeId |-> ranked[1],
     fallbackNodeIds |-> Tail(ranked)]

\* The bids of the other nodes are superseded, the winner's own are not.
assignWinner(spec, ranked) ==
    [status |-> "assigned",
     bids |-> [n \in Nodes |-> IF n = ranked[1] THEN spec.bids[n] ELSE 0],
     winnerNodeId |-> ranked[1],
     fallbackNodeIds |-> Tail(ranked)]

\* reassignFromFallback: the winner has been lost ...
Lost(spec) == spec.status = "assigned" /\ spec.winnerNodeId \notin viable

\* ... the first viable fallback takes over ...
ViableFallbacks(spec) ==
    {i \in 1 .. Len(spec.fallbackNodeIds) : spec.fallbackNodeIds[i] \in viable}

Successor(spec) == spec.fallbackNodeIds[Min(ViableFallbacks(spec))]

\* Fault: the last fallback takes over, viable or not.
ReassignedToLast(spec) ==
    [spec EXCEPT !.winnerNodeId = spec.fallbackNodeIds[Len(spec.fallbackNodeIds)]]

Reassigned(spec) == [spec EXCEPT !.winnerNodeId = Successor(spec)]

\* Fault: a task without a viable fallback is left as it is.
ReopenedForNobody(spec) == spec

\* ... or, without any, the task is open again.
Reopened(spec) == [spec EXCEPT !.status = "open", !.winnerNodeId = NoNode]

completeTask(spec) == [spec EXCEPT !.status = "completed"]

\* Fault: assignOpenTasks relies on assignWinner, which has no status guard.
NeedsWinnerInAnyStatus(spec) == \E n \in Nodes : spec.bids[n] > 0

\* What assignOpenTasks looks for.
NeedsWinner(spec) == spec.status = "open" /\ \E n \in Nodes : spec.bids[n] > 0
-------------------------------------------------------------------------------
(* VertexSwarmSimulator.tick *)

\* p waits for a row, with the tasks in todo still to be visited by the loop.
Waits(p, at, todo, row) == tick' = [tick EXCEPT ![p] = [at |-> at, todo |-> todo, row |-> row]]

After(todo, t) == {u \in todo : u > t}

\* The second loop of assignOpenTasks, from tasks ts on: tasks without a
\* successor are reopened on the way to the first that has one.  When there is
\* none the tick is over (phase and checkpoint rows are MissionRuntime's).
ReassignLoop(p, ts, todo) ==
    LET lost == {t \in todo : Lost(ts[t])}
        moved == {t \in lost : ViableFallbacks(ts[t]) # {}}
        t == Min(moved)
    IN  IF moved = {}
        THEN /\ task' = [u \in DOMAIN ts |-> IF u \in lost THEN Reopened(ts[u]) ELSE ts[u]]
             /\ tick' = [tick EXCEPT ![p] = NoTick]
        ELSE /\ task' = [u \in DOMAIN ts |->
                            IF u = t THEN Reassigned(ts[u])
                            ELSE IF u \in lost /\ u < t THEN Reopened(ts[u])
                            ELSE ts[u]]
             /\ Waits(p, "reassigned", After(todo, t),
                      Row("task_reassigned", t, Successor(ts[t])))

\* The first loop, from tasks ts on: the next task with a bid is deferred (in a
\* blackout) or assigned; after the last one the second loop begins.
AssignLoop(p, ts, todo) ==
    LET needy == {t \in todo : NeedsWinner(ts[t])}
        t == Min(needy)
    IN  IF needy = {}
        THEN ReassignLoop(p, ts, 1 .. Len(ts))
        ELSE \/ /\ task' = ts
                /\ Waits(p, "deferred", After(todo, t), Row("local_autonomy_activated", t, NoNode))
             \/ \E ranked \in Rankings(ts[t]) :
                  /\ task' = [ts EXCEPT ![t] = assignWinner(@, ranked)]
                  /\ Waits(p, "assigned", After(todo, t), Row("task_assigned", t, ranked[1]))

\* A tick begins: it takes the telemetry, then waits for target and role rows.
StartTick(p) ==
    /\ tick[p] = NoTick
    /\ viable' \in SUBSET Nodes
    /\ Waits(p, "sensing", {}, NoRow)
    /\ overlapped' = (overlapped \/ \E q \in Ticks : tick[q] # NoTick)
    /\ UNCHANGED <<task, assignments>>

\* A confirmed target opens a rescue task, however many are open.
SpawnRescueTaskForTarget(p) ==
    /\ tick[p].at = "sensing"
    /\ Len(task) < MaxTasks
    /\ task' = Append(task, OpenTask)
    /\ UNCHANGED <<viable, tick, assignments, overlapped>>

\* spawnTaskIfNeeded
MaySpawn ==
    /\ Len(task) < MaxTasks
    /\ Cardinality({t \in DOMAIN task : task[t].status = "open"}) < 2

\* simulateBids: on each open task any node may bid once more, and any submitted
\* bid may be rejected or have become stale.
BidsAfter(spec) ==
    IF spec.status # "open" THEN {spec.bids}
    ELSE {b \in [Nodes -> 0 .. MaxBids] : \A n \in Nodes : b[n] <= spec.bids[n] + 1}

PlanTasks(p) ==
    /\ tick[p].at = "sensing"
    /\ \E opened \in {task} \cup (IF MaySpawn THEN {Append(task, OpenTask)} ELSE {}) :
         \E bids \in [DOMAIN opened -> [Nodes -> 0 .. MaxBids]] :
            /\ \A t \in DOMAIN opened : bids[t] \in BidsAfter(opened[t])
            /\ AssignLoop(p, [t \in DOMAIN opened |-> [opened[t] EXCEPT !.bids = bids[t]]],
                          DOMAIN opened)
    /\ UNCHANGED <<viable, assignments, overlapped>>

Push(row) ==
    CASE row.type \in {"task_assigned", "task_reassigned"} ->
            [assignments EXCEPT ![row.task] = row.node]
      [] row.type = "task_completed" -> [assignments EXCEPT ![row.task] = NoNode]
      [] OTHER -> assignments

\* The row a tick waited for is pushed; replay folds it into assignments.
RowPushed(p, at) ==
    /\ tick[p].at = at
    /\ assignments' = Push(tick[p].row)
    /\ UNCHANGED <<viable, overlapped>>

AfterDeferred(p) ==
    /\ RowPushed(p, "deferred")
    /\ AssignLoop(p, task, tick[p].todo)

\* A task just assigned may be found to be done at once.
AfterAssigned(p) ==
    /\ RowPushed(p, "assigned")
    /\ \/ AssignLoop(p, task, tick[p].todo)
       \/ /\ Waits(p, "completing", tick[p].todo,
                   Row("task_completed", tick[p].row.task, tick[p].row.node))
          /\ UNCHANGED task

AfterCompleted(p) ==
    /\ RowPushed(p, "completing")
    /\ AssignLoop(p, [task EXCEPT ![tick[p].row.task] = completeTask(@)], tick[p].todo)

AfterReassigned(p) ==
    /\ RowPushed(p, "reassigned")
    /\ ReassignLoop(p, task, tick[p].todo)

Step(p) ==
    \/ PlanTasks(p)
    \/ AfterDeferred(p)
    \/ AfterAssigned(p)
    \/ AfterCompleted(p)
    \/ AfterReassigned(p)

Next == \E p \in Ticks : StartTick(p) \/ SpawnRescueTaskForTarget(p) \/ Step(p)

Spec == Init /\ [][Next]_vars

\* The simulation loop is running (setInterval), and the event loop gets to
\* every continuation.
FairSpec == Spec /\ \A p \in Ticks : WF_vars(StartTick(p)) /\ WF_vars(Step(p))
-------------------------------------------------------------------------------
\* However ticks overlap, a task that is completed stays so: no tick that
\* looked at it earlier assigns, reassigns or reopens it.
CompletedStaysCompleted ==
    [][\A t \in DOMAIN task : task[t].status = "completed" => task'[t].status = "completed"]_vars

\* However ticks overlap, an assigned task is with a node that stood in its last
\* ranking: the one whose bid is still submitted, or one of the fallbacks.  So
\* the bids made after a task is reopened decide who gets it next.
WinnerWasRanked ==
    \A t \in DOMAIN task : task[t].status = "assigned" =>
        \/ task[t].winnerNodeId \in {n \in Nodes : task[t].bids[n] > 0}
        \/ task[t].winnerNodeId \in Range(task[t].fallbackNodeIds)

\* While one tick runs at a time: between rows, a replay of the ledger shows an
\* assigned task with its winner, and a completed one no more.
AssignmentsReplayed ==
    (~overlapped /\ \A p \in Ticks : tick[p].row = NoRow) =>
        \A t \in DOMAIN task :
            /\ task[t].status = "assigned" => assignments[t] = task[t].winnerNodeId
            /\ task[t].status = "completed" => assignments[t] = NoNode

LostWith(t, n) == t \in DOMAIN task /\ Lost(task[t]) /\ task[t].winnerNodeId = n

\* A task does not stay with a node whose telemetry is gone.
LostWinnerReplaced ==
    \A t \in 1 .. MaxTasks, n \in Nodes : LostWith(t, n) ~> ~LostWith(t, n)
===============================================================================
