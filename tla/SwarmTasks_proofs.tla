--------------------------- MODULE SwarmTasks_proofs ---------------------------
(***************************************************************************)
(* Theorems about task allocation, for any swarm, any number of ticks      *)
(* under way at once, any number of tasks and of bids.                     *)
(*                                                                         *)
(* Both loops of assignOpenTasks are brought down to one fact, Visited:    *)
(* what a stretch of a loop leaves behind.  The invariant says that, while *)
(* ticks do not overlap, the ledger row a tick waits for is the only thing *)
(* the replayed assignments lack.                                          *)
(***************************************************************************)
EXTENDS SwarmTasks, SequenceTheorems, FiniteSetTheorems, WellFoundedInduction, TLAPS

TaskSpec ==
    [status : {"open", "assigned", "completed"}, bids : [Nodes -> Nat],
     winnerNodeId : Nodes \cup {NoNode}, fallbackNodeIds : Seq(Nodes)]

RowTypes == {"none", "local_autonomy_activated", "task_assigned", "task_reassigned",
             "task_completed"}

LedgerRow == [type : RowTypes, task : Nat, node : Nodes \cup {NoNode}]

\* The row that each await of a tick is about.
RowTypeAt ==
    [at \in {"idle", "sensing", "deferred", "assigned", "completing", "reassigned"} |->
        CASE at = "deferred" -> "local_autonomy_activated"
          [] at = "assigned" -> "task_assigned"
          [] at = "completing" -> "task_completed"
          [] at = "reassigned" -> "task_reassigned"
          [] OTHER -> "none"]

TickRecord == [at : DOMAIN RowTypeAt, todo : SUBSET Nat, row : LedgerRow]

\* A tick looks only at tasks there are, and waits for a row about one of them.
Sound(record, n) ==
    /\ record \in TickRecord
    /\ record.row.type = RowTypeAt[record.at]
    /\ record.todo \subseteq 1 .. n
    /\ record.at \notin {"idle", "sensing"} => record.row.task \in 1 .. n

\* WinnerWasRanked of one task.
WasRanked(spec) ==
    spec.status = "assigned" =>
        \/ spec.winnerNodeId \in {n \in Nodes : spec.bids[n] > 0}
        \/ spec.winnerNodeId \in Range(spec.fallbackNodeIds)

\* AssignmentsReplayed of one task, shown with node n by a replay.
Replayed(spec, n) ==
    /\ spec.status = "assigned" => n = spec.winnerNodeId
    /\ spec.status = "completed" => n = NoNode

\* The row tells of the assignment of task t.
Announces(row, t, spec) ==
    /\ row.type \in {"task_assigned", "task_reassigned"}
    /\ row.task = t
    /\ spec.status = "assigned" /\ spec.winnerNodeId = row.node

\* Types, and what holds however ticks overlap.
Shape ==
    /\ task \in Seq(TaskSpec) /\ Len(task) <= MaxTasks
    /\ tick = [p \in Ticks |-> tick[p]]
    /\ \A p \in Ticks : Sound(tick[p], Len(task))
    /\ assignments \in [1 .. MaxTasks -> Nodes \cup {NoNode}]

Ranked == \A t \in 1 .. Len(task) : WasRanked(task[t])

\* A row about an assignment tells of the task as it is.
Current(row, ts) ==
    row.type \in {"task_assigned", "task_reassigned"} => Announces(row, row.task, ts[row.task])

\* What holds while one tick runs at a time.
OneTick ==
    /\ \A p, q \in Ticks : tick[p] # NoTick /\ tick[q] # NoTick => p = q
    /\ \A p \in Ticks : Current(tick[p].row, task)
    /\ \A t \in 1 .. Len(task) :
         \/ Replayed(task[t], assignments[t])
         \/ \E p \in Ticks : Announces(tick[p].row, t, task[t])

SwarmInv ==
    /\ Shape
    /\ Ranked
    /\ ~overlapped => OneTick

\* What a stretch of a loop leaves behind that finds tasks ts: completed tasks are as
\* they were, the tasks it changed are open again or announced by the row p waits for.
Visited(p, ts) ==
    /\ task' \in Seq(TaskSpec) /\ Len(task') = Len(ts)
    /\ tick' = [tick EXCEPT ![p] = tick'[p]]
    /\ Sound(tick'[p], Len(ts)) /\ Current(tick'[p].row, task')
    /\ \A t \in 1 .. Len(ts) :
         \/ task'[t] = ts[t]
         \/ ts[t].status # "completed" /\ task'[t].status = "open"
         \/ /\ ts[t].status # "completed"
            /\ Announces(tick'[p].row, t, task'[t])
            /\ WasRanked(task'[t])
-------------------------------------------------------------------------------
(* The operators. *)

\* Min is the least element of a set of natural numbers.
LEMMA MinIsLeast ==
    ASSUME NEW T, T \subseteq Nat, T # {}
    PROVE  Min(T) \in T /\ \A m \in T : Min(T) <= m
<1> DEFINE R == OpToRel(<, Nat)
<1>1. PICK n \in T : \A m \in T : ~(<<m, n>> \in R)
  <2>1. IsWellFoundedOn(R, Nat)
    BY NatLessThanWellFounded
  <2> HIDE DEF R
  <2> QED
    BY <2>1, WFMin
<1>2. \A m \in T : ~(m < n)
  BY <1>1 DEF OpToRel
<1>3. \A m \in T : n <= m
  BY <1>2
<1> QED
  BY <1>3 DEF Min

\* A ranking starts with a node whose bid is submitted.
LEMMA RankingTopBids ==
    ASSUME NEW spec \in TaskSpec, NEW ranked \in Rankings(spec)
    PROVE  /\ ranked[1] \in Nodes /\ spec.bids[ranked[1]] > 0
           /\ Tail(ranked) \in Seq(Nodes)
<1>1. PICK k \in 1 .. 4 : ranked \in [1 .. k -> Nodes]
  BY DEF Rankings
<1>2. 1 \in 1 .. k /\ ranked[1] \in Nodes
  BY <1>1
<1> DEFINE places == {i \in 1 .. k : ranked[i] = ranked[1]}
<1>3. Cardinality(places) <= spec.bids[ranked[1]]
  <2>1. DOMAIN ranked = 1 .. k
    BY <1>1
  <2> QED
    BY <1>2, <2>1 DEF Rankings
<1>4. IsFiniteSet(places)
  <2>1. IsFiniteSet(1 .. k)
    BY FS_Interval
  <2> QED
    BY <2>1, FS_Subset
<1>5. Cardinality(places) \in Nat /\ Cardinality(places) # 0
  <2>1. 1 \in places
    BY <1>1, <1>2
  <2> HIDE DEF places
  <2> QED
    BY <1>4, <2>1, FS_CardinalityType, FS_EmptySet
<1>6. spec.bids[ranked[1]] \in Nat
  BY <1>2 DEF TaskSpec
<1>7. ranked \in Seq(Nodes) /\ ranked # <<>>
  BY <1>1
<1> HIDE DEF places
<1> QED
  BY <1>2, <1>3, <1>5, <1>6, <1>7, HeadTailProperties

\* An assigned task is with a node that bid.
LEMMA AssignedRanked ==
    ASSUME NEW spec \in TaskSpec, NEW ranked \in Rankings(spec)
    PROVE  LET after == assignWinner(spec, ranked) IN
           /\ after \in TaskSpec /\ WasRanked(after)
           /\ after.status = "assigned" /\ after.winnerNodeId = ranked[1]
<1> DEFINE after == assignWinner(spec, ranked)
           kept == [n \in Nodes |-> IF n = ranked[1] THEN spec.bids[n] ELSE 0]
<1>1. /\ ranked[1] \in Nodes /\ spec.bids[ranked[1]] > 0
      /\ Tail(ranked) \in Seq(Nodes) /\ spec.bids \in [Nodes -> Nat]
  BY RankingTopBids DEF TaskSpec
<1>2. kept \in [Nodes -> Nat] /\ kept[ranked[1]] > 0
  BY <1>1
<1>3. after = [status |-> "assigned", bids |-> kept, winnerNodeId |-> ranked[1],
               fallbackNodeIds |-> Tail(ranked)]
  BY DEF assignWinner
<1> HIDE DEF after, kept
<1>4. after \in TaskSpec
  BY <1>1, <1>2, <1>3 DEF TaskSpec
<1>5. WasRanked(after)
  BY <1>1, <1>2, <1>3 DEF WasRanked
<1> QED
  BY <1>3, <1>4, <1>5 DEF after

\* The node that takes over is one of the fallbacks.
LEMMA SuccessorRanked ==
    ASSUME NEW spec \in TaskSpec, spec.status = "assigned", ViableFallbacks(spec) # {}
    PROVE  /\ Reassigned(spec) \in TaskSpec /\ WasRanked(Reassigned(spec))
           /\ Reassigned(spec).status = "assigned"
           /\ Reassigned(spec).winnerNodeId = Successor(spec)
           /\ Successor(spec) \in Nodes
<1> DEFINE f == spec.fallbackNodeIds
           m == Min(ViableFallbacks(spec))
<1>1. f \in Seq(Nodes)
  BY DEF TaskSpec
<1>2. ViableFallbacks(spec) \subseteq 1 .. Len(f)
  BY DEF ViableFallbacks
<1>3. m \in 1 .. Len(f)
  BY <1>1, <1>2, MinIsLeast
<1> HIDE DEF m
<1>4. f[m] \in Nodes /\ f[m] \in Range(f)
  BY <1>1, <1>3 DEF Range
<1>5. Successor(spec) = f[m]
  BY DEF Successor, m
<1>6. Reassigned(spec) = [spec EXCEPT !.winnerNodeId = Successor(spec)]
  BY DEF Reassigned
<1> QED
  BY <1>4, <1>5, <1>6 DEF TaskSpec, WasRanked

\* A reopened task is open.
LEMMA ReopenedIsOpen ==
    ASSUME NEW spec \in TaskSpec
    PROVE  Reopened(spec) \in TaskSpec /\ Reopened(spec).status = "open"
BY DEF Reopened, TaskSpec
-------------------------------------------------------------------------------
(* The loops of assignOpenTasks. *)

\* Rows and records are as the invariant wants them.
LEMMA RecordSound ==
    ASSUME NEW at \in {"deferred", "assigned", "completing", "reassigned"},
           NEW n \in Nat, NEW todo \in SUBSET (1 .. n), NEW t \in 1 .. n,
           NEW node \in Nodes \cup {NoNode}
    PROVE  Sound([at |-> at, todo |-> todo, row |-> Row(RowTypeAt[at], t, node)], n)
<1>1. RowTypeAt[at] \in RowTypes /\ at \in DOMAIN RowTypeAt
  BY DEF RowTypeAt, RowTypes
<1>2. Row(RowTypeAt[at], t, node) \in LedgerRow
  BY <1>1 DEF Row, LedgerRow
<1>3. todo \in SUBSET Nat
  OBVIOUS
<1> DEFINE r == [at |-> at, todo |-> todo, row |-> Row(RowTypeAt[at], t, node)]
<1>4. r \in TickRecord
  BY <1>1, <1>2, <1>3 DEF TickRecord
<1>5. r.row.type = RowTypeAt[r.at] /\ r.row.task = t /\ r.todo = todo
  BY DEF Row
<1> QED
  BY <1>4, <1>5 DEF Sound

\* An idle tick, and one that is sensing, wait for no row.
LEMMA RestSound ==
    ASSUME NEW n \in Nat
    PROVE  Sound(NoTick, n) /\ Sound([at |-> "sensing", todo |-> {}, row |-> NoRow], n)
<1>1. /\ RowTypeAt["idle"] = "none" /\ RowTypeAt["sensing"] = "none"
      /\ "idle" \in DOMAIN RowTypeAt /\ "sensing" \in DOMAIN RowTypeAt
  BY DEF RowTypeAt
<1>2. NoRow \in LedgerRow /\ NoRow.type = "none"
  BY DEF NoRow, Row, LedgerRow, RowTypes
<1> QED
  BY <1>1, <1>2 DEF Sound, TickRecord, NoTick

\* p's record after it waits.
LEMMA WaitsRecord ==
    ASSUME tick = [q \in Ticks |-> tick[q]], NEW p \in Ticks, NEW x,
           tick' = [tick EXCEPT ![p] = x]
    PROVE  tick'[p] = x /\ tick' = [tick EXCEPT ![p] = tick'[p]]
OBVIOUS

\* The second loop.
LEMMA ReassignVisits ==
    ASSUME tick = [q \in Ticks |-> tick[q]],
           NEW p \in Ticks, NEW ts \in Seq(TaskSpec), NEW todo \in SUBSET (1 .. Len(ts)),
           ReassignLoop(p, ts, todo)
    PROVE  Visited(p, ts)
<1> DEFINE lost == {t \in todo : Lost(ts[t])}
           moved == {t \in lost : ViableFallbacks(ts[t]) # {}}
           m == Min(moved)
<1>1. Len(ts) \in Nat /\ DOMAIN ts = 1 .. Len(ts) /\ \A t \in 1 .. Len(ts) : ts[t] \in TaskSpec
  OBVIOUS
<1>2. \A t \in lost : t \in 1 .. Len(ts) /\ ts[t].status = "assigned"
  BY DEF Lost
<1>3. CASE moved = {}
  <2>1. /\ task' = [u \in 1 .. Len(ts) |-> IF u \in lost THEN Reopened(ts[u]) ELSE ts[u]]
        /\ tick' = [tick EXCEPT ![p] = NoTick]
    BY <1>1, <1>3 DEF ReassignLoop
  <2> HIDE DEF lost, moved
  <2>2. \A t \in 1 .. Len(ts) : task'[t] \in TaskSpec
    BY <1>1, <2>1, ReopenedIsOpen
  <2>3. task' \in Seq(TaskSpec) /\ Len(task') = Len(ts)
    BY <1>1, <2>1, <2>2
  <2>4. \A t \in 1 .. Len(ts) : \/ task'[t] = ts[t]
                                \/ ts[t].status # "completed" /\ task'[t].status = "open"
    BY <1>1, <1>2, <2>1, ReopenedIsOpen
  <2>5. tick'[p] = NoTick /\ tick' = [tick EXCEPT ![p] = tick'[p]]
    BY <2>1, WaitsRecord
  <2>6. Current(NoTick.row, task')
    BY DEF Current, NoTick, NoRow, Row
  <2> QED
    BY <1>1, <2>3, <2>4, <2>5, <2>6, RestSound DEF Visited
<1>4. CASE moved # {}
  <2> DEFINE record == [at |-> "reassigned", todo |-> After(todo, m),
                        row |-> Row("task_reassigned", m, Successor(ts[m]))]
  <2>1. m \in moved
    <3>1. moved \subseteq Nat
      OBVIOUS
    <3> HIDE DEF moved
    <3> QED
      BY <1>4, <3>1, MinIsLeast
  <2>2. /\ task' = [u \in 1 .. Len(ts) |-> IF u = m THEN Reassigned(ts[u])
                                            ELSE IF u \in lost /\ u < m THEN Reopened(ts[u])
                                            ELSE ts[u]]
        /\ tick' = [tick EXCEPT ![p] = record]
    BY <1>1, <1>4 DEF ReassignLoop, Waits
  <2>3. m \in lost /\ m \in 1 .. Len(ts) /\ ViableFallbacks(ts[m]) # {}
    BY <1>2, <2>1
  <2> HIDE DEF lost, moved, m
  <2>4. /\ Reassigned(ts[m]) \in TaskSpec /\ WasRanked(Reassigned(ts[m]))
        /\ Reassigned(ts[m]).status = "assigned"
        /\ Reassigned(ts[m]).winnerNodeId = Successor(ts[m])
        /\ Successor(ts[m]) \in Nodes
    BY <1>1, <1>2, <2>3, SuccessorRanked
  <2>5. \A t \in 1 .. Len(ts) : task'[t] \in TaskSpec
    BY <1>1, <2>2, <2>4, ReopenedIsOpen
  <2>6. task' \in Seq(TaskSpec) /\ Len(task') = Len(ts)
    BY <1>1, <2>2, <2>5
  <2>7. tick'[p] = record /\ tick' = [tick EXCEPT ![p] = tick'[p]]
    BY <2>2, WaitsRecord
  <2>8. Sound(record, Len(ts))
    <3>1. After(todo, m) \in SUBSET (1 .. Len(ts))
      BY DEF After
    <3>2. RowTypeAt["reassigned"] = "task_reassigned"
      BY DEF RowTypeAt
    <3> QED
      BY <1>1, <2>3, <2>4, <3>1, <3>2, RecordSound
  <2>9. task'[m] = Reassigned(ts[m])
    BY <2>2, <2>3
  <2>10. Announces(record.row, m, task'[m]) /\ WasRanked(task'[m]) /\ ts[m].status # "completed"
    BY <1>2, <2>3, <2>4, <2>9 DEF Announces, Row
  <2>11. \A t \in 1 .. Len(ts) : t # m => \/ task'[t] = ts[t]
                                          \/ ts[t].status # "completed" /\ task'[t].status = "open"
    BY <1>1, <1>2, <2>2, ReopenedIsOpen
  <2>12. Current(record.row, task')
    BY <2>10 DEF Current, Row
  <2> HIDE DEF record
  <2> QED
    BY <2>6, <2>7, <2>8, <2>10, <2>11, <2>12 DEF Visited
<1> QED
  BY <1>3, <1>4

\* The first loop, with the second one after it.
LEMMA AssignVisits ==
    ASSUME tick = [q \in Ticks |-> tick[q]],
           NEW p \in Ticks, NEW ts \in Seq(TaskSpec), NEW todo \in SUBSET (1 .. Len(ts)),
           AssignLoop(p, ts, todo)
    PROVE  Visited(p, ts)
<1> DEFINE needy == {t \in todo : NeedsWinner(ts[t])}
           m == Min(needy)
<1>1. Len(ts) \in Nat /\ DOMAIN ts = 1 .. Len(ts) /\ \A t \in 1 .. Len(ts) : ts[t] \in TaskSpec
  OBVIOUS
<1>2. CASE needy = {}
  <2>1. ReassignLoop(p, ts, 1 .. Len(ts))
    BY <1>2 DEF AssignLoop
  <2> QED
    BY <2>1, ReassignVisits
<1>3. CASE needy # {}
  <2>1. m \in needy
    <3>1. needy \subseteq Nat
      OBVIOUS
    <3> HIDE DEF needy
    <3> QED
      BY <1>3, <3>1, MinIsLeast
  <2>2. m \in 1 .. Len(ts) /\ ts[m].status = "open"
    BY <2>1 DEF NeedsWinner
  <2>3. \/ task' = ts /\ Waits(p, "deferred", After(todo, m),
                               Row("local_autonomy_activated", m, NoNode))
        \/ \E ranked \in Rankings(ts[m]) :
             /\ task' = [ts EXCEPT ![m] = assignWinner(@, ranked)]
             /\ Waits(p, "assigned", After(todo, m), Row("task_assigned", m, ranked[1]))
    BY <1>3 DEF AssignLoop
  <2> HIDE DEF needy, m
  <2>4. After(todo, m) \in SUBSET (1 .. Len(ts))
    BY DEF After
  <2>5. /\ RowTypeAt["deferred"] = "local_autonomy_activated"
        /\ RowTypeAt["assigned"] = "task_assigned"
    BY DEF RowTypeAt
  <2>6. CASE task' = ts /\ Waits(p, "deferred", After(todo, m),
                                 Row("local_autonomy_activated", m, NoNode))
    <3> DEFINE record == [at |-> "deferred", todo |-> After(todo, m),
                          row |-> Row("local_autonomy_activated", m, NoNode)]
    <3>1. tick'[p] = record /\ tick' = [tick EXCEPT ![p] = tick'[p]]
      BY <2>6, WaitsRecord DEF Waits
    <3>2. Sound(record, Len(ts))
      BY <1>1, <2>2, <2>4, <2>5, RecordSound
    <3>3. Current(record.row, task')
      BY DEF Current, Row
    <3> HIDE DEF record
    <3> QED
      BY <2>6, <3>1, <3>2, <3>3 DEF Visited
  <2>7. ASSUME NEW ranked \in Rankings(ts[m]),
               task' = [ts EXCEPT ![m] = assignWinner(@, ranked)],
               Waits(p, "assigned", After(todo, m), Row("task_assigned", m, ranked[1]))
        PROVE  Visited(p, ts)
    <3> DEFINE record == [at |-> "assigned", todo |-> After(todo, m),
                          row |-> Row("task_assigned", m, ranked[1])]
               after == assignWinner(ts[m], ranked)
    <3>1. tick'[p] = record /\ tick' = [tick EXCEPT ![p] = tick'[p]]
      BY <2>7, WaitsRecord DEF Waits
    <3>2. /\ after \in TaskSpec /\ WasRanked(after)
          /\ after.status = "assigned" /\ after.winnerNodeId = ranked[1]
          /\ ranked[1] \in Nodes
      BY <1>1, <2>2, <2>7, AssignedRanked, RankingTopBids
    <3>3. Sound(record, Len(ts))
      BY <1>1, <2>2, <2>4, <2>5, <3>2, RecordSound
    <3>4. Announces(record.row, m, after) /\ record.row.task = m
      BY <3>2 DEF Announces, Row
    <3> HIDE DEF record, after
    <3>5. /\ task' \in Seq(TaskSpec) /\ Len(task') = Len(ts)
          /\ task'[m] = after /\ \A t \in 1 .. Len(ts) : t # m => task'[t] = ts[t]
      BY <2>2, <2>7, <3>2 DEF after
    <3>6. Current(record.row, task')
      BY <3>4, <3>5 DEF Current
    <3> QED
      BY <2>2, <3>1, <3>2, <3>3, <3>4, <3>5, <3>6 DEF Visited
  <2> QED
    BY <2>3, <2>6, <2>7
<1> QED
  BY <1>2, <1>3
-------------------------------------------------------------------------------
(* The invariant. *)

\* Completed tasks stay completed (CompletedStaysCompleted of one step).
Kept == \A t \in 1 .. Len(task) : task[t].status = "completed" => task'[t].status = "completed"

\* A tick that waits for a row is under way.
LEMMA RowMeansActive ==
    ASSUME NEW p \in Ticks, tick[p].at # "idle" \/ tick[p].row.type # "none"
    PROVE  tick[p] # NoTick
BY DEF NoTick, NoRow, Row

\* A loop that finds tasks all replayed keeps the invariant.
LEMMA LoopKeeps ==
    ASSUME SwarmInv, NEW p \in Ticks, tick[p] # NoTick, overlapped' = overlapped,
           NEW ts \in Seq(TaskSpec), Len(task) <= Len(ts), Len(ts) <= MaxTasks,
           \A t \in 1 .. Len(ts) : WasRanked(ts[t]),
           \A t \in 1 .. Len(task) :
               task[t].status = "completed" => ts[t].status = "completed",
           assignments' \in [1 .. MaxTasks -> Nodes \cup {NoNode}],
           ~overlapped => \A t \in 1 .. Len(ts) : Replayed(ts[t], assignments'[t]),
           Visited(p, ts)
    PROVE  SwarmInv' /\ Kept
<1>0. Shape /\ Len(task) \in Nat /\ Len(ts) \in Nat /\ MaxTasks \in Nat
  BY SwarmTasksAssumption DEF SwarmInv, Shape
<1>1. /\ task' \in Seq(TaskSpec) /\ Len(task') = Len(ts)
      /\ tick' = [tick EXCEPT ![p] = tick'[p]]
      /\ Sound(tick'[p], Len(ts)) /\ Current(tick'[p].row, task')
  BY DEF Visited
<1>2. \A q \in Ticks : q # p => tick'[q] = tick[q]
  BY <1>0, <1>1 DEF Shape
<1>3. Shape'
  <2>1. tick' = [q \in Ticks |-> tick'[q]]
    BY <1>0, <1>1 DEF Shape
  <2>2. \A q \in Ticks : Sound(tick'[q], Len(task'))
    <3>1. \A q \in Ticks : Sound(tick[q], Len(task))
      BY <1>0 DEF Shape
    <3>2. \A q \in Ticks : q # p => Sound(tick[q], Len(ts))
      BY <1>0, <3>1 DEF Sound
    <3> QED
      BY <1>1, <1>2, <3>2
  <2> QED
    BY <1>1, <2>1, <2>2 DEF Shape
<1>4. Ranked'
  <2>1. \A t \in 1 .. Len(ts) : WasRanked(task'[t])
    BY DEF Visited, WasRanked
  <2> QED
    BY <1>1, <2>1 DEF Ranked
<1>5. ASSUME ~overlapped' PROVE OneTick'
  <2>1. OneTick /\ \A t \in 1 .. Len(ts) : Replayed(ts[t], assignments'[t])
    BY <1>5 DEF SwarmInv
  <2>2. \A q \in Ticks : q # p => tick'[q] = NoTick
    BY <1>2, <2>1 DEF OneTick
  <2>3. \A q \in Ticks : Current(tick'[q].row, task')
    <3>1. Current(NoTick.row, task')
      BY DEF Current, NoTick, NoRow, Row
    <3> QED
      BY <1>1, <2>2, <3>1
  <2>4. ASSUME NEW t \in 1 .. Len(ts)
        PROVE  Replayed(task'[t], assignments'[t]) \/ Announces(tick'[p].row, t, task'[t])
    <3>1. CASE task'[t] = ts[t]
      BY <2>1, <3>1
    <3>2. CASE task'[t].status = "open"
      BY <3>2 DEF Replayed
    <3> QED
      BY <3>1, <3>2 DEF Visited
  <2> QED
    BY <1>1, <2>2, <2>3, <2>4 DEF OneTick
<1>6. Kept
  <2>1. \A t \in 1 .. Len(ts) : ts[t].status = "completed" => task'[t].status = "completed"
    BY DEF Visited
  <2>2. \A t \in 1 .. Len(task) : t \in 1 .. Len(ts)
    BY <1>0
  <2> QED
    BY <2>1, <2>2 DEF Kept
<1> QED
  BY <1>3, <1>4, <1>5, <1>6 DEF SwarmInv

\* Once the row a tick waited for is pushed, the replay shows every assignment.
LEMMA PushReplays ==
    ASSUME SwarmInv, NEW p \in Ticks,
           tick[p].at \in {"deferred", "assigned", "completing", "reassigned"}
    PROVE  LET row == tick[p].row IN
           /\ tick[p] # NoTick
           /\ row.task \in 1 .. Len(task) /\ row.node \in Nodes \cup {NoNode}
           /\ tick[p].todo \in SUBSET (1 .. Len(task))
           /\ Push(row) \in [1 .. MaxTasks -> Nodes \cup {NoNode}]
           /\ ~overlapped => \A t \in 1 .. Len(task) :
                \/ Replayed(task[t], Push(row)[t])
                \/ tick[p].at = "completing" /\ t = row.task
           /\ tick[p].at = "completing" => Push(row)[row.task] = NoNode
<1> DEFINE row == tick[p].row
           after == Push(row)
<1>1. /\ row.type = RowTypeAt[tick[p].at]
      /\ row \in LedgerRow /\ row.task \in 1 .. Len(task)
      /\ tick[p].todo \in SUBSET (1 .. Len(task))
      /\ Len(task) \in Nat /\ Len(task) <= MaxTasks
      /\ assignments \in [1 .. MaxTasks -> Nodes \cup {NoNode}]
  BY DEF SwarmInv, Shape, Sound, TickRecord
<1>2. tick[p] # NoTick
  BY RowMeansActive
<1>3. row.node \in Nodes \cup {NoNode} /\ row.task \in 1 .. MaxTasks
  BY <1>1, SwarmTasksAssumption DEF LedgerRow
<1>4. \/ /\ tick[p].at = "deferred" /\ row.type = "local_autonomy_activated"
         /\ after = assignments
      \/ /\ tick[p].at = "completing" /\ row.type = "task_completed"
         /\ after = [assignments EXCEPT ![row.task] = NoNode]
      \/ /\ tick[p].at \in {"assigned", "reassigned"}
         /\ row.type \in {"task_assigned", "task_reassigned"}
         /\ after = [assignments EXCEPT ![row.task] = row.node]
  BY <1>1 DEF RowTypeAt, Push
<1> HIDE DEF row, after
<1>5. after \in [1 .. MaxTasks -> Nodes \cup {NoNode}]
  BY <1>1, <1>3, <1>4
<1>6. tick[p].at = "completing" => after[row.task] = NoNode
  BY <1>1, <1>3, <1>4
<1>7. ASSUME ~overlapped, NEW t \in 1 .. Len(task), ~(tick[p].at = "completing" /\ t = row.task)
      PROVE  Replayed(task[t], after[t])
  <2>1. OneTick
    BY <1>7 DEF SwarmInv
  <2>2. t \in 1 .. MaxTasks
    BY <1>1, SwarmTasksAssumption
  <2>3. CASE row.type \in {"task_assigned", "task_reassigned"} /\ row.task = t
    <3>1. Announces(row, t, task[t])
      BY <2>1, <2>3 DEF OneTick, Current, row
    <3>2. after[t] = row.node
      BY <1>1, <1>4, <2>2, <2>3
    <3> QED
      BY <3>1, <3>2 DEF Announces, Replayed
  <2>4. CASE ~(row.type \in {"task_assigned", "task_reassigned"} /\ row.task = t)
    <3>1. after[t] = assignments[t]
      BY <1>1, <1>4, <1>7, <2>2, <2>4
    <3>2. \A q \in Ticks : ~Announces(tick[q].row, t, task[t])
      <4> SUFFICES ASSUME NEW q \in Ticks, Announces(tick[q].row, t, task[t]) PROVE FALSE
        OBVIOUS
      <4>1. tick[q] # NoTick
        BY RowMeansActive DEF Announces
      <4>2. q = p
        BY <1>2, <2>1, <4>1 DEF OneTick
      <4> QED
        BY <2>4, <4>2 DEF Announces, row
    <3> QED
      BY <2>1, <3>1, <3>2 DEF OneTick
  <2> QED
    BY <2>3, <2>4
<1> QED
  BY <1>1, <1>2, <1>3, <1>5, <1>6, <1>7 DEF row, after

\* A new task is open.
LEMMA OpenTaskIsOpen ==
    OpenTask \in TaskSpec /\ OpenTask.status = "open"
BY EmptySeq DEF OpenTask, TaskSpec

\* The first state.
LEMMA SwarmInit == Init => SwarmInv
<1> SUFFICES ASSUME Init PROVE SwarmInv
  OBVIOUS
<1>1. /\ task = <<>> /\ tick = [p \in Ticks |-> NoTick]
      /\ assignments = [t \in 1 .. MaxTasks |-> NoNode]
  BY DEF Init
<1>2. task \in Seq(TaskSpec) /\ Len(task) = 0 /\ 1 .. Len(task) = {}
  BY <1>1, EmptySeq
<1>3. \A p \in Ticks : tick[p] = NoTick
  BY <1>1
<1>4. Current(NoTick.row, task)
  BY DEF Current, NoTick, NoRow, Row
<1>5. Shape
  BY <1>1, <1>2, <1>3, RestSound, SwarmTasksAssumption DEF Shape
<1> QED
  BY <1>2, <1>3, <1>4, <1>5 DEF SwarmInv, Ranked, OneTick

\* A tick begins.
LEMMA StartKeeps ==
    ASSUME SwarmInv, NEW p \in Ticks, StartTick(p)
    PROVE  SwarmInv' /\ Kept
<1> DEFINE record == [at |-> "sensing", todo |-> {}, row |-> NoRow]
<1>1. /\ task' = task /\ assignments' = assignments
      /\ tick' = [tick EXCEPT ![p] = record]
      /\ overlapped' = (overlapped \/ \E q \in Ticks : tick[q] # NoTick)
  BY DEF StartTick, Waits
<1>2. Shape /\ Ranked /\ Len(task) \in Nat
  BY DEF SwarmInv, Shape
<1>3. record.row = NoRow /\ NoTick.row = NoRow /\ Current(NoRow, task)
  BY DEF NoTick, Current, NoRow, Row
<1>4. Sound(record, Len(task))
  BY <1>2, RestSound
<1> HIDE DEF record
<1>5. /\ tick' = [q \in Ticks |-> tick'[q]] /\ tick'[p] = record
      /\ \A q \in Ticks : q # p => tick'[q] = tick[q]
  BY <1>1, <1>2 DEF Shape
<1>6. Shape' /\ Ranked'
  BY <1>1, <1>2, <1>4, <1>5 DEF Shape, Ranked
<1>7. ASSUME ~overlapped' PROVE OneTick'
  <2>1. ~overlapped /\ \A q \in Ticks : tick[q] = NoTick
    BY <1>1, <1>7
  <2>2. OneTick
    BY <2>1 DEF SwarmInv
  <2>3. \A q \in Ticks : tick'[q].row = NoRow
    BY <1>3, <1>5, <2>1
  <2>4. \A t \in 1 .. Len(task) : Replayed(task[t], assignments[t])
    <3>1. \A q \in Ticks, t \in 1 .. Len(task) : ~Announces(tick[q].row, t, task[t])
      BY <1>3, <2>1 DEF Announces, NoRow, Row
    <3> QED
      BY <2>2, <3>1 DEF OneTick
  <2> QED
    BY <1>1, <1>3, <1>5, <2>1, <2>3, <2>4 DEF OneTick
<1> QED
  BY <1>1, <1>6, <1>7 DEF SwarmInv, Kept

\* A confirmed target opens a task.
LEMMA SpawnKeeps ==
    ASSUME SwarmInv, NEW p \in Ticks, SpawnRescueTaskForTarget(p)
    PROVE  SwarmInv' /\ Kept
<1>1. /\ Len(task) < MaxTasks /\ task' = Append(task, OpenTask)
      /\ tick' = tick /\ assignments' = assignments /\ overlapped' = overlapped
  BY DEF SpawnRescueTaskForTarget
<1>2. Shape /\ Ranked /\ Len(task) \in Nat /\ task \in Seq(TaskSpec)
  BY DEF SwarmInv, Shape
<1>3. /\ task' \in Seq(TaskSpec) /\ Len(task') = Len(task) + 1
      /\ \A t \in 1 .. Len(task) : task'[t] = task[t]
      /\ task'[Len(task) + 1].status = "open"
  BY <1>1, <1>2, OpenTaskIsOpen
<1>4. \A t \in 1 .. Len(task') : t \in 1 .. Len(task) \/ task'[t].status = "open"
  BY <1>2, <1>3
<1>5. Shape'
  <2>1. \A q \in Ticks : Sound(tick[q], Len(task) + 1)
    BY <1>2 DEF Shape, Sound
  <2> QED
    BY <1>1, <1>2, <1>3, <2>1, SwarmTasksAssumption DEF Shape
<1>6. Ranked'
  BY <1>2, <1>3, <1>4 DEF Ranked, WasRanked
<1>7. ASSUME ~overlapped' PROVE OneTick'
  <2>1. OneTick
    BY <1>1, <1>7 DEF SwarmInv
  <2>2. \A q \in Ticks : Current(tick[q].row, task')
    <3> SUFFICES ASSUME NEW q \in Ticks,
                        tick[q].row.type \in {"task_assigned", "task_reassigned"}
                 PROVE  Announces(tick[q].row, tick[q].row.task, task'[tick[q].row.task])
      BY DEF Current
    <3>1. tick[q].row.type = RowTypeAt[tick[q].at] /\ tick[q].at \in DOMAIN RowTypeAt
      BY <1>2 DEF Shape, Sound, TickRecord
    <3>2. RowTypeAt["idle"] = "none" /\ RowTypeAt["sensing"] = "none"
      BY DEF RowTypeAt
    <3>3. tick[q].row.task \in 1 .. Len(task)
      BY <1>2, <3>1, <3>2 DEF Shape, Sound
    <3> QED
      BY <1>3, <2>1, <3>3 DEF OneTick, Current
  <2>3. \A t \in 1 .. Len(task') : \/ Replayed(task'[t], assignments[t])
                                   \/ \E q \in Ticks : Announces(tick[q].row, t, task'[t])
    BY <1>3, <1>4, <2>1 DEF OneTick, Replayed
  <2> QED
    BY <1>1, <2>1, <2>2, <2>3 DEF OneTick
<1> QED
  BY <1>3, <1>5, <1>6, <1>7 DEF SwarmInv, Kept

\* A tick plans: it may open a task, bids change, and the first loop begins.
LEMMA PlanKeeps ==
    ASSUME SwarmInv, NEW p \in Ticks, PlanTasks(p)
    PROVE  SwarmInv' /\ Kept
<1>0. PICK opened \in {task} \cup (IF MaySpawn THEN {Append(task, OpenTask)} ELSE {}) :
        \E bids \in [DOMAIN opened -> [Nodes -> 0 .. MaxBids]] :
          /\ \A t \in DOMAIN opened : bids[t] \in BidsAfter(opened[t])
          /\ AssignLoop(p, [t \in DOMAIN opened |-> [opened[t] EXCEPT !.bids = bids[t]]],
                        DOMAIN opened)
  BY DEF PlanTasks
<1>1. PICK bids \in [DOMAIN opened -> [Nodes -> 0 .. MaxBids]] :
        /\ \A t \in DOMAIN opened : bids[t] \in BidsAfter(opened[t])
        /\ AssignLoop(p, [t \in DOMAIN opened |-> [opened[t] EXCEPT !.bids = bids[t]]],
                      DOMAIN opened)
  BY <1>0
<1> DEFINE ts == [t \in DOMAIN opened |-> [opened[t] EXCEPT !.bids = bids[t]]]
<1>2. /\ tick[p].at = "sensing" /\ assignments' = assignments /\ overlapped' = overlapped
  BY DEF PlanTasks
<1>3. Shape /\ Ranked /\ Len(task) \in Nat /\ task \in Seq(TaskSpec) /\ MaxTasks \in Nat
  BY SwarmTasksAssumption DEF SwarmInv, Shape
<1>4. /\ opened \in Seq(TaskSpec) /\ Len(task) <= Len(opened) /\ Len(opened) <= MaxTasks
      /\ \A t \in 1 .. Len(task) : opened[t] = task[t]
      /\ \A t \in 1 .. Len(opened) : t \in 1 .. Len(task) \/ opened[t].status = "open"
  <2>1. CASE opened = task
    BY <1>3, <2>1 DEF Shape
  <2>2. CASE opened = Append(task, OpenTask) /\ Len(task) < MaxTasks
    BY <1>3, <2>2, OpenTaskIsOpen
  <2> QED
    BY <1>0, <2>1, <2>2 DEF MaySpawn
<1>5. Len(opened) \in Nat /\ DOMAIN opened = 1 .. Len(opened)
  BY <1>4
<1>6. \A t \in 1 .. Len(opened) :
        /\ ts[t] \in TaskSpec
        /\ ts[t].status = opened[t].status /\ ts[t].winnerNodeId = opened[t].winnerNodeId
        /\ ts[t].fallbackNodeIds = opened[t].fallbackNodeIds
        /\ opened[t].status = "open" \/ ts[t].bids = opened[t].bids
  <2> TAKE t \in 1 .. Len(opened)
  <2>0. opened[t] \in TaskSpec
    BY <1>4, ElementOfSeq
  <2>1. ts[t] = [opened[t] EXCEPT !.bids = bids[t]]
    BY <1>5
  <2>2. bids[t] \in [Nodes -> Nat]
    <3>1. bids[t] \in [Nodes -> 0 .. MaxBids]
      BY <1>1, <1>5
    <3> QED
      BY <3>1, SwarmTasksAssumption
  <2>3. opened[t].status = "open" \/ bids[t] = opened[t].bids
    BY <1>1, <1>5 DEF BidsAfter
  <2> HIDE DEF ts
  <2> QED
    BY <2>0, <2>1, <2>2, <2>3 DEF TaskSpec
<1>7. ts \in Seq(TaskSpec) /\ Len(ts) = Len(opened)
  <2> DEFINE spec(t) == [opened[t] EXCEPT !.bids = bids[t]]
             n == Len(opened)
  <2>1. n \in Nat /\ ts = [t \in 1 .. n |-> spec(t)]
    BY <1>5
  <2>2. \A t \in 1 .. n : spec(t) \in TaskSpec
    BY <1>6, <2>1
  <2> HIDE DEF ts, spec, n
  <2>3. ts \in Seq(TaskSpec) /\ Len(ts) = n
    BY <2>1, <2>2
  <2> QED
    BY <2>3 DEF n
<1>8. AssignLoop(p, ts, 1 .. Len(ts))
  BY <1>1, <1>5, <1>7
<1> HIDE DEF ts
<1>9. Visited(p, ts)
  BY <1>3, <1>7, <1>8, AssignVisits DEF Shape
<1>10. \A t \in 1 .. Len(ts) : WasRanked(ts[t])
  BY <1>3, <1>4, <1>6, <1>7 DEF Ranked, WasRanked
<1>11. \A t \in 1 .. Len(task) : task[t].status = "completed" => ts[t].status = "completed"
  <2>1. Len(task) \in Nat /\ Len(opened) \in Nat /\ Len(task) <= Len(opened)
    BY <1>3, <1>4, <1>5
  <2>2. \A t \in 1 .. Len(task) : t \in 1 .. Len(opened)
    BY <2>1
  <2> QED
    BY <1>4, <1>6, <2>2
<1>12. tick[p] # NoTick
  BY <1>2, RowMeansActive
<1>13. ASSUME ~overlapped, NEW t \in 1 .. Len(ts) PROVE Replayed(ts[t], assignments[t])
  <2>1. OneTick
    BY <1>13 DEF SwarmInv
  <2>2. tick[p].row.type = "none"
    BY <1>2, <1>3 DEF Shape, Sound, RowTypeAt
  <2>3. \A q \in Ticks : ~Announces(tick[q].row, t, task[t])
    <3> SUFFICES ASSUME NEW q \in Ticks, Announces(tick[q].row, t, task[t]) PROVE FALSE
      OBVIOUS
    <3>1. tick[q] # NoTick
      BY RowMeansActive DEF Announces
    <3> QED
      BY <1>12, <2>1, <2>2, <3>1 DEF OneTick, Announces
  <2>4. t \in 1 .. Len(task) => Replayed(task[t], assignments[t])
    BY <2>1, <2>3 DEF OneTick
  <2> QED
    BY <1>4, <1>6, <1>7, <2>4 DEF Replayed
<1>14. assignments' \in [1 .. MaxTasks -> Nodes \cup {NoNode}]
  BY <1>2, <1>3 DEF Shape
<1> QED
  BY <1>2, <1>4, <1>7, <1>9, <1>10, <1>11, <1>12, <1>13, <1>14, LoopKeeps

\* A row is pushed and a loop goes on.
LEMMA ResumeKeeps ==
    ASSUME SwarmInv, NEW p \in Ticks,
           AfterDeferred(p) \/ AfterAssigned(p) \/ AfterReassigned(p)
    PROVE  SwarmInv' /\ Kept
<1> DEFINE row == tick[p].row
<1>1. /\ tick[p].at \in {"deferred", "assigned", "reassigned"}
      /\ assignments' = Push(row) /\ overlapped' = overlapped
  BY DEF AfterDeferred, AfterAssigned, AfterReassigned, RowPushed
<1>2. Shape /\ Ranked /\ Len(task) \in Nat /\ task \in Seq(TaskSpec) /\ Len(task) <= MaxTasks
  BY DEF SwarmInv, Shape
<1>3. /\ tick[p] # NoTick
      /\ row.task \in 1 .. Len(task) /\ row.node \in Nodes \cup {NoNode}
      /\ tick[p].todo \in SUBSET (1 .. Len(task))
      /\ assignments' \in [1 .. MaxTasks -> Nodes \cup {NoNode}]
      /\ ~overlapped => \A t \in 1 .. Len(task) : Replayed(task[t], assignments'[t])
  BY <1>1, PushReplays
<1>4. \/ AssignLoop(p, task, tick[p].todo)
      \/ ReassignLoop(p, task, tick[p].todo)
      \/ /\ Waits(p, "completing", tick[p].todo, Row("task_completed", row.task, row.node))
         /\ task' = task
  BY DEF AfterDeferred, AfterAssigned, AfterReassigned
<1> HIDE DEF row
<1>5. CASE AssignLoop(p, task, tick[p].todo) \/ ReassignLoop(p, task, tick[p].todo)
  <2>1. Visited(p, task)
    BY <1>2, <1>3, <1>5, AssignVisits, ReassignVisits DEF Shape
  <2> QED
    BY <1>1, <1>2, <1>3, <2>1, LoopKeeps DEF Ranked
<1>6. CASE /\ Waits(p, "completing", tick[p].todo, Row("task_completed", row.task, row.node))
           /\ task' = task
  <2> DEFINE record == [at |-> "completing", todo |-> tick[p].todo,
                        row |-> Row("task_completed", row.task, row.node)]
  <2>1. tick'[p] = record /\ tick' = [tick EXCEPT ![p] = tick'[p]]
    BY <1>2, <1>6, WaitsRecord DEF Waits, Shape
  <2>2. Sound(record, Len(task))
    <3>1. RowTypeAt["completing"] = "task_completed"
      BY DEF RowTypeAt
    <3> QED
      BY <1>2, <1>3, <3>1, RecordSound
  <2>3. Current(record.row, task)
    BY DEF Current, Row
  <2> HIDE DEF record
  <2>4. Visited(p, task)
    BY <1>2, <1>6, <2>1, <2>2, <2>3 DEF Visited
  <2> QED
    BY <1>1, <1>2, <1>3, <2>4, LoopKeeps DEF Ranked
<1> QED
  BY <1>4, <1>5, <1>6

\* A task is completed and the first loop goes on.
LEMMA CompleteKeeps ==
    ASSUME SwarmInv, NEW p \in Ticks, AfterCompleted(p)
    PROVE  SwarmInv' /\ Kept
<1> DEFINE row == tick[p].row
           ts == [task EXCEPT ![row.task] = completeTask(@)]
<1>1. /\ tick[p].at = "completing"
      /\ assignments' = Push(row) /\ overlapped' = overlapped
      /\ AssignLoop(p, ts, tick[p].todo)
  BY DEF AfterCompleted, RowPushed
<1>2. Shape /\ Ranked /\ Len(task) \in Nat /\ task \in Seq(TaskSpec) /\ Len(task) <= MaxTasks
  BY DEF SwarmInv, Shape
<1>3. /\ tick[p] # NoTick
      /\ row.task \in 1 .. Len(task)
      /\ tick[p].todo \in SUBSET (1 .. Len(task))
      /\ assignments' \in [1 .. MaxTasks -> Nodes \cup {NoNode}]
      /\ ~overlapped => \A t \in 1 .. Len(task) :
           Replayed(task[t], assignments'[t]) \/ t = row.task
      /\ assignments'[row.task] = NoNode
  BY <1>1, PushReplays
<1>4. completeTask(task[row.task]) \in TaskSpec /\ completeTask(task[row.task]).status = "completed"
  <2>1. task[row.task] \in TaskSpec
    BY <1>2, <1>3, ElementOfSeq
  <2> HIDE DEF row
  <2> QED
    BY <2>1 DEF completeTask, TaskSpec
<1>5. /\ ts \in Seq(TaskSpec) /\ Len(ts) = Len(task)
      /\ ts[row.task] = completeTask(task[row.task])
      /\ \A t \in 1 .. Len(task) : t # row.task => ts[t] = task[t]
  BY <1>2, <1>3, <1>4
<1> HIDE DEF row, ts
<1>6. Visited(p, ts)
  BY <1>1, <1>2, <1>3, <1>5, AssignVisits DEF Shape
<1>7. \A t \in 1 .. Len(ts) : WasRanked(ts[t])
  BY <1>2, <1>4, <1>5 DEF Ranked, WasRanked
<1>8. \A t \in 1 .. Len(task) : task[t].status = "completed" => ts[t].status = "completed"
  BY <1>4, <1>5
<1>9. ~overlapped => \A t \in 1 .. Len(ts) : Replayed(ts[t], assignments'[t])
  BY <1>3, <1>4, <1>5 DEF Replayed
<1>10. Len(task) <= Len(ts) /\ Len(ts) <= MaxTasks
  BY <1>2, <1>5
<1> QED
  BY <1>1, <1>3, <1>5, <1>6, <1>7, <1>8, <1>9, <1>10, LoopKeeps

\* Every step keeps the invariant and completed tasks.
LEMMA SwarmStep ==
    ASSUME SwarmInv, [Next]_vars
    PROVE  SwarmInv' /\ Kept
<1>1. CASE UNCHANGED vars
  BY <1>1 DEF vars, SwarmInv, Shape, Ranked, OneTick, Kept
<1>2. CASE Next
  BY <1>2, StartKeeps, SpawnKeeps, PlanKeeps, ResumeKeeps, CompleteKeeps DEF Next, Step
<1> QED
  BY <1>1, <1>2
-------------------------------------------------------------------------------
(* The theorems. *)

\* The invariant holds in every reachable state, however ticks overlap.
THEOREM SwarmInvariance == Spec => []SwarmInv
BY SwarmInit, SwarmStep, PTL DEF Spec

\* However ticks overlap, a task assignOpenTasks has assigned is with a node of its
\* last ranking.
THEOREM WinnersAreRanked == Spec => []WinnerWasRanked
<1>1. SwarmInv => WinnerWasRanked
  <2> SUFFICES ASSUME SwarmInv PROVE WinnerWasRanked
    OBVIOUS
  <2>1. DOMAIN task = 1 .. Len(task)
    BY DEF SwarmInv, Shape
  <2> QED
    BY <2>1 DEF SwarmInv, Ranked, WasRanked, WinnerWasRanked
<1> QED
  BY <1>1, SwarmInvariance, PTL

\* While one tick of the simulator runs at a time, a replay of the ledger shows, between
\* rows, each assigned task with its winner and no completed one.
THEOREM LedgerShowsAssignments == Spec => []AssignmentsReplayed
<1>1. SwarmInv => AssignmentsReplayed
  <2> SUFFICES ASSUME SwarmInv, ~overlapped, \A p \in Ticks : tick[p].row = NoRow,
                      NEW t \in DOMAIN task
               PROVE  Replayed(task[t], assignments[t])
    BY DEF AssignmentsReplayed, Replayed
  <2>1. DOMAIN task = 1 .. Len(task) /\ OneTick
    BY DEF SwarmInv, Shape
  <2>2. \A p \in Ticks : ~Announces(tick[p].row, t, task[t])
    BY DEF Announces, NoRow, Row
  <2> QED
    BY <2>1, <2>2 DEF OneTick
<1> QED
  BY <1>1, SwarmInvariance, PTL

\* However ticks overlap, no tick takes up a completed task again.
THEOREM CompletedForGood == Spec => CompletedStaysCompleted
<1>1. SwarmInv /\ [Next]_vars =>
        [\A t \in DOMAIN task : task[t].status = "completed" => task'[t].status = "completed"]_vars
  <2> SUFFICES ASSUME SwarmInv, [Next]_vars
               PROVE  \A t \in DOMAIN task :
                        task[t].status = "completed" => task'[t].status = "completed"
    OBVIOUS
  <2>1. DOMAIN task = 1 .. Len(task)
    BY DEF SwarmInv, Shape
  <2> QED
    BY <2>1, SwarmStep DEF Kept
<1> QED
  BY <1>1, SwarmInvariance, PTL DEF Spec, CompletedStaysCompleted
===============================================================================
