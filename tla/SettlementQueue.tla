---------------------------- MODULE SettlementQueue ----------------------------
(***************************************************************************)
(* The FIFO settlement queue of src/backend/settlement/settlement-queue.ts.*)
(* A row is an index into rows, the rows in the order enqueue created them *)
(* (the code shares one mutable object between fifo and byMission).  The   *)
(* promise chain `tail` grows by one drainOnce call per row, so its length *)
(* is Len(rows); drained counts the calls that have returned.              *)
(*                                                                         *)
(* JavaScript runs to completion between awaits: an action is the code     *)
(* from one await (or entry point) to the next.  The manifest is carried   *)
(* through unread and is left out.                                         *)
(***************************************************************************)
EXTENDS Naturals, Sequences

CONSTANTS
    Missions,   \* mission ids
    Flushers,   \* concurrent callers of flush()
    MaxRows     \* bound on the rows ever created

ASSUME QueueAssumption == MaxRows \in Nat

VARIABLES
    rows,       \* every row created: its mission and its status
    fifo,       \* the row numbers waiting, oldest first
    byMission,  \* the latest row of each mission, 0 when it has none
    active,     \* a drainOnce call is awaiting emit for the head of fifo
    drained,    \* how many of the chained drainOnce calls have returned
    flushing    \* the chain length each pending flush() awaits

vars == <<rows, fifo, byMission, active, drained, flushing>>

Status == {"queued", "processing", "settled", "failed"}
Outcomes == {"settled", "failed"}
Row == [mission : Missions, status : Status]
NotFlushing == MaxRows + 1

\* rows, the queue, the index by mission and the promise chain stay within range.
TypeOK ==
    /\ rows \in Seq(Row)
    /\ Len(rows) <= MaxRows
    /\ fifo \in Seq(1 .. Len(rows))
    /\ byMission \in [Missions -> 0 .. Len(rows)]
    /\ active \in BOOLEAN
    /\ drained \in 0 .. Len(rows)
    /\ flushing \in [Flushers -> (0 .. Len(rows)) \cup {NotFlushing}]

Init ==
    /\ rows = <<>>
    /\ fifo = <<>>
    /\ byMission = [m \in Missions |-> 0]
    /\ active = FALSE
    /\ drained = 0
    /\ flushing = [f \in Flushers |-> NotFlushing]
-------------------------------------------------------------------------------
\* Fault: a row being emitted is no longer taken for pending.
PendingOnlyQueued(r) == r # 0 /\ rows[r].status = "queued"

Pending(r) == r # 0 /\ rows[r].status \in {"queued", "processing"}

\* enqueue: a mission whose latest row is pending is ignored (early return,
\* no step); otherwise a fresh row joins the queue and one more drainOnce is
\* chained behind the others.
Enqueue(m) ==
    /\ Len(rows) < MaxRows
    /\ ~Pending(byMission[m])
    /\ rows' = Append(rows, [mission |-> m, status |-> "queued"])
    /\ byMission' = [byMission EXCEPT ![m] = Len(rows) + 1]
    /\ fifo' = Append(fifo, Len(rows) + 1)
    /\ UNCHANGED <<active, drained, flushing>>

\* The head rows that are not queued any more are shifted out.
SkipFinished(f, rs) ==
    LET live == {i \in 1 .. Len(f) : rs[f[i]].status = "queued"}
    IN  IF live = {} THEN <<>>
        ELSE SubSeq(f, CHOOSE i \in live : \A j \in live : i <= j, Len(f))

\* Fault: one drainOnce counts for every row it passes over.
LoopCountsRows(rs, f) ==
    LET g == SkipFinished(f, rs)
    IN  /\ fifo' = g
        /\ rows' = IF g = <<>> THEN rs ELSE [rs EXCEPT ![Head(g)].status = "processing"]
        /\ active' = (g # <<>>)
        /\ drained' = drained + 1

\* The loop of drainOnce from its test up to the next await, or to its return.
Loop(rs, f) ==
    LET g == SkipFinished(f, rs)
    IN  /\ fifo' = g
        /\ IF g = <<>>
           THEN /\ rows' = rs
                /\ active' = FALSE
                /\ drained' = drained + 1
           ELSE /\ rows' = [rs EXCEPT ![Head(g)].status = "processing"]
                /\ active' = TRUE
                /\ UNCHANGED drained

\* Fault: drainOnce is called at once, not chained behind the others.
TailUnchained == drained < Len(rows)

\* Fault: a rejected drainOnce breaks the chain.
TailRejected ==
    /\ ~active
    /\ drained < Len(rows)
    /\ \A r \in 1 .. Len(rows) : rows[r].status # "failed"

\* The next link of the chain runs: the previous one has returned.
TailReady == ~active /\ drained < Len(rows)

DrainOnce ==
    /\ TailReady
    /\ Loop(rows, fifo)
    /\ UNCHANGED <<byMission, flushing>>

Answered(outcome) == [rows EXCEPT ![Head(fifo)].status = outcome]

\* The emitter's promise resolves (settled) or rejects (failed), the row is
\* shifted out and the loop goes on.
EmitAnswers(outcome) ==
    /\ active
    /\ Loop(Answered(outcome), Tail(fifo))
    /\ UNCHANGED <<byMission, flushing>>

\* flush() awaits the chain as it is when flush is called.
Flush(f) ==
    /\ flushing[f] = NotFlushing
    /\ flushing' = [flushing EXCEPT ![f] = Len(rows)]
    /\ UNCHANGED <<rows, fifo, byMission, active, drained>>

\* Fault: flush awaits the first drainOnce only.
FlushAtFirstLink(f) == flushing[f] # NotFlushing /\ drained > 0

\* The promise flush() awaits is resolved.
FlushResolved(f) == flushing[f] # NotFlushing /\ drained >= flushing[f]

FlushReturns(f) ==
    /\ FlushResolved(f)
    /\ flushing' = [flushing EXCEPT ![f] = NotFlushing]
    /\ UNCHANGED <<rows, fifo, byMission, active, drained>>

Next ==
    \/ \E m \in Missions : Enqueue(m)
    \/ DrainOnce
    \/ \E outcome \in Outcomes : EmitAnswers(outcome)
    \/ \E f \in Flushers : Flush(f)
    \/ \E f \in Flushers : FlushReturns(f)

Spec == Init /\ [][Next]_vars

\* The job queue runs every ready continuation; that the emitter answers at
\* all is assumed of the SettlementEmitter the queue is constructed with.
Fairness ==
    /\ WF_vars(DrainOnce)
    /\ WF_vars(\E outcome \in Outcomes : EmitAnswers(outcome))

FairSpec == Spec /\ Fairness
-------------------------------------------------------------------------------
Finished(r) == rows[r].status \in Outcomes

FinishedRows == {r \in 1 .. Len(rows) : Finished(r)}

ProcessingRows == {r \in 1 .. Len(rows) : rows[r].status = "processing"}

\* How many rows have been shifted out of fifo.
FinishedCount == Len(rows) - Len(fifo)

\* fifo holds exactly the unfinished rows, in order of creation.
FifoShape ==
    /\ Len(fifo) <= Len(rows)
    /\ \A i \in 1 .. Len(fifo) : fifo[i] = FinishedCount + i

\* The head of fifo is processing while a drain is active; the rest is queued.
StatusShape ==
    \A r \in 1 .. Len(rows) :
        /\ r <= FinishedCount => rows[r].status \in Outcomes
        /\ active /\ r = FinishedCount + 1 => rows[r].status = "processing"
        /\ ~active /\ r = FinishedCount + 1 => rows[r].status = "queued"
        /\ r > FinishedCount + 1 => rows[r].status = "queued"

\* A pending row is the one byMission knows.
LatestShape ==
    \A r \in 1 .. Len(rows) : Pending(r) => byMission[rows[r].mission] = r

\* The inductive invariant; its last part says that no drain returns before
\* the row it was chained for is finished.
QueueInv ==
    /\ TypeOK
    /\ FifoShape
    /\ StatusShape
    /\ LatestShape
    /\ active => fifo # <<>>
    /\ drained <= FinishedCount

\* A mission never has two pending settlements, however enqueue interleaves
\* with the drain (the early return at the head of enqueue).
OnePendingPerMission ==
    \A r, s \in 1 .. Len(rows) :
        ~Finished(r) /\ ~Finished(s) /\ rows[r].mission = rows[s].mission => r = s

\* When a flush() may return, every row created before it was called has been
\* settled or has failed ("Await all currently scheduled work"), although the
\* flush awaits only the last link of the chain.
FlushSeesAllDone ==
    \A f \in Flushers : FlushResolved(f) =>
        \A r \in 1 .. flushing[f] : Finished(r)

\* The queue implements SerialSettlement: one emission at a time, in the order
\* of acceptance, none twice and none skipped.
Serial ==
    INSTANCE SerialSettlement WITH
        accepted <- Len(rows),
        answered <- FinishedRows,
        emitting <- ProcessingRows

SerialSpec == Serial!Spec

\* Every accepted settlement is answered for, also behind rows that failed.
EveryRowFinishes ==
    \A r \in 1 .. MaxRows : (r <= Len(rows)) ~> (r <= Len(rows) /\ Finished(r))
===============================================================================
