------------------------ MODULE SettlementQueue_proofs ------------------------
(***************************************************************************)
(* Proofs about SettlementQueue, for every set of missions and flushers    *)
(* and every bound on the rows.                                            *)
(***************************************************************************)
EXTENDS SettlementQueue, SequenceTheorems, TLAPS

\* While every row of the queue is queued, the loop of drainOnce shifts none out.
LEMMA SkipNothing ==
    ASSUME NEW rs, NEW n \in Nat, NEW f \in Seq(1 .. n),
           \A i \in 1 .. Len(f) : rs[f[i]].status = "queued"
    PROVE  SkipFinished(f, rs) = f
<1> DEFINE live == {i \in 1 .. Len(f) : rs[f[i]].status = "queued"}
           first == CHOOSE i \in live : \A j \in live : i <= j
<1>1. live = 1 .. Len(f)
  OBVIOUS
<1>2. CASE f = <<>>
  BY <1>1, <1>2 DEF SkipFinished
<1>3. CASE f # <<>>
  <2>1. Len(f) \in Nat \ {0}
    BY <1>3
  <2>2. 1 \in live /\ \A j \in live : 1 <= j
    BY <1>1, <2>1
  <2>3. first \in live /\ \A j \in live : first <= j
    BY <2>2
  <2>4. first = 1
    BY <1>1, <2>1, <2>2, <2>3
  <2>5. SubSeq(f, 1, Len(f)) = f
    BY <2>1
  <2> QED
    BY <2>2, <2>4, <2>5 DEF SkipFinished
<1> QED
  BY <1>2, <1>3

\* QueueInv holds initially.
LEMMA InitQueueInv == Init => QueueInv
<1> SUFFICES ASSUME Init PROVE QueueInv
  OBVIOUS
<1>1. Len(rows) = 0 /\ Len(fifo) = 0
  BY DEF Init
<1>2. TypeOK
  <2>1. rows \in Seq(Row) /\ fifo \in Seq(1 .. 0)
    BY DEF Init
  <2>2. byMission \in [Missions -> 0 .. 0]
    BY DEF Init
  <2>3. flushing \in [Flushers -> (0 .. 0) \cup {NotFlushing}]
    BY DEF Init
  <2>4. Len(rows) <= MaxRows
    BY <1>1, QueueAssumption
  <2>5. active \in BOOLEAN
    BY Zenon DEF Init
  <2>6. drained \in 0 .. 0
    BY DEF Init
  <2> QED
    BY <1>1, <2>1, <2>2, <2>3, <2>4, <2>5, <2>6 DEF TypeOK
<1>3. FifoShape /\ StatusShape /\ LatestShape
  BY <1>1 DEF FifoShape, StatusShape, LatestShape
<1> QED
  BY <1>1, <1>2, <1>3 DEF Init, QueueInv, FinishedCount

\* enqueue preserves QueueInv.
LEMMA EnqueueQueueInv ==
    ASSUME QueueInv, NEW m \in Missions, Enqueue(m)
    PROVE  QueueInv'
<1> DEFINE row == [mission |-> m, status |-> "queued"]
<1>0. TypeOK /\ FifoShape /\ StatusShape /\ LatestShape
  BY DEF QueueInv
<1>1. Len(rows') = Len(rows) + 1 /\ Len(fifo') = Len(fifo) + 1
  BY <1>0 DEF TypeOK, Enqueue
<1>2. FinishedCount' = FinishedCount /\ FinishedCount \in 0 .. Len(rows)
  BY <1>0, <1>1 DEF FinishedCount, FifoShape, TypeOK
<1>3. \A r \in 1 .. Len(rows) : rows'[r] = rows[r]
  BY <1>0 DEF Enqueue, TypeOK
<1>4. rows'[Len(rows) + 1] = row
  BY <1>0 DEF Enqueue, TypeOK
<1>5. TypeOK'
  <2>1. rows' \in Seq(Row)
    <3>1. row \in Row
      BY DEF Row, Status
    <3> QED
      BY <3>1, <1>0 DEF TypeOK, Enqueue
  <2>2. fifo' \in Seq(1 .. Len(rows'))
    <3>1. fifo \in Seq(1 .. Len(rows'))
      BY <1>0, <1>1 DEF TypeOK
    <3> QED
      BY <1>0, <1>1, <3>1 DEF TypeOK, Enqueue
  <2>3. byMission' \in [Missions -> 0 .. Len(rows')]
    BY <1>0, <1>1 DEF TypeOK, Enqueue
  <2>4. flushing' \in [Flushers -> (0 .. Len(rows')) \cup {NotFlushing}]
    BY <1>0, <1>1 DEF TypeOK, Enqueue
  <2>5. Len(rows') <= MaxRows /\ active' \in BOOLEAN /\ drained' \in 0 .. Len(rows')
    BY <1>0, <1>1, QueueAssumption DEF TypeOK, Enqueue
  <2> QED
    BY <2>1, <2>2, <2>3, <2>4, <2>5 DEF TypeOK, NotFlushing
<1>6. FifoShape'
  <2>1. fifo' = Append(fifo, Len(rows) + 1) /\ fifo \in Seq(1 .. Len(rows))
    BY <1>0 DEF Enqueue, TypeOK
  <2>2. fifo'[Len(fifo) + 1] = Len(rows) + 1 /\ \A i \in 1 .. Len(fifo) : fifo'[i] = fifo[i]
    BY <2>1
  <2>3. \A i \in 1 .. Len(fifo) : fifo[i] = FinishedCount + i
    BY <1>0 DEF FifoShape
  <2>4. FinishedCount + (Len(fifo) + 1) = Len(rows) + 1 /\ Len(fifo) <= Len(rows)
    BY <1>0 DEF FinishedCount, TypeOK, FifoShape
  <2>5. Len(fifo) \in Nat /\ Len(rows) \in Nat
    BY <1>0 DEF TypeOK
  <2>6. \A i \in 1 .. Len(fifo') : i \in 1 .. Len(fifo) \/ i = Len(fifo) + 1
    BY <1>1, <2>5
  <2>7. \A i \in 1 .. Len(fifo') : fifo'[i] = FinishedCount' + i
    BY <1>2, <2>2, <2>3, <2>4, <2>6
  <2> QED
    BY <1>1, <2>4, <2>5, <2>7 DEF FifoShape
<1>7. StatusShape'
  <2>1. active' = active /\ (active => Len(fifo) > 0)
    BY <1>0 DEF Enqueue, QueueInv, TypeOK
  <2>2. Len(fifo) \in Nat /\ Len(rows) \in Nat /\ FinishedCount = Len(rows) - Len(fifo)
    BY <1>0 DEF TypeOK, FinishedCount
  <2> SUFFICES ASSUME NEW r \in 1 .. Len(rows')
               PROVE  /\ r <= FinishedCount => rows'[r].status \in Outcomes
                      /\ active /\ r = FinishedCount + 1 => rows'[r].status = "processing"
                      /\ ~active /\ r = FinishedCount + 1 => rows'[r].status = "queued"
                      /\ r > FinishedCount + 1 => rows'[r].status = "queued"
    BY <1>2, <2>1 DEF StatusShape
  <2>3. CASE r \in 1 .. Len(rows)
    BY <1>0, <1>3, <2>3 DEF StatusShape
  <2>4. CASE r = Len(rows) + 1
    BY <1>4, <2>1, <2>2, <2>4
  <2> QED
    BY <1>1, <2>2, <2>3, <2>4
<1>8. LatestShape'
  <2>1. \A r \in 1 .. Len(rows) : Pending(r)' => Pending(r) /\ rows[r].mission # m
    BY <1>0, <1>3 DEF Pending, Enqueue, LatestShape, TypeOK
  <2>2. \A k \in Missions : byMission'[k] = IF k = m THEN Len(rows) + 1 ELSE byMission[k]
    BY <1>0 DEF Enqueue, TypeOK
  <2> SUFFICES ASSUME NEW r \in 1 .. Len(rows'), Pending(r)'
               PROVE  byMission'[rows'[r].mission] = r
    BY DEF LatestShape
  <2>3. CASE r \in 1 .. Len(rows)
    <3>1. rows[r] \in Row
      BY <1>0, <2>3 DEF TypeOK
    <3>2. rows'[r] = rows[r] /\ rows[r].mission \in Missions
      BY <1>3, <2>3, <3>1 DEF Row
    <3> QED
      BY <1>0, <2>1, <2>2, <2>3, <3>2 DEF LatestShape
  <2>4. CASE r = Len(rows) + 1
    BY <1>4, <2>2, <2>4
  <2> QED
    BY <1>0, <1>1, <2>3, <2>4 DEF TypeOK
<1>9. active' => fifo' # <<>>
  BY <1>0, <1>1 DEF TypeOK
<1>10. drained' <= FinishedCount'
  BY <1>2 DEF QueueInv, Enqueue
<1> QED
  BY <1>5, <1>6, <1>7, <1>8, <1>9, <1>10 DEF QueueInv

\* The loop of drainOnce, entered with all of the queue queued and everything
\* before it finished, re-establishes QueueInv.
LEMMA LoopQueueInv ==
    ASSUME TypeOK,
           NEW rs \in Seq(Row),
           Len(rs) = Len(rows),
           \A r \in 1 .. Len(rows) : rs[r].mission = rows[r].mission,
           NEW f \in Seq(1 .. Len(rows)),
           Len(f) <= Len(rows),
           \A i \in 1 .. Len(f) : f[i] = Len(rows) - Len(f) + i,
           \A r \in 1 .. Len(rows) :
               IF r <= Len(rows) - Len(f) THEN rs[r].status \in Outcomes
                                          ELSE rs[r].status = "queued",
           \A r \in 1 .. Len(rows) :
               rs[r].status \in {"queued", "processing"} =>
                   byMission[rows[r].mission] = r,
           drained <= Len(rows) - Len(f),
           f = <<>> => drained < Len(rows),
           Loop(rs, f), UNCHANGED <<byMission, flushing>>
    PROVE  QueueInv' /\ fifo' = f /\ Len(rows') = Len(rows) /\ active' = (f # <<>>)
<1>1. ASSUME NEW i \in 1 .. Len(f)
      PROVE  rs[f[i]].status = "queued"
  <2>1. f[i] \in 1 .. Len(rows) /\ f[i] = Len(rows) - Len(f) + i
    OBVIOUS
  <2>2. Len(rows) \in Nat /\ Len(f) \in Nat /\ i >= 1
    BY DEF TypeOK
  <2>3. ~(f[i] <= Len(rows) - Len(f))
    BY <2>1, <2>2
  <2> QED
    BY <2>1, <2>3
<1>2. SkipFinished(f, rs) = f
  BY <1>1, SkipNothing
<1>3. fifo' = f /\ active' = (f # <<>>)
  BY <1>2 DEF Loop
<1>4. CASE f = <<>>
  <2>1. rows' = rs /\ drained' = drained + 1 /\ active' = FALSE
    BY <1>2, <1>4 DEF Loop
  <2>2. FinishedCount' = Len(rows) /\ Len(fifo') = 0 /\ Len(rows') = Len(rows)
    BY <1>3, <1>4, <2>1 DEF FinishedCount
  <2>3. TypeOK'
    BY <1>3, <1>4, <2>1, <2>2 DEF TypeOK
  <2>4. Len(f) = 0 /\ Len(rows) \in Nat
    BY <1>4 DEF TypeOK
  <2>5. \A r \in 1 .. Len(rows) : rows'[r].status \in Outcomes
    BY <2>1, <2>4
  <2>6. StatusShape'
    BY <2>1, <2>2, <2>4, <2>5 DEF StatusShape
  <2>7. LatestShape'
    BY <2>2, <2>5 DEF LatestShape, Pending, Outcomes
  <2>8. FifoShape'
    BY <2>2, <2>4 DEF FifoShape
  <2>9. drained' <= FinishedCount'
    BY <1>4, <2>1, <2>2, <2>4 DEF TypeOK
  <2> QED
    BY <1>3, <2>1, <2>2, <2>3, <2>6, <2>7, <2>8, <2>9 DEF QueueInv
<1>5. CASE f # <<>>
  <2>1. /\ rows' = [rs EXCEPT ![f[1]].status = "processing"]
        /\ drained' = drained
        /\ active' = TRUE
    BY <1>2, <1>5 DEF Loop
  <2>2. f[1] \in 1 .. Len(rows) /\ f[1] = Len(rows) - Len(f) + 1 /\ Len(f) > 0
    BY <1>5
  <2>3. Len(rows') = Len(rows) /\ FinishedCount' = Len(rows) - Len(f)
    BY <1>3, <2>1, <2>2 DEF FinishedCount
  <2>a. rs[f[1]] \in Row
    BY <2>2
  <2>b. rs[f[1]].status = "queued"
    BY <1>1, <2>2
  <2>4. /\ rows'[f[1]].mission = rs[f[1]].mission
        /\ rows'[f[1]].status = "processing"
        /\ rows'[f[1]] \in Row
    <3>1. rows'[f[1]] = [rs[f[1]] EXCEPT !.status = "processing"]
      BY <2>1, <2>2
    <3> QED
      BY <2>a, <3>1 DEF Row, Status
  <2>5. \A r \in 1 .. Len(rows) : r # f[1] => rows'[r] = rs[r]
    BY <2>1, <2>2
  <2>6. TypeOK'
    <3>1. rows' \in Seq(Row)
      <4>1. rows' = [rs EXCEPT ![f[1]] = rows'[f[1]]]
        BY <2>1, <2>2
      <4>2. \A e \in Row : [rs EXCEPT ![f[1]] = e] \in Seq(Row)
        BY <2>2, ExceptSeq
      <4> QED
        BY <2>4, <4>1, <4>2
    <3> QED
      BY <1>3, <2>1, <2>3, <3>1 DEF TypeOK
  <2>7. StatusShape'
    <3>1. Len(rows) \in Nat /\ Len(f) \in Nat
      BY DEF TypeOK
    <3> SUFFICES ASSUME NEW r \in 1 .. Len(rows)
                 PROVE  /\ r <= Len(rows) - Len(f) => rows'[r].status \in Outcomes
                        /\ r = Len(rows) - Len(f) + 1 => rows'[r].status = "processing"
                        /\ r > Len(rows) - Len(f) + 1 => rows'[r].status = "queued"
      BY <2>1, <2>3 DEF StatusShape
    <3>2. CASE r = f[1]
      BY <2>2, <2>4, <3>1, <3>2
    <3>3. CASE r # f[1]
      <4>1. rows'[r] = rs[r] /\ r # Len(rows) - Len(f) + 1
        BY <2>2, <2>5, <3>3
      <4>2. r > Len(rows) - Len(f) + 1 => ~(r <= Len(rows) - Len(f))
        BY <3>1
      <4> QED
        BY <4>1, <4>2
    <3> QED
      BY <3>2, <3>3
  <2>8. LatestShape'
    <3>1. ASSUME NEW r \in 1 .. Len(rows)
          PROVE  rows'[r].mission = rows[r].mission
      <4>1. CASE r = f[1]
        BY <2>4, <4>1
      <4>2. CASE r # f[1]
        BY <2>5, <4>2
      <4> QED
        BY <4>1, <4>2
    <3>2. \A r \in 1 .. Len(rows) :
             Pending(r)' => rs[r].status \in {"queued", "processing"}
      <4> SUFFICES ASSUME NEW r \in 1 .. Len(rows), r # f[1], Pending(r)'
                   PROVE  rs[r].status \in {"queued", "processing"}
        BY <2>2, <1>1, <2>b
      <4> QED
        BY <2>5 DEF Pending
    <3> QED
      BY <2>3, <3>1, <3>2 DEF LatestShape, TypeOK
  <2>9. FifoShape'
    BY <1>3, <2>2, <2>3 DEF FifoShape
  <2> QED
    BY <1>3, <2>1, <2>2, <2>3, <2>6, <2>7, <2>8, <2>9 DEF QueueInv
<1> QED
  BY <1>4, <1>5

\* A chained drainOnce call preserves QueueInv.
LEMMA DrainOnceQueueInv ==
    ASSUME QueueInv, DrainOnce
    PROVE  QueueInv' /\ fifo' = fifo /\ Len(rows') = Len(rows) /\ active' = (fifo # <<>>)
<1>0. TypeOK /\ FifoShape /\ StatusShape /\ LatestShape /\ ~active
  BY DEF QueueInv, DrainOnce, TailReady
<1>1. Len(rows) \in Nat /\ Len(fifo) \in Nat /\ FinishedCount = Len(rows) - Len(fifo)
  BY <1>0 DEF TypeOK, FinishedCount
<1>2. \A r \in 1 .. Len(rows) :
         IF r <= Len(rows) - Len(fifo) THEN rows[r].status \in Outcomes
                                       ELSE rows[r].status = "queued"
  BY <1>0, <1>1 DEF StatusShape
<1>3. \A r \in 1 .. Len(rows) :
         rows[r].status \in {"queued", "processing"} => byMission[rows[r].mission] = r
  BY <1>0, <1>1 DEF LatestShape, Pending
<1>4. Loop(rows, fifo) /\ UNCHANGED <<byMission, flushing>> /\ drained < Len(rows)
  BY DEF DrainOnce, TailReady
<1>5. Len(fifo) <= Len(rows) /\ \A i \in 1 .. Len(fifo) : fifo[i] = Len(rows) - Len(fifo) + i
  BY <1>0, <1>1 DEF FifoShape
<1>6. rows \in Seq(Row) /\ fifo \in Seq(1 .. Len(rows)) /\ drained <= Len(rows) - Len(fifo)
  BY <1>0, <1>1 DEF TypeOK, QueueInv
<1> QED
  BY <1>0, <1>2, <1>3, <1>4, <1>5, <1>6, LoopQueueInv

\* The emitter's answer preserves QueueInv and finishes the head of the queue.
LEMMA EmitAnswersQueueInv ==
    ASSUME QueueInv, NEW outcome \in Outcomes, EmitAnswers(outcome)
    PROVE  /\ QueueInv' /\ Len(rows') = Len(rows)
           /\ fifo # <<>> /\ fifo' = Tail(fifo)
           /\ active' = (fifo' # <<>>)
<1> DEFINE rs == Answered(outcome)
           f == Tail(fifo)
           h == Head(fifo)
<1>0. TypeOK /\ FifoShape /\ StatusShape /\ LatestShape /\ active /\ fifo # <<>>
  BY DEF QueueInv, EmitAnswers
<1>1. /\ Len(rows) \in Nat /\ Len(fifo) \in Nat \ {0}
      /\ FinishedCount = Len(rows) - Len(fifo)
      /\ fifo \in Seq(1 .. Len(rows))
  BY <1>0 DEF TypeOK, FinishedCount
<1>2. /\ Len(f) = Len(fifo) - 1 /\ f \in Seq(1 .. Len(rows))
      /\ \A i \in 1 .. Len(f) : f[i] = fifo[i + 1]
  BY <1>0, <1>1
<1>3. h \in 1 .. Len(rows) /\ h = Len(rows) - Len(fifo) + 1
  <2>1. h = fifo[1] /\ 1 \in 1 .. Len(fifo)
    BY <1>1
  <2> QED
    BY <1>0, <1>1, <2>1 DEF FifoShape
<1>4. Len(f) <= Len(rows) /\ \A i \in 1 .. Len(f) : f[i] = Len(rows) - Len(f) + i
  <2>1. Len(f) <= Len(rows)
    BY <1>0, <1>1, <1>2 DEF FifoShape
  <2>2. ASSUME NEW i \in 1 .. Len(f)
        PROVE  f[i] = Len(rows) - Len(f) + i
    <3>1. i + 1 \in 1 .. Len(fifo) /\ f[i] = fifo[i + 1]
      BY <1>1, <1>2
    <3>2. fifo[i + 1] = Len(rows) - Len(fifo) + (i + 1)
      BY <1>0, <1>1, <3>1 DEF FifoShape
    <3> QED
      BY <1>1, <1>2, <3>1, <3>2
  <2> QED
    BY <2>1, <2>2
<1>5. rows \in Seq(Row) /\ rows[h] \in Row
  BY <1>0, <1>3, ElementOfSeq DEF TypeOK
<1>6. rs[h].mission = rows[h].mission /\ rs[h].status = outcome /\ rs[h] \in Row
  <2>1. rs[h] = [rows[h] EXCEPT !.status = outcome]
    BY <1>3, <1>5 DEF Answered
  <2> QED
    BY <1>5, <2>1 DEF Row, Status, Outcomes
<1>7. \A r \in 1 .. Len(rows) : r # h => rs[r] = rows[r]
  BY <1>3, <1>5 DEF Answered
<1>8. rs \in Seq(Row) /\ Len(rs) = Len(rows)
  <2>1. rs = [rows EXCEPT ![h] = rs[h]]
    BY <1>3, <1>5 DEF Answered
  <2> QED
    BY <1>3, <1>5, <1>6, <2>1, ExceptSeq
<1>9. ASSUME NEW r \in 1 .. Len(rows)
      PROVE  /\ rs[r].mission = rows[r].mission
             /\ IF r <= Len(rows) - Len(f) THEN rs[r].status \in Outcomes
                                           ELSE rs[r].status = "queued"
  <2>1. CASE r = h
    BY <1>1, <1>2, <1>3, <1>6, <2>1
  <2>2. CASE r # h
    <3>1. rs[r] = rows[r]
      BY <1>7, <2>2
    <3>2. r <= Len(rows) - Len(f) => r <= FinishedCount
      BY <1>1, <1>2, <1>3, <2>2
    <3>3. ~(r <= Len(rows) - Len(f)) => r > FinishedCount + 1
      BY <1>1, <1>2, <1>3, <2>2
    <3> QED
      BY <1>0, <3>1, <3>2, <3>3 DEF StatusShape
  <2> QED
    BY <2>1, <2>2
<1>10. ASSUME NEW r \in 1 .. Len(rows), rs[r].status \in {"queued", "processing"}
       PROVE  byMission[rows[r].mission] = r
  <2>1. r # h
    BY <1>6, <1>10 DEF Outcomes
  <2>2. rows[r].status \in {"queued", "processing"} /\ r # 0
    BY <1>7, <1>10, <2>1
  <2> QED
    BY <1>0, <2>2 DEF LatestShape, Pending
<1>11. drained <= Len(rows) - Len(f) /\ drained < Len(rows)
  BY <1>0, <1>1, <1>2 DEF QueueInv, TypeOK
<1>12. Loop(rs, f) /\ UNCHANGED <<byMission, flushing>>
  BY DEF EmitAnswers
<1> HIDE DEF rs, f
<1>13. QueueInv' /\ fifo' = f /\ Len(rows') = Len(rows) /\ active' = (f # <<>>)
  BY <1>0, <1>2, <1>4, <1>8, <1>9, <1>10, <1>11, <1>12, LoopQueueInv
<1> QED
  BY <1>0, <1>13 DEF f

\* flush() and its return leave the queue alone.
LEMMA FlushQueueInv ==
    ASSUME QueueInv, NEW f \in Flushers, Flush(f) \/ FlushReturns(f)
    PROVE  QueueInv' /\ UNCHANGED <<rows, fifo, byMission, active, drained>>
<1>1. UNCHANGED <<rows, fifo, byMission, active, drained>>
  BY DEF Flush, FlushReturns
<1>2. TypeOK'
  <2>1. flushing' \in [Flushers -> (0 .. Len(rows)) \cup {NotFlushing}]
    <3>1. Len(rows) \in 0 .. Len(rows)
      BY DEF QueueInv, TypeOK
    <3> QED
      BY <3>1 DEF QueueInv, TypeOK, Flush, FlushReturns
  <2> QED
    BY <1>1, <2>1 DEF QueueInv, TypeOK, NotFlushing
<1> QED
  BY <1>1, <1>2 DEF QueueInv, FifoShape, StatusShape, LatestShape, FinishedCount, Pending

\* Every step preserves QueueInv.
LEMMA NextQueueInv == QueueInv /\ [Next]_vars => QueueInv'
<1> SUFFICES ASSUME QueueInv, [Next]_vars PROVE QueueInv'
  OBVIOUS
<1>1. ASSUME NEW m \in Missions, Enqueue(m) PROVE QueueInv'
  BY <1>1, EnqueueQueueInv
<1>2. CASE DrainOnce
  BY <1>2, DrainOnceQueueInv
<1>3. ASSUME NEW outcome \in Outcomes, EmitAnswers(outcome) PROVE QueueInv'
  BY <1>3, EmitAnswersQueueInv
<1>4. ASSUME NEW f \in Flushers, Flush(f) \/ FlushReturns(f) PROVE QueueInv'
  BY <1>4, FlushQueueInv
<1>5. CASE UNCHANGED vars
  BY <1>5 DEF vars, QueueInv, TypeOK, NotFlushing, FifoShape, StatusShape, LatestShape,
              FinishedCount, Pending
<1> QED
  BY <1>1, <1>2, <1>3, <1>4, <1>5 DEF Next

\* The queue's inductive invariant holds in every reachable state.
THEOREM QueueInvariance == Spec => []QueueInv
BY InitQueueInv, NextQueueInv, PTL DEF Spec

\* Rows, queue, mission index and promise chain stay within range, however calls interleave.
THEOREM QueueTypes == Spec => []TypeOK
<1>1. QueueInv => TypeOK
  BY DEF QueueInv
<1> QED
  BY <1>1, QueueInvariance, PTL

\* No mission ever has two pending settlements (enqueue's early return).
THEOREM OnePending == Spec => []OnePendingPerMission
<1>1. QueueInv => OnePendingPerMission
  <2> SUFFICES ASSUME QueueInv, NEW r \in 1 .. Len(rows), NEW s \in 1 .. Len(rows),
                      ~Finished(r), ~Finished(s), rows[r].mission = rows[s].mission
               PROVE  r = s
    BY DEF OnePendingPerMission
  <2>1. rows[r] \in Row /\ rows[s] \in Row
    BY ElementOfSeq DEF QueueInv, TypeOK
  <2>2. Pending(r) /\ Pending(s)
    BY <2>1 DEF Pending, Finished, Row, Status, Outcomes
  <2> QED
    BY <2>2 DEF QueueInv, LatestShape
<1> QED
  BY <1>1, QueueInvariance, PTL

\* A flush() that may return has seen every row created before it finish.
THEOREM FlushComplete == Spec => []FlushSeesAllDone
<1>1. QueueInv => FlushSeesAllDone
  <2> SUFFICES ASSUME QueueInv, NEW f \in Flushers, FlushResolved(f),
                      NEW r \in 1 .. flushing[f]
               PROVE  Finished(r)
    BY DEF FlushSeesAllDone
  <2>1. flushing[f] \in 0 .. Len(rows) /\ flushing[f] <= drained
    BY DEF FlushResolved, QueueInv, TypeOK
  <2>2. FinishedCount \in Int /\ Len(rows) \in Nat /\ drained \in Nat /\ drained <= FinishedCount
    BY DEF QueueInv, TypeOK, FinishedCount
  <2>3. r \in 1 .. Len(rows) /\ r <= FinishedCount
    BY <2>1, <2>2
  <2> QED
    BY <2>3 DEF QueueInv, StatusShape, Finished
<1> QED
  BY <1>1, QueueInvariance, PTL

\* In terms of rows: those shifted out of fifo are the finished ones, and only
\* the next one, while a drain awaits the emitter, is processing.
LEMMA RowsByStatus ==
    ASSUME QueueInv
    PROVE  /\ Len(rows) \in Nat /\ FinishedCount \in 0 .. Len(rows)
           /\ active => FinishedCount < Len(rows)
           /\ FinishedRows = 1 .. FinishedCount
           /\ ProcessingRows = IF active THEN {FinishedCount + 1} ELSE {}
<1>1. /\ Len(rows) \in Nat /\ Len(fifo) \in Nat /\ Len(fifo) <= Len(rows)
      /\ (active => Len(fifo) > 0)
  BY DEF QueueInv, TypeOK, FifoShape
<1>2. FinishedCount \in 0 .. Len(rows) /\ (active => FinishedCount < Len(rows))
  BY <1>1 DEF FinishedCount
<1>3. ASSUME NEW r \in 1 .. Len(rows)
      PROVE  /\ Finished(r) <=> r <= FinishedCount
             /\ rows[r].status = "processing" <=> (active /\ r = FinishedCount + 1)
  <2>1. r <= FinishedCount \/ r = FinishedCount + 1 \/ r > FinishedCount + 1
    BY <1>2
  <2> QED
    BY <1>2, <2>1 DEF QueueInv, StatusShape, Finished, Outcomes
<1>4. FinishedRows = 1 .. FinishedCount
  BY <1>1, <1>2, <1>3 DEF FinishedRows
<1>5. ProcessingRows = IF active THEN {FinishedCount + 1} ELSE {}
  BY <1>1, <1>2, <1>3 DEF ProcessingRows
<1> QED
  BY <1>1, <1>2, <1>4, <1>5

\* SettlementQueue implements SerialSettlement: settlements are emitted one at
\* a time, in the order enqueue accepted them, each exactly once.
THEOREM QueueIsSerial == Spec => SerialSpec
<1>1. Init => Serial!Init
  BY DEF Init, Serial!Init, FinishedRows, ProcessingRows
<1>2. ASSUME QueueInv, QueueInv', [Next]_vars
      PROVE  [Serial!Next]_<<Len(rows), FinishedRows, ProcessingRows>>
  <2> DEFINE n == FinishedCount + 1
  <2>0. /\ rows \in Seq(Row) /\ fifo \in Seq(1 .. Len(rows)) /\ Len(fifo) <= Len(rows)
        /\ Len(fifo) \in Nat
    BY <1>2 DEF QueueInv, TypeOK, FifoShape
  <2>a. /\ Len(rows) \in Nat /\ FinishedCount \in 0 .. Len(rows)
        /\ active => FinishedCount < Len(rows)
        /\ FinishedRows = 1 .. FinishedCount
        /\ ProcessingRows = IF active THEN {n} ELSE {}
    BY <1>2, RowsByStatus
  <2>b. /\ FinishedRows' = 1 .. FinishedCount'
        /\ ProcessingRows' = IF active' THEN {FinishedCount' + 1} ELSE {}
        /\ active' => FinishedCount' < Len(rows')
    <3>1. (/\ FinishedRows = 1 .. FinishedCount
           /\ ProcessingRows = IF active THEN {FinishedCount + 1} ELSE {}
           /\ active => FinishedCount < Len(rows))'
      BY <1>2, RowsByStatus, PTL
    <3> QED
      BY <3>1
  <2>1. ASSUME NEW m \in Missions, Enqueue(m) PROVE Serial!Accept
    <3>1. Len(rows') = Len(rows) + 1 /\ FinishedCount' = FinishedCount /\ active' = active
      BY <2>0, <2>1 DEF Enqueue, FinishedCount
    <3> QED
      BY <2>a, <2>b, <3>1 DEF Serial!Accept
  <2>2. ASSUME DrainOnce
        PROVE  Serial!Begin \/ UNCHANGED <<Len(rows), FinishedRows, ProcessingRows>>
    <3>1. fifo' = fifo /\ Len(rows') = Len(rows) /\ ~active /\ FinishedCount' = FinishedCount
      BY <1>2, <2>2, DrainOnceQueueInv DEF DrainOnce, TailReady, FinishedCount
    <3>2. CASE ~active'
      BY <2>a, <2>b, <3>1, <3>2
    <3>3. CASE active'
      <4>1. n \in 1 .. Len(rows) /\ FinishedRows = 1 .. (n - 1)
        BY <2>a, <2>b, <3>1, <3>3
      <4> QED
        BY <2>a, <2>b, <3>1, <3>3, <4>1 DEF Serial!Begin
    <3> QED
      BY <3>2, <3>3
  <2>3. ASSUME NEW outcome \in Outcomes, EmitAnswers(outcome) PROVE Serial!Finish
    <3>1. Len(rows') = Len(rows) /\ fifo # <<>> /\ fifo' = Tail(fifo) /\ active
      BY <1>2, <2>3, EmitAnswersQueueInv DEF EmitAnswers
    <3>2. FinishedCount' = n
      BY <2>0, <3>1 DEF FinishedCount
    <3>3. n \in 1 .. Len(rows) /\ ProcessingRows = {n}
      BY <2>a, <3>1
    <3>4. FinishedRows' = FinishedRows \cup {n}
      BY <2>a, <2>b, <3>2, <3>3
    <3>5. ProcessingRows' = {} \/ (n < Len(rows) /\ ProcessingRows' = {n + 1})
      BY <2>b, <3>1, <3>2
    <3> QED
      BY <3>1, <3>3, <3>4, <3>5 DEF Serial!Finish
  <2>4. ASSUME NEW f \in Flushers, Flush(f) \/ FlushReturns(f)
        PROVE  UNCHANGED <<Len(rows), FinishedRows, ProcessingRows>>
    BY <1>2, <2>4, FlushQueueInv DEF FinishedRows, ProcessingRows, Finished
  <2>5. CASE UNCHANGED vars
    BY <2>5 DEF vars, FinishedRows, ProcessingRows, Finished
  <2> QED
    BY <1>2, <2>1, <2>2, <2>3, <2>4, <2>5 DEF Next, Serial!Next
<1> QED
  BY <1>1, <1>2, QueueInvariance, PTL DEF Spec, SerialSpec, Serial!Spec, Serial!serialVars
===============================================================================
