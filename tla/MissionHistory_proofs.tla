------------------------ MODULE MissionHistory_proofs ------------------------
(***************************************************************************)
(* Theorems about the two histories a mission keeps: the hash-chained      *)
(* ledger (MissionLedger), for any callers, cores and length, and the      *)
(* transition records of the mission state machine (MissionMachine), for   *)
(* any targets, objectives and bounds.                                     *)
(***************************************************************************)
EXTENDS MissionLedger, MissionMachine, SequenceTheorems, FiniteSetTheorems,
        WellFoundedInduction, TLAPS
-------------------------------------------------------------------------------
(* The ledger. *)

\* The tail hash of a ledger is a hash, and is known in that ledger.
LEMMA TailHashProperties ==
    ASSUME TypeOK
    PROVE  TailHash(events) \in HashValue /\ Known(events, TailHash(events), Len(events))
<1>1. CASE events = <<>>
  BY <1>1 DEF TailHash, Genesis, HashValue, Known
<1>2. CASE events # <<>>
  <2>1. Len(events) \in 1 .. Len(events) /\ events[Len(events)] \in LedgerEvent
    <3>1. events \in Seq(LedgerEvent) /\ Len(events) \in Nat \ {0}
      BY <1>2, EmptySeq DEF TypeOK
    <3> QED
      BY <3>1, ElementOfSeq
  <2> QED
    BY <1>2, <2>1 DEF TailHash, LedgerEvent, Known
<1> QED
  BY <1>1, <1>2

\* LedgerInv holds initially.
LEMMA InitLedgerInv == Init => LedgerInv
<1> SUFFICES ASSUME Init PROVE LedgerInv
  OBVIOUS
<1>1. events = <<>> /\ Len(events) = 0 /\ \A c \in Callers : Idle(c)
  BY DEF Init, Idle
<1>2. TypeOK
  BY <1>1 DEF Init, TypeOK
<1> QED
  BY <1>1, <1>2 DEF LedgerInv, LinksRooted, PendingRooted, PendingAtTail, ChainIntact, ChainVerifies

\* Starting an append preserves LedgerInv.
LEMMA StartLedgerInv ==
    ASSUME LedgerInv, NEW c \in Callers, NEW core \in Cores, StartAppend(c, core)
    PROVE  LedgerInv'
<1> DEFINE input == [previousHash |-> TailHash(events), core |-> core]
<1>0. TypeOK /\ LinksRooted /\ PendingRooted /\ PendingAtTail /\ ChainIntact
  BY DEF LedgerInv
<1>1. TailHash(events) \in HashValue /\ Known(events, TailHash(events), Len(events))
  BY <1>0, TailHashProperties
<1>2. events' = events /\ inflight' = [inflight EXCEPT ![c] = <<input>>]
  BY DEF StartAppend
<1>3. input \in Input
  BY <1>1 DEF Input
<1> HIDE DEF input
<1>4. <<input>> \in Seq(Input) /\ Len(<<input>>) = 1 /\ <<input>>[1] = input
  BY <1>3
<1>5. \A d \in Callers : inflight'[d] = IF d = c THEN <<input>> ELSE inflight[d]
  BY <1>0, <1>2 DEF TypeOK
<1>6. TypeOK'
  BY <1>0, <1>2, <1>4, <1>5 DEF TypeOK
<1>7. (LinksRooted /\ ChainIntact)'
  BY <1>0, <1>2 DEF LinksRooted, ChainIntact, ChainVerifies, Known
<1>8. input.previousHash = TailHash(events)
  BY DEF input
<1>9. PendingRooted'
  <2> SUFFICES ASSUME NEW d \in Callers, ~Idle(d)'
               PROVE  Known(events, inflight'[d][1].previousHash, Len(events))
    BY <1>2 DEF PendingRooted, Known, InputOf
  <2>1. CASE d = c
    BY <1>1, <1>4, <1>5, <1>8, <2>1
  <2>2. CASE d # c
    BY <1>0, <1>5, <2>2 DEF PendingRooted, Idle, InputOf
  <2> QED
    BY <2>1, <2>2
<1>10. PendingAtTail'
  <2> SUFFICES ASSUME Exclusive, NEW d \in Callers, ~Idle(d)'
               PROVE  /\ inflight'[d][1].previousHash = TailHash(events)
                      /\ \A e \in Callers : ~Idle(e)' => e = d
    BY <1>2 DEF PendingAtTail, InputOf, TailHash
  <2>1. \A e \in Callers : Idle(e)
    BY DEF StartAppend, MayStart
  <2>2. \A e \in Callers : ~Idle(e)' => e = c
    BY <1>5, <2>1 DEF Idle
  <2> QED
    BY <1>4, <1>5, <1>8, <2>2
<1> QED
  BY <1>6, <1>7, <1>9, <1>10 DEF LedgerInv

\* Pushing the event of a finished append preserves LedgerInv.
LEMMA FinishLedgerInv ==
    ASSUME LedgerInv, NEW c \in Callers, FinishAppend(c)
    PROVE  LedgerInv'
<1> DEFINE input == inflight[c][1]
           ev == Event(input)
           n == Len(events)
<1>0. TypeOK /\ LinksRooted /\ PendingRooted /\ PendingAtTail /\ ChainIntact
  BY DEF LedgerInv
<1>1. input \in Input
  <2>1. inflight[c] \in Seq(Input) /\ inflight[c] # <<>>
    BY <1>0 DEF TypeOK, FinishAppend, Idle
  <2>2. 1 \in 1 .. Len(inflight[c])
    BY <2>1, EmptySeq
  <2> QED
    BY <2>1, <2>2, ElementOfSeq
<1>2. /\ ev \in LedgerEvent
      /\ ev.previousHash = input.previousHash
      /\ ev.core = input.core
      /\ ev.eventHash = Hash(ev.previousHash, ev.core)
  <2>1. Hash(input.previousHash, input.core) \in HashValue
    BY <1>1 DEF Input, Hash, HashValue
  <2> QED
    BY <1>1, <2>1 DEF Event, Input, LedgerEvent
<1>3. events' = Append(events, ev) /\ inflight' = [inflight EXCEPT ![c] = <<>>]
  BY DEF FinishAppend, InputOf
<1> HIDE DEF ev
<1>4. /\ events \in Seq(LedgerEvent) /\ n \in Nat
      /\ events' \in Seq(LedgerEvent)
      /\ Len(events') = n + 1
      /\ events'[n + 1] = ev
      /\ \A i \in 1 .. n : events'[i] = events[i]
  BY <1>0, <1>2, <1>3, AppendProperties DEF TypeOK
<1>5. \A d \in Callers : inflight'[d] = IF d = c THEN <<>> ELSE inflight[d]
  BY <1>0, <1>3 DEF TypeOK
<1>6. TypeOK'
  <2>1. <<>> \in Seq(Input) /\ Len(<<>>) = 0
    OBVIOUS
  <2> QED
    BY <1>0, <1>3, <1>4, <1>5, <2>1 DEF TypeOK
<1>7. ASSUME NEW h, NEW k \in 0 .. n, Known(events, h, k)
      PROVE  Known(events', h, k) /\ Known(events', h, n + 1)
  BY <1>4, <1>7 DEF Known
<1>8. Known(events, input.previousHash, n)
  BY <1>0 DEF PendingRooted, FinishAppend, InputOf
<1>9. LinksRooted'
  <2> SUFFICES ASSUME NEW i \in 1 .. n + 1
               PROVE  Known(events', events'[i].previousHash, i - 1)
    BY <1>4 DEF LinksRooted, Known
  <2>1. CASE i = n + 1
    <3>1. i - 1 = n /\ n \in 0 .. n /\ events'[i].previousHash = input.previousHash
      BY <1>2, <1>4, <2>1
    <3> QED
      BY <1>7, <1>8, <3>1
  <2>2. CASE i \in 1 .. n
    <3>1. Known(events, events[i].previousHash, i - 1) /\ i - 1 \in 0 .. n
      BY <1>0, <1>4, <2>2 DEF LinksRooted
    <3> QED
      BY <1>4, <1>7, <2>2, <3>1
  <2> QED
    BY <1>4, <2>1, <2>2
<1>10. PendingRooted'
  <2> SUFFICES ASSUME NEW d \in Callers, ~Idle(d)'
               PROVE  Known(events', inflight'[d][1].previousHash, n + 1)
    BY <1>4 DEF PendingRooted, InputOf, Known
  <2>1. d # c /\ inflight'[d] = inflight[d] /\ ~Idle(d)
    BY <1>5 DEF Idle
  <2>2. Known(events, inflight[d][1].previousHash, n) /\ n \in 0 .. n
    BY <1>0, <1>4, <2>1 DEF PendingRooted, InputOf
  <2> QED
    BY <1>7, <2>1, <2>2
<1>11. PendingAtTail'
  <2> SUFFICES ASSUME Exclusive PROVE \A d \in Callers : Idle(d)'
    BY DEF PendingAtTail
  <2> QED
    BY <1>0, <1>5 DEF PendingAtTail, FinishAppend, Idle
<1>12. ChainIntact'
  <2> SUFFICES ASSUME Exclusive, NEW i \in 1 .. n + 1
               PROVE  /\ events'[i].previousHash = IF i = 1 THEN Genesis ELSE events'[i - 1].eventHash
                      /\ events'[i].eventHash = Hash(events'[i].previousHash, events'[i].core)
    BY <1>4 DEF ChainIntact, ChainVerifies
  <2>1. CASE i \in 1 .. n
    <3>1. events'[i] = events[i] /\ (i # 1 => i - 1 \in 1 .. n /\ events'[i - 1] = events[i - 1])
      BY <1>4, <2>1
    <3> QED
      BY <1>0, <2>1, <3>1 DEF ChainIntact, ChainVerifies
  <2>2. CASE i = n + 1
    <3>1. input.previousHash = TailHash(events)
      BY <1>0 DEF PendingAtTail, FinishAppend, InputOf
    <3>2. TailHash(events) = IF n = 0 THEN Genesis ELSE events[n].eventHash
      BY <1>4, EmptySeq DEF TailHash
    <3>3. n # 0 => events'[n] = events[n]
      BY <1>4
    <3> QED
      BY <1>2, <1>4, <2>2, <3>1, <3>2, <3>3
  <2> QED
    BY <1>4, <2>1, <2>2
<1> QED
  BY <1>6, <1>9, <1>10, <1>11, <1>12 DEF LedgerInv

\* Reopening the ledger at an earlier length preserves LedgerInv.
LEMMA ReopenLedgerInv ==
    ASSUME LedgerInv, Reopen
    PROVE  LedgerInv'
<1>0. TypeOK /\ LinksRooted /\ ChainIntact
  BY DEF LedgerInv
<1>1. PICK n \in 0 .. Len(events) : events' = SubSeq(events, 1, n)
  BY DEF Reopen
<1>2. /\ events \in Seq(LedgerEvent) /\ Len(events) \in Nat
      /\ events' \in Seq(LedgerEvent)
      /\ Len(events') = n
      /\ \A i \in 1 .. n : events'[i] = events[i]
  BY <1>0, <1>1 DEF TypeOK
<1>3. inflight' = [c \in Callers |-> <<>>] /\ \A c \in Callers : Idle(c)'
  BY DEF Reopen, Idle
<1>4. TypeOK'
  BY <1>2, <1>3 DEF TypeOK
<1>5. LinksRooted'
  <2> SUFFICES ASSUME NEW i \in 1 .. n PROVE Known(events', events'[i].previousHash, i - 1)
    BY <1>2 DEF LinksRooted, Known
  <2>1. i \in 1 .. Len(events) /\ events'[i] = events[i]
    BY <1>2
  <2>2. Known(events, events[i].previousHash, i - 1)
    BY <1>0, <2>1 DEF LinksRooted
  <2>3. \A j \in 1 .. i - 1 : events'[j] = events[j]
    BY <1>2
  <2> QED
    BY <2>1, <2>2, <2>3 DEF Known
<1>6. ChainIntact'
  <2> SUFFICES ASSUME Exclusive, NEW i \in 1 .. n
               PROVE  /\ events'[i].previousHash = IF i = 1 THEN Genesis ELSE events'[i - 1].eventHash
                      /\ events'[i].eventHash = Hash(events'[i].previousHash, events'[i].core)
    BY <1>2 DEF ChainIntact, ChainVerifies
  <2>1. /\ i \in 1 .. Len(events) /\ events'[i] = events[i]
        /\ i # 1 => events'[i - 1] = events[i - 1]
    BY <1>2
  <2> QED
    BY <1>0, <2>1 DEF ChainIntact, ChainVerifies
<1> QED
  BY <1>3, <1>4, <1>5, <1>6 DEF LedgerInv, PendingRooted, PendingAtTail

\* Every step preserves LedgerInv.
LEMMA NextLedgerInv == LedgerInv /\ [Next]_ledgerVars => LedgerInv'
<1> SUFFICES ASSUME LedgerInv, [Next]_ledgerVars PROVE LedgerInv'
  OBVIOUS
<1>1. ASSUME NEW c \in Callers, NEW core \in Cores, StartAppend(c, core) PROVE LedgerInv'
  BY <1>1, StartLedgerInv
<1>2. ASSUME NEW c \in Callers, FinishAppend(c) PROVE LedgerInv'
  BY <1>2, FinishLedgerInv
<1>3. CASE Reopen
  BY <1>3, ReopenLedgerInv
<1>4. CASE UNCHANGED ledgerVars
  BY <1>4 DEF ledgerVars, LedgerInv, TypeOK, LinksRooted, PendingRooted, PendingAtTail,
              ChainIntact, ChainVerifies, Known, Idle, InputOf, TailHash
<1> QED
  BY <1>1, <1>2, <1>3, <1>4 DEF Next

\* The ledger's inductive invariant holds in every reachable state.
THEOREM LedgerInvariance == Spec => []LedgerInv
BY InitLedgerInv, NextLedgerInv, PTL DEF Spec

\* The ledger holds events only, and no caller has two appends pending.
THEOREM LedgerTypes == Spec => []TypeOK
<1>1. LedgerInv => TypeOK
  BY DEF LedgerInv
<1> QED
  BY <1>1, LedgerInvariance, PTL

\* Every event links to an event before it, however appends overlap.
THEOREM LedgerRooted == Spec => []LinksRooted
<1>1. LedgerInv => LinksRooted
  BY DEF LedgerInv
<1> QED
  BY <1>1, LedgerInvariance, PTL

\* When callers never overlap, verifyChain() succeeds at every moment.
THEOREM LedgerChainIntact == Spec => []ChainIntact
<1>1. LedgerInv => ChainIntact
  BY DEF LedgerInv
<1> QED
  BY <1>1, LedgerInvariance, PTL
-------------------------------------------------------------------------------
(* The mission state machine. *)

\* On the way home and at home, nobody is left behind unless a target changed since.
HomeLeavesNobody ==
    phase \in {"return", "complete"} /\ ~reopened => \A t \in Targets : targets[t] # "assigned"

MachineInv ==
    /\ MachineTypeOK
    /\ TransitionsChain
    /\ HomeLeavesNobody

\* The names of phases are phases.
LEMMA PhaseNames ==
    MissionPhase = {"init", "discovery", "search", "triage", "rescue", "extraction",
                            "return", "complete", "aborted"}
<1>1. /\ Len(LINEAR) = 8
      /\ LINEAR[1] = "init" /\ LINEAR[2] = "discovery"
      /\ LINEAR[3] = "search" /\ LINEAR[4] = "triage"
      /\ LINEAR[5] = "rescue" /\ LINEAR[6] = "extraction"
      /\ LINEAR[7] = "return" /\ LINEAR[8] = "complete"
  BY DEF LINEAR
<1>2. 1 .. 8 = {1, 2, 3, 4, 5, 6, 7, 8}
  OBVIOUS
<1>3. {LINEAR[i] : i \in 1 .. 8} =
        {"init", "discovery", "search", "triage", "rescue", "extraction", "return", "complete"}
  BY <1>1, <1>2
<1> QED
  BY <1>1, <1>3 DEF MissionPhase

\* A mission is completed only on its way home.
LEMMA CompleteAfterReturn ==
    ASSUME NEW from \in MissionPhase, "complete" \in allowedTransitions(from)
    PROVE  from = "return"
<1>1. /\ Len(LINEAR) = 8
      /\ LINEAR[1] = "init" /\ LINEAR[2] = "discovery"
      /\ LINEAR[3] = "search" /\ LINEAR[4] = "triage"
      /\ LINEAR[5] = "rescue" /\ LINEAR[6] = "extraction"
      /\ LINEAR[7] = "return" /\ LINEAR[8] = "complete"
  BY DEF LINEAR
<1>2. nominalNextPhase(from) = "complete"
  BY DEF allowedTransitions, validVertexNextPhases
<1> DEFINE at == {i \in 1 .. Len(LINEAR) - 1 : LINEAR[i] = from}
           k == CHOOSE i \in at : TRUE
<1>3. at # {} /\ LINEAR[k + 1] = "complete"
  BY <1>2 DEF nominalNextPhase, NoPhase
<1>4. k \in at
  BY <1>3
<1> HIDE DEF k
<1>5. k \in 1 .. 7 /\ LINEAR[k] = from
  BY <1>1, <1>4
<1>6. k = 7
  BY <1>1, <1>3, <1>5
<1> QED
  BY <1>1, <1>5, <1>6

\* Max is the greatest element of a set of numbers up to n.
LEMMA MaxIsGreatest ==
    ASSUME NEW n \in Nat, NEW S, S \subseteq 1 .. n, S # {}
    PROVE  Max(S) \in S /\ \A j \in S : j <= Max(S)
<1> DEFINE R == OpToRel(<, Nat)
           T == {n - i : i \in S}
<1>1. T \subseteq Nat /\ T # {}
  <2>1. \A i \in S : n - i \in Nat
    OBVIOUS
  <2>2. PICK i \in S : TRUE
    OBVIOUS
  <2> QED
    BY <2>1, <2>2
<1>2. PICK m \in T : \A k \in T : ~(<<k, m>> \in R)
  <2>1. IsWellFoundedOn(R, Nat)
    BY NatLessThanWellFounded
  <2> HIDE DEF R, T
  <2> QED
    BY <1>1, <2>1, WFMin
<1>3. \A k \in T : ~(k < m)
  BY <1>1, <1>2 DEF OpToRel
<1>4. PICK i \in S : m = n - i
  OBVIOUS
<1>5. \A j \in S : j <= i
  BY <1>3, <1>4
<1> QED
  BY <1>5 DEF Max

\* When no extraction is open no target is assigned.
LEMMA NoneAssigned ==
    ASSUME NoOpenExtraction, NEW t \in Targets
    PROVE  targets[t] # "assigned"
<1> DEFINE A == {u \in Targets : targets[u] \in {"assigned", "extracted"}}
           E == {u \in Targets : targets[u] \in {"extracted"}}
<1>1. IsFiniteSet(Targets)
  BY MissionMachineAssumption
<1>2. IsFiniteSet(A) /\ E \subseteq A
  BY <1>1, FS_Subset
<1>3. Cardinality(A) = 0 \/ Cardinality(E) >= Cardinality(A)
  BY DEF NoOpenExtraction, Assigned, Extracted, In
<1>4. ASSUME targets[t] = "assigned" PROVE FALSE
  <2>1. t \in A /\ t \notin E
    BY <1>4
  <2> HIDE DEF A, E
  <2>2. /\ Cardinality(A) \in Nat /\ Cardinality(E) \in Nat
        /\ Cardinality(A) # 0 /\ Cardinality(E) < Cardinality(A)
    BY <1>2, <2>1, FS_CardinalityType, FS_EmptySet, FS_Subset
  <2> QED
    BY <1>3, <2>2
<1> QED
  BY <1>4

\* A new record leaves what the earlier ones tell as it is, and adds itself.
LEMMA RecordsGrow ==
    ASSUME MachineTypeOK, NEW r, NEW a \in BOOLEAN, r.accepted = a,
           transitions' = Append(transitions, r), NEW n, n = Len(transitions)
    PROVE  /\ n \in Nat /\ Len(transitions') = n + 1 /\ DOMAIN transitions' = 1 .. n + 1
           /\ transitions'[n + 1] = r
           /\ \A i \in 1 .. n : transitions'[i] = transitions[i]
           /\ \A i \in 0 .. n : /\ AcceptedBy(i)' = AcceptedBy(i)
                                /\ PhaseAfter(i)' = PhaseAfter(i)
           /\ IF a
              THEN /\ Cardinality(AcceptedBy(n + 1))' = Cardinality(AcceptedBy(n)) + 1
                   /\ PhaseAfter(n + 1)' = r.to
              ELSE /\ AcceptedBy(n + 1)' = AcceptedBy(n)
                   /\ PhaseAfter(n + 1)' = PhaseAfter(n)
<1> DEFINE S(i) == AcceptedBy(i)
<1>1. PICK T : transitions \in Seq(T)
  BY DEF MachineTypeOK
<1>2. /\ n \in Nat /\ Len(transitions') = n + 1 /\ DOMAIN transitions' = 1 .. n + 1
      /\ transitions'[n + 1] = r
      /\ \A i \in 1 .. n : transitions'[i] = transitions[i]
  <2>1. r \in T \cup {r} /\ transitions \in Seq(T \cup {r})
    BY <1>1, SeqMonotonic
  <2> QED
    BY <2>1, AppendProperties, LenProperties
<1>3. \A i \in 0 .. n : S(i)' = S(i) /\ S(i) \subseteq 1 .. n
  BY <1>2 DEF AcceptedBy
<1>4. \A i \in 0 .. n : PhaseAfter(i)' = PhaseAfter(i)
  <2> TAKE i \in 0 .. n
  <2>1. S(i)' = S(i)
    BY <1>3
  <2>2. ASSUME S(i) # {} PROVE Max(S(i)) \in 1 .. n
    BY <1>2, <1>3, <2>2, MaxIsGreatest
  <2> QED
    BY <1>2, <2>1, <2>2 DEF PhaseAfter
<1>5. CASE a
  <2>1. S(n + 1)' = S(n) \cup {n + 1} /\ n + 1 \notin S(n)
    <3>1. \A i : i \in 1 .. n + 1 <=> i = n + 1 \/ i \in 1 .. n
      BY <1>2
    <3>2. transitions'[n + 1].accepted
      BY <1>2, <1>5
    <3>0. n + 1 \notin 1 .. n
      BY <1>2
    <3>3. /\ S(n + 1)' = {i \in 1 .. n + 1 : transitions'[i].accepted}
          /\ S(n) = {i \in 1 .. n : transitions[i].accepted}
      BY DEF AcceptedBy
    <3>4. \A i : i \in S(n + 1)' <=> i \in S(n) \/ i = n + 1
      BY <1>2, <3>1, <3>2, <3>3
    <3> QED
      BY <3>0, <3>3, <3>4
  <2>2. Cardinality(S(n + 1)') = Cardinality(S(n)) + 1
    <3>1. IsFiniteSet(1 .. n)
      BY <1>2, FS_Interval
    <3>2. IsFiniteSet(S(n))
      BY <1>2, <1>3, <3>1, FS_Subset
    <3> QED
      BY <2>1, <3>2, FS_AddElement
  <2>3. Max(S(n + 1)') = n + 1
    <3>1. S(n + 1)' \subseteq 1 .. n + 1 /\ S(n + 1)' # {} /\ n + 1 \in Nat
      BY <1>2, <1>3, <2>1
    <3>2. /\ Max(S(n + 1)') \in S(n + 1)'
          /\ \A j \in S(n + 1)' : j <= Max(S(n + 1)')
      BY <3>1, MaxIsGreatest
    <3> QED
      BY <1>2, <2>1, <3>1, <3>2
  <2>4. PhaseAfter(n + 1)' = r.to
    BY <1>2, <2>1, <2>3 DEF PhaseAfter
  <2> QED
    BY <1>2, <1>3, <1>4, <1>5, <2>2, <2>4
<1>6. CASE ~a
  <2>1. S(n + 1)' = S(n)
    <3>1. \A i : i \in 1 .. n + 1 <=> i = n + 1 \/ i \in 1 .. n
      BY <1>2
    <3>2. ~transitions'[n + 1].accepted
      BY <1>2, <1>6
    <3>3. /\ S(n + 1)' = {i \in 1 .. n + 1 : transitions'[i].accepted}
          /\ S(n) = {i \in 1 .. n : transitions[i].accepted}
      BY DEF AcceptedBy
    <3>4. \A i : i \in S(n + 1)' <=> i \in S(n)
      BY <1>2, <3>1, <3>2, <3>3
    <3> QED
      BY <3>4
  <2>2. PhaseAfter(n + 1)' = PhaseAfter(n)
    <3>1. ASSUME S(n) # {} PROVE Max(S(n)) \in 1 .. n
      BY <1>2, <1>3, <3>1, MaxIsGreatest
    <3> QED
      BY <1>2, <2>1, <3>1 DEF PhaseAfter
  <2> QED
    BY <1>2, <1>3, <1>4, <1>6, <2>1, <2>2
<1> QED
  BY <1>5, <1>6

\* A new record keeps the chain of records.
LEMMA RecordChains ==
    ASSUME MachineTypeOK, TransitionsChain,
           NEW to, NEW a \in BOOLEAN, Record(to, a)
    PROVE  TransitionsChain'
<1> DEFINE r == [from |-> phase, to |-> to, version |-> phaseVersion + 1, accepted |-> a]
<1>1. PICK n : n = Len(transitions)
  OBVIOUS
<1>2. /\ transitions' = Append(transitions, r)
      /\ phase' = IF a THEN to ELSE phase
      /\ phaseVersion' = IF a THEN phaseVersion + 1 ELSE phaseVersion
  BY DEF Record, VersionAfter
<1>3. /\ r.from = phase /\ r.to = to /\ r.version = phaseVersion + 1 /\ r.accepted = a
  OBVIOUS
<1> HIDE DEF r
<1>4. /\ n \in Nat /\ Len(transitions') = n + 1 /\ DOMAIN transitions' = 1 .. n + 1
      /\ transitions'[n + 1] = r
      /\ \A i \in 1 .. n : transitions'[i] = transitions[i]
      /\ \A i \in 0 .. n : /\ AcceptedBy(i)' = AcceptedBy(i)
                           /\ PhaseAfter(i)' = PhaseAfter(i)
      /\ IF a
         THEN /\ Cardinality(AcceptedBy(n + 1))' = Cardinality(AcceptedBy(n)) + 1
              /\ PhaseAfter(n + 1)' = r.to
         ELSE /\ AcceptedBy(n + 1)' = AcceptedBy(n)
              /\ PhaseAfter(n + 1)' = PhaseAfter(n)
  BY <1>1, <1>2, <1>3, RecordsGrow
<1>5. /\ phaseVersion = Cardinality(AcceptedBy(n))
      /\ phase = PhaseAfter(n)
      /\ \A i \in 1 .. n :
           /\ transitions[i].version = Cardinality(AcceptedBy(i - 1)) + 1
           /\ transitions[i].from = PhaseAfter(i - 1)
  <2>1. DOMAIN transitions = 1 .. n
    BY <1>1 DEF MachineTypeOK
  <2> QED
    BY <1>1, <2>1 DEF TransitionsChain
<1>6. phaseVersion' = Cardinality(AcceptedBy(n + 1)')
  BY <1>2, <1>4, <1>5
<1>7. phase' = PhaseAfter(n + 1)'
  BY <1>2, <1>3, <1>4, <1>5
<1>8. ASSUME NEW i \in 1 .. n + 1
      PROVE  /\ transitions'[i].version = Cardinality(AcceptedBy(i - 1)') + 1
             /\ transitions'[i].from = PhaseAfter(i - 1)'
  <2>1. i - 1 \in 0 .. n
    BY <1>4
  <2>2. /\ AcceptedBy(i - 1)' = AcceptedBy(i - 1)
        /\ PhaseAfter(i - 1)' = PhaseAfter(i - 1)
    BY <1>4, <2>1
  <2>3. CASE i \in 1 .. n
    BY <1>4, <1>5, <2>2, <2>3
  <2>4. CASE i = n + 1
    <3>1. i - 1 = n
      BY <1>4, <2>4
    <3> QED
      BY <1>3, <1>4, <1>5, <2>2, <2>4, <3>1
  <2> QED
    BY <1>4, <2>3, <2>4
<1>9. Len(transitions)' = n + 1
  BY <1>4
<1> QED
  BY <1>4, <1>6, <1>7, <1>8, <1>9 DEF TransitionsChain

\* A new record keeps the invariant, when a mission turns home with nobody assigned and
\* is completed on its way home.
LEMMA RecordKeeps ==
    ASSUME MachineInv, NEW to \in MissionPhase, NEW a \in BOOLEAN,
           Record(to, a),
           a /\ to = "return" => \A t \in Targets : targets[t] # "assigned",
           a /\ to = "complete" => phase = "return"
    PROVE  MachineInv'
<1>1. MachineTypeOK /\ TransitionsChain /\ HomeLeavesNobody
  BY DEF MachineInv
<1>2. /\ transitions' = Append(transitions, [from |-> phase, to |-> to,
                                             version |-> phaseVersion + 1, accepted |-> a])
      /\ phase' = IF a THEN to ELSE phase
      /\ phaseVersion' = IF a THEN phaseVersion + 1 ELSE phaseVersion
      /\ reopened' = IF a /\ to = "return" THEN FALSE ELSE reopened
      /\ targets' = targets
      /\ totalConfirmed' = totalConfirmed /\ totalExtracted' = totalExtracted
  BY DEF Record, VersionAfter
<1>3. MachineTypeOK'
  <2> DEFINE Records == [from : MissionPhase, to : MissionPhase, version : Nat,
                         accepted : BOOLEAN]
             r == [from |-> phase, to |-> to, version |-> phaseVersion + 1, accepted |-> a]
  <2>1. transitions' \in Seq(Records)
    <3>1. transitions \in Seq(Records) /\ r \in Records
      BY <1>1 DEF MachineTypeOK
    <3>2. transitions' = Append(transitions, r)
      BY <1>2
    <3> HIDE DEF Records, r
    <3> QED
      BY <3>1, <3>2, AppendProperties
  <2>2. reopened' \in BOOLEAN
    BY <1>1, <1>2 DEF MachineTypeOK
  <2>3. phase' \in MissionPhase /\ phaseVersion' \in Nat
    BY <1>1, <1>2 DEF MachineTypeOK
  <2> QED
    BY <1>1, <1>2, <2>1, <2>2, <2>3 DEF MachineTypeOK
<1>4. TransitionsChain'
  BY <1>1, RecordChains
<1>5. HomeLeavesNobody'
  BY <1>1, <1>2 DEF HomeLeavesNobody
<1> QED
  BY <1>3, <1>4, <1>5 DEF MachineInv

\* A changed target keeps the invariant.
LEMMA RetargetKeeps ==
    ASSUME MachineInv, NEW t \in Targets, NEW status \in Status \cup {"none"},
           Retarget(t, status),
           totalConfirmed' \in 0 .. MaxTotal, totalExtracted' \in 0 .. MaxTotal
    PROVE  MachineInv'
<1>1. MachineTypeOK /\ TransitionsChain /\ HomeLeavesNobody
  BY DEF MachineInv
<1>2. /\ targets' = [targets EXCEPT ![t] = status]
      /\ reopened' = (reopened \/ (phase \in {"return", "complete"} /\ status # targets[t]))
      /\ phase' = phase /\ phaseVersion' = phaseVersion /\ transitions' = transitions
  BY DEF Retarget
<1>3. MachineTypeOK'
  <2>1. targets' \in [Targets -> Status \cup {"none"}]
    BY <1>1, <1>2 DEF MachineTypeOK
  <2>2. reopened' \in BOOLEAN
    BY <1>2
  <2> QED
    BY <1>1, <1>2, <2>1, <2>2 DEF MachineTypeOK
<1>4. TransitionsChain'
  BY <1>1, <1>2 DEF TransitionsChain, PhaseAfter, AcceptedBy
<1>5. HomeLeavesNobody'
  <2> SUFFICES ASSUME phase' \in {"return", "complete"}, ~reopened'
               PROVE  \A u \in Targets : targets'[u] # "assigned"
    BY DEF HomeLeavesNobody
  <2>1. status = targets[t] /\ ~reopened
    BY <1>2
  <2>2. targets' = targets
    BY <1>1, <1>2, <2>1 DEF MachineTypeOK
  <2> QED
    BY <1>1, <1>2, <2>1, <2>2 DEF HomeLeavesNobody
<1> QED
  BY <1>3, <1>4, <1>5 DEF MachineInv

\* What the checks establish, whichever way a phase is requested.
LEMMA GrantedKeeps ==
    ASSUME MachineInv, NEW to \in MissionPhase,
           NEW roster \in BOOLEAN, NEW covered \in BOOLEAN,
           Record(to, evaluateTransition(to, roster, covered))
    PROVE  MachineInv'
<1> DEFINE a == evaluateTransition(to, roster, covered)
<1>1. a \in BOOLEAN
  BY DEF evaluateTransition
<1>2. ASSUME a, to = "return" PROVE \A t \in Targets : targets[t] # "assigned"
  <2>1. ChecksPass(to, roster, covered)
    BY <1>2 DEF evaluateTransition
  <2>2. NoOpenExtraction
    BY <1>2, <2>1 DEF ChecksPass
  <2> QED
    BY <2>2, NoneAssigned
<1>3. ASSUME a, to = "complete" PROVE phase = "return"
  <2>1. "complete" \in allowedTransitions(phase)
    BY <1>3 DEF evaluateTransition
  <2> QED
    BY <2>1, CompleteAfterReturn DEF MachineInv, MachineTypeOK
<1> HIDE DEF a
<1> QED
  BY <1>1, <1>2, <1>3, RecordKeeps DEF a

\* The first state.
LEMMA MachineInvInit ==
    ASSUME MachineInit
    PROVE  MachineInv
<1>1. /\ phase = "init" /\ phaseVersion = 0 /\ transitions = <<>>
      /\ targets = [t \in Targets |-> "none"]
      /\ totalConfirmed = 0 /\ totalExtracted = 0 /\ reopened = FALSE
  BY DEF MachineInit
<1>2. MachineTypeOK
  <2>1. /\ phase \in MissionPhase /\ phaseVersion \in Nat
        /\ totalConfirmed \in 0 .. MaxTotal /\ totalExtracted \in 0 .. MaxTotal
    BY <1>1, PhaseNames, MissionMachineAssumption
  <2>2. targets \in [Targets -> Status \cup {"none"}] /\ reopened \in BOOLEAN
    BY <1>1
  <2>3. transitions \in Seq([from : MissionPhase, to : MissionPhase,
                             version : Nat, accepted : BOOLEAN])
    BY <1>1, EmptySeq
  <2> QED
    BY <2>1, <2>2, <2>3 DEF MachineTypeOK
<1>3. Len(transitions) = 0 /\ 1 .. 0 = {} /\ DOMAIN transitions = {}
  BY <1>1
<1>4. AcceptedBy(0) = {} /\ Cardinality({}) = 0
  BY <1>3, FS_EmptySet DEF AcceptedBy
<1>5. TransitionsChain
  BY <1>1, <1>3, <1>4 DEF TransitionsChain, PhaseAfter
<1> QED
  BY <1>1, <1>2, <1>5 DEF MachineInv, HomeLeavesNobody

\* Every operation of the machine keeps the invariant.
LEMMA MachineStep ==
    ASSUME MachineInv, MachineNext
    PROVE  MachineInv'
<1>0. MachineTypeOK /\ MaxTotal \in Nat
  BY MissionMachineAssumption DEF MachineInv
<1>1. ASSUME NEW t \in Targets, NEW status \in Status, upsertTarget(t, status)
      PROVE  MachineInv'
  <2> DEFINE merged == IF targets[t] = "none" \/ rank(status) >= rank(targets[t])
                       THEN status ELSE targets[t]
  <2>1. /\ Retarget(t, merged)
        /\ totalConfirmed' = totalConfirmed /\ totalExtracted' = totalExtracted
    BY <1>1 DEF upsertTarget
  <2>2. merged \in Status \cup {"none"}
    BY <1>0 DEF MachineTypeOK
  <2> HIDE DEF merged
  <2> QED
    BY <1>0, <2>1, <2>2, RetargetKeeps DEF MachineTypeOK
<1>2. ASSUME NEW t \in Targets, confirmTarget(t) PROVE MachineInv'
  <2>1. /\ Retarget(t, "confirmed") /\ totalConfirmed < MaxTotal
        /\ totalConfirmed' = totalConfirmed + (IF targets[t] = "confirmed" THEN 0 ELSE 1)
        /\ totalExtracted' = totalExtracted
    BY <1>2 DEF confirmTarget
  <2>2. totalConfirmed' \in 0 .. MaxTotal /\ totalExtracted' \in 0 .. MaxTotal
    BY <1>0, <2>1 DEF MachineTypeOK
  <2> QED
    BY <2>1, <2>2, RetargetKeeps DEF Status
<1>3. ASSUME NEW t \in Targets, assignTarget(t) PROVE MachineInv'
  <2>1. /\ Retarget(t, "assigned")
        /\ totalConfirmed' = totalConfirmed /\ totalExtracted' = totalExtracted
    BY <1>3 DEF assignTarget
  <2> QED
    BY <1>0, <2>1, RetargetKeeps DEF MachineTypeOK, Status
<1>4. ASSUME NEW t \in Targets, extractTarget(t) PROVE MachineInv'
  <2>1. /\ Retarget(t, "extracted") /\ totalExtracted < MaxTotal
        /\ totalExtracted' = totalExtracted + (IF targets[t] = "extracted" THEN 0 ELSE 1)
        /\ totalConfirmed' = totalConfirmed
    BY <1>4 DEF extractTarget
  <2>2. totalConfirmed' \in 0 .. MaxTotal /\ totalExtracted' \in 0 .. MaxTotal
    BY <1>0, <2>1 DEF MachineTypeOK
  <2> QED
    BY <2>1, <2>2, RetargetKeeps DEF Status
<1>5. ASSUME NEW to \in MissionPhase, transition(to) PROVE MachineInv'
  BY <1>5, GrantedKeeps DEF transition
<1>6. CASE forceAbort
  BY <1>6, PhaseNames, RecordKeeps DEF forceAbort
<1>7. CASE advanceIfReady
  <2>1. PICK suggested \in BOOLEAN, roster \in BOOLEAN, covered \in BOOLEAN :
          /\ suggestNextPhase(suggested, covered) # "none"
          /\ Record(suggestNextPhase(suggested, covered),
               evaluateTransition(suggestNextPhase(suggested, covered),
                                          roster, covered))
    BY <1>7 DEF advanceIfReady
  <2>2. suggestNextPhase(suggested, covered) \in
          {"discovery", "search", "triage", "rescue", "extraction", "return", "complete", "none"}
    BY DEF suggestNextPhase
  <2>3. suggestNextPhase(suggested, covered) \in MissionPhase
    BY <2>1, <2>2, PhaseNames
  <2> QED
    BY <2>1, <2>3, GrantedKeeps
<1> QED
  BY <1>1, <1>2, <1>3, <1>4, <1>5, <1>6, <1>7 DEF MachineNext

\* The invariant holds in every reachable state of the machine.
THEOREM MachineInvariance == MachineSpec => []MachineInv
<1>1. MachineInit => MachineInv
  BY MachineInvInit
<1>2. MachineInv /\ [MachineNext]_machineVars => MachineInv'
  <2> SUFFICES ASSUME MachineInv, [MachineNext]_machineVars PROVE MachineInv'
    OBVIOUS
  <2>1. CASE MachineNext
    BY <2>1, MachineStep
  <2>2. CASE UNCHANGED machineVars
    BY <2>2 DEF machineVars, MachineInv, HomeLeavesNobody, MachineTypeOK,
                TransitionsChain, PhaseAfter, AcceptedBy
  <2> QED
    BY <2>1, <2>2
<1> QED
  BY <1>1, <1>2, PTL DEF MachineSpec

\* Phases, statuses, records and objective counters stay in range, whatever is
\* requested, suggested or forced: advanceIfReady never records a missing suggestion.
THEOREM MachineTypes == MachineSpec => []MachineTypeOK
<1>1. MachineInv => MachineTypeOK
  BY DEF MachineInv
<1> QED
  BY <1>1, MachineInvariance, PTL

\* The transition records tell the mission's story without a gap: the version counts the
\* accepted ones, the last of them led to the phase, and each record has the phase and
\* the next version of its moment.
THEOREM RecordsTellTheMission == MachineSpec => []TransitionsChain
<1>1. MachineInv => TransitionsChain
  BY DEF MachineInv
<1> QED
  BY <1>1, MachineInvariance, PTL

\* A completed mission has left no assigned target behind, unless a target changed after
\* the mission turned home: the check for return, which counts targets, is enough.
THEOREM NobodyLeftBehind == MachineSpec => []CompleteLeavesNobody
<1>1. MachineInv => CompleteLeavesNobody
  BY DEF MachineInv, HomeLeavesNobody, CompleteLeavesNobody
<1> QED
  BY <1>1, MachineInvariance, PTL
===============================================================================
