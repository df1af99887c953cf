----------------------------- MODULE MissionLedger -----------------------------
(***************************************************************************)
(* The append-only, hash-chained ledger of                                 *)
(* src/backend/vertex/mission-ledger.ts, as its callers use it.            *)
(*                                                                         *)
(* A call append({..., previousHash: ledger.tailHash()}) reads the tail    *)
(* when it is made, awaits the digest of the event, and only then pushes   *)
(* the event.  Digests (WebCrypto, off the main thread) may end in any     *)
(* order, so the call is two actions: StartAppend and FinishAppend.        *)
(*                                                                         *)
(* SHA-256 is taken to be collision free.  An event's hash depends on its  *)
(* core (mission, actor, type, plane, payload, timestamp: one value here)  *)
(* and on the hash before it, which depends on the core before that, so a  *)
(* hash is modelled by the sequence of cores it is computed from.          *)
(***************************************************************************)
EXTENDS Naturals, Sequences

CONSTANTS
    Callers,    \* the activities that append, each one call at a time
    Cores,      \* the event cores they append
    MaxEvents,  \* bound on the length of the ledger, 0 for none
    Exclusive   \* TRUE when callers never overlap: each awaits the others

VARIABLES
    events,     \* the ledger
    inflight    \* each caller's pending append: <<>> or <<the call's input>>

ledgerVars == <<events, inflight>>

Genesis == <<>>

Hash(previousHash, core) == Append(previousHash, core)

HashValue == Seq(Cores)

Input == [previousHash : HashValue, core : Cores]

LedgerEvent == [previousHash : HashValue, core : Cores, eventHash : HashValue]

TailHash(evs) == IF evs = <<>> THEN Genesis ELSE evs[Len(evs)].eventHash

Event(input) ==
    [previousHash |-> input.previousHash,
     core |-> input.core,
     eventHash |-> Hash(input.previousHash, input.core)]

\* The ledger is a sequence of events, and no caller has two appends pending.
TypeOK ==
    /\ events \in Seq(LedgerEvent)
    /\ inflight \in [Callers -> Seq(Input)]
    /\ \A c \in Callers : Len(inflight[c]) <= 1

Init ==
    /\ events = <<>>
    /\ inflight = [c \in Callers |-> <<>>]
-------------------------------------------------------------------------------
Idle(c) == inflight[c] = <<>>

\* The input of c's pending call, as it was when the call was made.
InputOf(c) == inflight[c][1]

MayStart(c) == IF Exclusive THEN \A d \in Callers : Idle(d) ELSE Idle(c)

\* append is called: the arguments, tailHash() among them, are evaluated, and
\* the digest is under way.
StartAppend(c, core) ==
    /\ MayStart(c)
    /\ inflight' = [inflight EXCEPT
                      ![c] = <<[previousHash |-> TailHash(events), core |-> core]>>]
    /\ UNCHANGED events

\* The digest is there: the event is pushed.  (The test previousHash_mismatch
\* compares the input with itself and never fires.)
FinishAppend(c) ==
    /\ ~Idle(c)
    /\ events' = Append(events, Event(InputOf(c)))
    /\ inflight' = [inflight EXCEPT ![c] = <<>>]

\* new MissionLedger(initial) replaces the ledger by a copy made earlier with
\* toArray(), or by a fresh one; calls pending on the old ledger are lost to
\* the new one.
Reopen ==
    /\ \E n \in 0 .. Len(events) : events' = SubSeq(events, 1, n)
    /\ inflight' = [c \in Callers |-> <<>>]

Room == MaxEvents = 0 \/ Len(events) < MaxEvents

Next ==
    \/ Room /\ \E c \in Callers, core \in Cores : StartAppend(c, core)
    \/ Room /\ \E c \in Callers : FinishAppend(c)
    \/ Reopen

Spec == Init /\ [][Next]_ledgerVars
-------------------------------------------------------------------------------
\* verifyChain() returns ok.
ChainVerifies(evs) ==
    \A i \in 1 .. Len(evs) :
        /\ evs[i].previousHash = IF i = 1 THEN Genesis ELSE evs[i - 1].eventHash
        /\ evs[i].eventHash = Hash(evs[i].previousHash, evs[i].core)

\* When callers never overlap, verifyChain() succeeds at every moment.
ChainIntact == Exclusive => ChainVerifies(events)

\* h is the hash of one of the first n events, or Genesis.
Known(evs, h, n) == h = Genesis \/ \E j \in 1 .. n : evs[j].eventHash = h

\* Also when callers overlap and the chain forks, every event links to an
\* event before it: the ledger is a tree rooted at Genesis, and following
\* previousHash from any event reaches Genesis.
LinksRooted == \A i \in 1 .. Len(events) : Known(events, events[i].previousHash, i - 1)

\* A pending call links to an event that is already in the ledger.
PendingRooted ==
    \A c \in Callers : ~Idle(c) => Known(events, InputOf(c).previousHash, Len(events))

\* While callers never overlap, the only pending call links to the tail.
PendingAtTail ==
    Exclusive =>
        \A c \in Callers : ~Idle(c) =>
            /\ InputOf(c).previousHash = TailHash(events)
            /\ \A d \in Callers : ~Idle(d) => d = c

\* The inductive invariant.
LedgerInv ==
    /\ TypeOK
    /\ LinksRooted
    /\ PendingRooted
    /\ PendingAtTail
    /\ ChainIntact
===============================================================================
