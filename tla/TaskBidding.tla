------------------------------ MODULE TaskBidding ------------------------------
(***************************************************************************)
(* TaskBidRegistry and the bidding half of MissionExecutionCoordinator     *)
(* (src/backend/shared/tashi-task-bidding-recovery.ts) for one task; tasks *)
(* share nothing but the ledger.                                           *)
(*                                                                         *)
(* commitBids ranks the bids, awaits Vertex and only then records the      *)
(* result.  While it waits the window stays open: bids, other commitBids   *)
(* calls and a new openBidding all run in between.                         *)
(*                                                                         *)
(* Data: a bid's score is a number of Scores (the scorer's arithmetic and  *)
(* the tie-break by ETA are folded into it); Lattice's verdict and         *)
(* Vertex's answer are choices (both adapters are external).  commitHistory *)
(* stands for the ledger rows and the rewards written beside it.           *)
(***************************************************************************)
EXTENDS Integers, Sequences, FiniteSets

CONSTANTS
    Bids,        \* bid ids; each belongs to one node
    Scores,      \* the totals a bid can be weighted with
    Callers,     \* the commitBids calls that can be under way
    MaxRounds,   \* bound on openBidding calls
    MaxCommits   \* bound on commit records

NoBid == "none"

ASSUME TaskBiddingAssumption ==
    /\ NoBid \notin Bids
    /\ Scores \subseteq Nat
    /\ MaxRounds \in Nat /\ MaxCommits \in Nat

VARIABLES
    window,         \* the bid window: its status, and whether closesAtMs has passed
    bids,           \* per bid id its status, "none" when never submitted
    weighted,       \* the weighted bids in the order of their first insertion
    calls,          \* commitBids calls awaiting Vertex
    commitHistory,  \* the records of the commits and aborts, oldest first
    round,          \* history: the number of windows opened
    raced           \* history: rounds in which a bid or a new window met a waiting call

vars == <<window, bids, weighted, calls, commitHistory, round, raced>>

TaskBidStatus == {"submitted", "weighted", "rejected", "cancelled"}
NoCall == [phase |-> "none", winner |-> NoBid, round |-> 0, from |-> "none"]

Submitted == {b \in Bids : bids[b] # "none"}
Waiting == {c \in Callers : calls[c] # NoCall}

Ranked == {weighted[i].bid : i \in DOMAIN weighted}

\* The first of weightedBidsForTask: the sort is stable.
bestBid ==
    LET top == CHOOSE i \in DOMAIN weighted :
                  \A j \in DOMAIN weighted :
                     \/ weighted[i].score > weighted[j].score
                     \/ weighted[i].score = weighted[j].score /\ i <= j
    IN  weighted[top].bid

\* What commitBids may find first in its ranking.  Without a weighted bid it scores
\* all bids again, with today's state of the nodes and whatever the verdict.
Leading == IF weighted # <<>> THEN {bestBid} ELSE Submitted

\* Fault: bids no longer count once the window is past its time.
NothingRankedInTime == weighted = <<>> \/ window.late

\* The ranking may be empty: the fallback drops bids of nodes that Lattice does not know (any more).
NothingRanked == weighted = <<>>

Init ==
    /\ window = [status |-> "none", late |-> FALSE]
    /\ bids = [b \in Bids |-> "none"]
    /\ weighted = <<>>
    /\ calls = [c \in Callers |-> NoCall]
    /\ commitHistory = <<>>
    /\ round = 0
    /\ raced = {}
-------------------------------------------------------------------------------
\* r is raced when this step meets a waiting call.
Meets(r) == IF Waiting = {} THEN {} ELSE {r}

\* openBidding: a new window over the bids of the earlier ones.
openBidding ==
    /\ round < MaxRounds
    /\ window' = [status |-> "open", late |-> FALSE]
    /\ round' = round + 1
    /\ raced' = raced \cup Meets(round + 1)
    /\ UNCHANGED <<bids, weighted, calls, commitHistory>>

\* closesAtMs passes.
Late ==
    /\ window.status = "open" /\ ~window.late
    /\ window' = [window EXCEPT !.late = TRUE]
    /\ UNCHANGED <<bids, weighted, calls, commitHistory, round, raced>>

\* Fault: a bid is taken as long as it is in time.
TakesBidsInTime == window.status # "none" /\ ~window.late

\* The window takes a bid.
TakesBids == window.status = "open" /\ ~window.late

\* Fault: a bid weighted again is listed twice.
setWeightedAgain(b, score) == Append(weighted, [bid |-> b, score |-> score])

\* BidScorer and chooseBest: what the arithmetic over capability, distance, battery
\* and trust of a bidder comes to.
BidScores == Scores

\* setWeighted: a bid weighted before keeps its place.
setWeighted(b, score) ==
    IF b \in Ranked
    THEN [i \in DOMAIN weighted |->
             IF weighted[i].bid = b THEN [weighted[i] EXCEPT !.score = score] ELSE weighted[i]]
    ELSE Append(weighted, [bid |-> b, score |-> score])

\* submitBid of a bid Lattice accepts.
AcceptBid(b, score) ==
    /\ TakesBids
    /\ bids' = [bids EXCEPT ![b] = "weighted"]
    /\ weighted' = setWeighted(b, score)
    /\ raced' = raced \cup Meets(round)
    /\ UNCHANGED <<window, calls, commitHistory, round>>

\* submitBid of a bid Lattice rejects: it is listed as rejected; a weight that an
\* earlier submission under its id was given stays.
RejectBid(b) ==
    /\ TakesBids
    /\ bids' = [bids EXCEPT ![b] = "rejected"]
    /\ raced' = raced \cup Meets(round)
    /\ UNCHANGED <<window, weighted, calls, commitHistory, round>>

\* submitBid of any bid when the window is open but its time has passed.
ExpireWindow ==
    /\ window.status = "open" /\ window.late
    /\ window' = [window EXCEPT !.status = "expired"]
    /\ UNCHANGED <<bids, weighted, calls, commitHistory, round, raced>>

\* commitBids up to its await.  Nothing is asked of the window but that it exists.
commitBids(c) ==
    /\ calls[c] = NoCall
    /\ window.status # "none"
    /\ Len(commitHistory) + Cardinality(Waiting) < MaxCommits
    /\ \/ /\ NothingRanked
          /\ calls' = [calls EXCEPT ![c] =
                [phase |-> "aborted", winner |-> NoBid, round |-> round, from |-> "none"]]
       \/ \E b \in Leading :
             calls' = [calls EXCEPT ![c] =
                [phase |-> "committed", winner |-> b, round |-> round,
                 from |-> IF weighted # <<>> THEN "weighted" ELSE "bids"]]
    /\ UNCHANGED <<window, bids, weighted, commitHistory, round, raced>>

\* Vertex answers; ok is not looked at.  The record is kept and markCommitted marks
\* the window of the moment.
Committed(c) ==
    /\ calls[c].phase = "committed"
    /\ commitHistory' = Append(commitHistory, calls[c])
    /\ window' = [window EXCEPT !.status = "committed"]
    /\ calls' = [calls EXCEPT ![c] = NoCall]
    /\ UNCHANGED <<bids, weighted, round, raced>>

\* Vertex orders the abort, and cancelTask cancels the window and all bids.
Aborted(c) ==
    /\ calls[c].phase = "aborted"
    /\ commitHistory' = Append(commitHistory, calls[c])
    /\ window' = [window EXCEPT !.status = "cancelled"]
    /\ bids' = [b \in Bids |-> IF b \in Submitted THEN "cancelled" ELSE "none"]
    /\ calls' = [calls EXCEPT ![c] = NoCall]
    /\ UNCHANGED <<weighted, round, raced>>

\* Vertex throws: commitBids rejects and leaves no trace.
Failed(c) ==
    /\ calls[c] # NoCall
    /\ calls' = [calls EXCEPT ![c] = NoCall]
    /\ UNCHANGED <<window, bids, weighted, commitHistory, round, raced>>

Next ==
    \/ openBidding
    \/ Late
    \/ \E b \in Bids, score \in BidScores : AcceptBid(b, score)
    \/ \E b \in Bids : RejectBid(b)
    \/ ExpireWindow
    \/ \E c \in Callers : commitBids(c) \/ Committed(c) \/ Aborted(c) \/ Failed(c)

Spec == Init /\ [][Next]_vars
-------------------------------------------------------------------------------
Call ==
    [phase : {"none", "committed", "aborted"}, winner : Bids \cup {NoBid},
     round : Nat, from : {"none", "weighted", "bids"}]

\* No bid is weighted twice, only submitted bids are, and a record of a commit
\* names a bid.
TypeOK ==
    /\ window.status \in {"none", "open", "expired", "committed", "cancelled"}
    /\ window.late \in BOOLEAN
    /\ bids \in [Bids -> TaskBidStatus \cup {"none"}]
    /\ weighted \in Seq([bid : Bids, score : Scores])
    /\ \A i, j \in DOMAIN weighted : weighted[i].bid = weighted[j].bid => i = j
    /\ Ranked \subseteq Submitted
    /\ calls \in [Callers -> Call]
    /\ commitHistory \in Seq(Call)
    /\ \A i \in DOMAIN commitHistory :
         /\ commitHistory[i].phase # "none"
         /\ commitHistory[i].phase = "committed" <=> commitHistory[i].winner # NoBid
    /\ round \in Nat
    /\ raced \in SUBSET Nat

Commits(r) ==
    {i \in DOMAIN commitHistory :
        commitHistory[i].round = r /\ commitHistory[i].phase = "committed"}

\* One authoritative winner: the commits of a window, repeated or concurrent, all
\* name the same weighted bid unless a bid came in while one of them awaited Vertex.
OneWinnerUnlessRaced ==
    \A r \in 1..round \ raced : \A i, j \in Commits(r) :
        /\ commitHistory[i].from = "weighted" /\ commitHistory[j].from = "weighted"
        => commitHistory[i].winner = commitHistory[j].winner

\* A window whose winner was a weighted bid is not cancelled by an abort that decided
\* before the bid was known, unless it came in while the abort awaited Vertex.
CancelledHasNoWinner ==
    window.status = "cancelled" /\ round \notin raced =>
        \A i \in Commits(round) : commitHistory[i].from = "bids"
===============================================================================
