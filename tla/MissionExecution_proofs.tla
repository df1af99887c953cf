------------------------ MODULE MissionExecution_proofs ------------------------
(***************************************************************************)
(* Proofs about the two halves of MissionExecutionCoordinator.             *)
(*                                                                         *)
(* TaskBidding: the commits of a window agree on their winner, and no      *)
(* abort cancels a window behind a weighted winner, unless something came  *)
(* in while a commitBids call awaited Vertex.                              *)
(*                                                                         *)
(* MissionRecovery: whatever is restored, phase and targets are those the  *)
(* host left, and so is the version unless counted rows were replayed.  A  *)
(* context that began blank and was used before it was restored may lack   *)
(* some, and has no others.                                                *)
(***************************************************************************)
EXTENDS TaskBidding, MissionRecovery, WellFoundedInduction, SequenceTheorems, TLAPS

\* Sets of natural numbers have a least element.
LEMMA LeastNat ==
    ASSUME NEW T, T \subseteq Nat, T # {}
    PROVE  \E n \in T : \A m \in T : n <= m
<1> DEFINE R == OpToRel(<, Nat)
<1>1. PICK n \in T : \A m \in T : ~(<<m, n>> \in R)
  <2>1. IsWellFoundedOn(R, Nat)
    BY NatLessThanWellFounded
  <2> HIDE DEF R
  <2> QED
    BY <2>1, WFMin
<1>2. \A m \in T : ~(m < n)
  BY <1>1 DEF OpToRel
<1> QED
  BY <1>2

-------------------------------------------------------------------------------
(* The ranking. *)

WeightedBid == [bid : Bids, score : Scores]

\* The k first weighted bids have a best one among them.
HasTop(k) ==
    \E i \in 1 .. k : \A j \in 1 .. k :
        \/ weighted[i].score > weighted[j].score
        \/ weighted[i].score = weighted[j].score /\ i <= j

\* A ranking that is not empty has a first bid.
LEMMA TopExists ==
    ASSUME weighted \in Seq(WeightedBid), weighted # <<>>
    PROVE  HasTop(Len(weighted))
<1> DEFINE n == Len(weighted)
           Bad == {k \in 1 .. n : ~HasTop(k)}
<1>1. n \in Nat \ {0} /\ \A i \in 1 .. n : weighted[i].score \in Nat
  <2>1. n \in Nat \ {0}
    BY EmptySeq
  <2>2. weighted \in [1 .. n -> WeightedBid]
    BY LenProperties
  <2>3. \A i \in 1 .. n : weighted[i].score \in Scores
    BY <2>2 DEF WeightedBid
  <2> QED
    BY <2>1, <2>3, TaskBiddingAssumption
<1>2. SUFFICES ASSUME Bad # {} PROVE FALSE
  BY <1>1
<1>3. PICK k \in Bad : \A m \in Bad : k <= m
  <2>1. Bad \subseteq Nat
    BY <1>1
  <2> HIDE DEF Bad
  <2> QED
    BY <1>2, <2>1, LeastNat
<1>4. CASE k = 1
  BY <1>1, <1>3, <1>4 DEF HasTop
<1>5. CASE k # 1
  <2>1. k - 1 \in 1 .. n /\ k - 1 \notin Bad
    BY <1>1, <1>3, <1>5
  <2>2. PICK i \in 1 .. (k - 1) : \A j \in 1 .. (k - 1) :
            \/ weighted[i].score > weighted[j].score
            \/ weighted[i].score = weighted[j].score /\ i <= j
    BY <2>1 DEF HasTop
  <2>3. i \in 1 .. k /\ k \in 1 .. k /\ k \in Nat /\ i < k
    BY <1>1, <1>3, <2>1
  <2>4. CASE weighted[i].score >= weighted[k].score
    <3> SUFFICES ASSUME NEW j \in 1 .. k
                 PROVE  \/ weighted[i].score > weighted[j].score
                        \/ weighted[i].score = weighted[j].score /\ i <= j
      BY <1>3, <2>3 DEF HasTop
    <3>1. CASE j = k
      BY <1>1, <2>1, <2>3, <2>4, <3>1
    <3>2. CASE j # k
      BY <2>2, <2>3, <3>2
    <3> QED
      BY <3>1, <3>2
  <2>5. CASE ~(weighted[i].score >= weighted[k].score)
    <3> SUFFICES ASSUME NEW j \in 1 .. k
                 PROVE  \/ weighted[k].score > weighted[j].score
                        \/ weighted[k].score = weighted[j].score /\ k <= j
      BY <1>3, <2>3 DEF HasTop
    <3>0. /\ weighted[i].score \in Nat /\ weighted[j].score \in Nat
          /\ weighted[k].score \in Nat
      BY <1>1, <2>1, <2>3
    <3>1. CASE j = k
      BY <2>3, <3>0, <3>1
    <3>2. CASE j # k
      BY <2>2, <2>3, <2>5, <3>0, <3>2
    <3> QED
      BY <3>1, <3>2
  <2> QED
    BY <2>4, <2>5
<1> QED
  BY <1>4, <1>5

\* The first of weightedBidsForTask is a weighted bid.
LEMMA BestIsRanked ==
    ASSUME weighted \in Seq(WeightedBid), weighted # <<>>
    PROVE  bestBid \in Ranked /\ bestBid \in Bids
<1>1. DOMAIN weighted = 1 .. Len(weighted)
  BY LenProperties
<1>2. \E i \in DOMAIN weighted : \A j \in DOMAIN weighted :
        \/ weighted[i].score > weighted[j].score
        \/ weighted[i].score = weighted[j].score /\ i <= j
  BY <1>1, TopExists DEF HasTop
<1>3. \E i \in DOMAIN weighted : bestBid = weighted[i].bid
  BY <1>2 DEF bestBid
<1> QED
  <2>1. weighted \in [1 .. Len(weighted) -> WeightedBid]
    BY LenProperties
  <2>2. \A i \in DOMAIN weighted : weighted[i].bid \in Bids
    BY <1>1, <2>1 DEF WeightedBid
  <2> QED
    BY <1>3, <2>2 DEF Ranked

\* The best bid depends on nothing but the ranking.
LEMMA BestUnchanged ==
    ASSUME UNCHANGED weighted
    PROVE  bestBid' = bestBid
BY DEF bestBid
-------------------------------------------------------------------------------
(* The inductive invariant. *)

WindowShape ==
    window \in [status : {"none", "open", "expired", "committed", "cancelled"},
                late : BOOLEAN]

\* A waiting call will either commit a bid or abort.
CallShape(call) ==
    \/ call = NoCall
    \/ call.phase = "aborted" /\ call.winner = NoBid
    \/ call.phase = "committed" /\ call.winner \in Bids /\ call.from \in {"weighted", "bids"}

\* Calls and records are of windows that were opened.
RoundsShape ==
    /\ \A c \in Callers : CallShape(calls[c]) /\ calls[c].round <= round
    /\ \A i \in DOMAIN commitHistory :
         CallShape(commitHistory[i]) /\ commitHistory[i].round <= round

\* A call that outlives its window has met the opening of the next one.
OldCallsRace ==
    \A c \in Waiting : calls[c].round # round => round \in raced

\* The weighted bid b is, or is about to be, a winner of round r.
Voice(r, b) ==
    \/ \E i \in Commits(r) : commitHistory[i].from = "weighted" /\ commitHistory[i].winner = b
    \/ \E c \in Callers : /\ calls[c].round = r /\ calls[c].phase = "committed"
                          /\ calls[c].from = "weighted" /\ calls[c].winner = b

\* In a round that is not raced everyone names the best bid of the moment ...
CurrentVoice ==
    round \notin raced => \A b \in Bids : Voice(round, b) => weighted # <<>> /\ b = bestBid

\* ... and in the rounds before they named one bid.
PastVoice ==
    \A r \in 1 .. (round - 1) \ raced : \A a, b \in Bids : Voice(r, a) /\ Voice(r, b) => a = b

\* Who aborts has seen no weighted bid, and there still is none.
AbortsAreBlind ==
    round \notin raced => \A c \in Callers : calls[c].phase = "aborted" => weighted = <<>>

\* A commit closes its window for bids.
CommittedTakesNoBids == Commits(round) # {} => window.status # "open"

BiddingInv ==
    /\ TypeOK
    /\ WindowShape
    /\ RoundsShape
    /\ OldCallsRace
    /\ CurrentVoice
    /\ PastVoice
    /\ AbortsAreBlind
    /\ CommittedTakesNoBids
    /\ CancelledHasNoWinner

\* The invariant holds before the first window.
LEMMA BiddingInit == Init => BiddingInv
<1> SUFFICES ASSUME Init PROVE BiddingInv
  OBVIOUS
<1>0. commitHistory = <<>> /\ DOMAIN commitHistory = {} /\ weighted = <<>> /\ DOMAIN weighted = {}
  BY DEF Init
<1>1. TypeOK
  <2>1. NoCall \in Call
    BY DEF NoCall, Call
  <2>2. commitHistory \in Seq(Call) /\ weighted \in Seq([bid : Bids, score : Scores])
    BY <1>0, EmptySeq
  <2>3. Ranked = {}
    BY <1>0 DEF Ranked
  <2> QED
    BY <1>0, <2>1, <2>2, <2>3 DEF Init, TypeOK
<1>2. WindowShape /\ RoundsShape /\ OldCallsRace /\ AbortsAreBlind
  BY <1>0 DEF Init, WindowShape, RoundsShape, CallShape, NoCall, OldCallsRace, Waiting,
      AbortsAreBlind
<1>3. CurrentVoice /\ PastVoice /\ CommittedTakesNoBids /\ CancelledHasNoWinner
  BY <1>0 DEF Init, CurrentVoice, PastVoice, Voice, Commits, NoCall, CommittedTakesNoBids,
      CancelledHasNoWinner
<1> QED
  BY <1>1, <1>2, <1>3 DEF BiddingInv
-------------------------------------------------------------------------------
(* Every step preserves the invariant. *)

\* Facts about the records that several steps need.
LEMMA Records ==
    ASSUME BiddingInv
    PROVE  /\ Len(commitHistory) \in Nat /\ DOMAIN commitHistory = 1 .. Len(commitHistory)
           /\ \A i \in DOMAIN commitHistory : commitHistory[i] \in Call
           /\ round \in Nat /\ weighted \in Seq(WeightedBid)
           /\ \A c \in Callers : calls[c] \in Call
<1>1. commitHistory \in Seq(Call) /\ calls \in [Callers -> Call] /\ round \in Nat
  BY DEF BiddingInv, TypeOK
<1>2. weighted \in Seq(WeightedBid)
  BY DEF BiddingInv, TypeOK, WeightedBid
<1>3. /\ Len(commitHistory) \in Nat /\ DOMAIN commitHistory = 1 .. Len(commitHistory)
      /\ commitHistory \in [1 .. Len(commitHistory) -> Call]
  BY <1>1, LenProperties
<1> QED
  BY <1>1, <1>2, <1>3

\* A step that leaves ranking, calls, records and rounds alone, and does not open
\* the window or cancel it, preserves everything but the types.
LEMMA QuietStep ==
    ASSUME BiddingInv, TypeOK', WindowShape',
           UNCHANGED <<weighted, calls, commitHistory, round, raced>>,
           window'.status \in {"open", "cancelled"} => window'.status = window.status
    PROVE  BiddingInv'
<1>1. (RoundsShape /\ OldCallsRace /\ AbortsAreBlind)'
  BY DEF BiddingInv, RoundsShape, CallShape, OldCallsRace, Waiting, AbortsAreBlind
<1>2. bestBid' = bestBid
  BY BestUnchanged
<1>3. (CurrentVoice /\ PastVoice)'
  BY <1>2 DEF BiddingInv, CurrentVoice, PastVoice, Voice, Commits
<1>4. (CommittedTakesNoBids /\ CancelledHasNoWinner)'
  BY DEF BiddingInv, CommittedTakesNoBids, CancelledHasNoWinner, Commits
<1> QED
  BY <1>1, <1>3, <1>4 DEF BiddingInv

\* Time passes, or a late bid finds the window expired.
LEMMA WindowStep ==
    ASSUME BiddingInv, Late \/ ExpireWindow
    PROVE  BiddingInv'
<1>1. WindowShape'
  BY DEF BiddingInv, WindowShape, Late, ExpireWindow
<1>2. TypeOK'
  BY <1>1 DEF BiddingInv, TypeOK, WindowShape, Late, ExpireWindow, Ranked, Submitted
<1>3. window'.status \in {"open", "cancelled"} => window'.status = window.status
  BY DEF BiddingInv, WindowShape, Late, ExpireWindow
<1> QED
  BY <1>1, <1>2, <1>3, QuietStep DEF Late, ExpireWindow

\* A new window starts without commits; whoever still waits makes it raced.
LEMMA OpenStep ==
    ASSUME BiddingInv, openBidding
    PROVE  BiddingInv'
<1>0. /\ round \in Nat /\ round' = round + 1
      /\ raced \subseteq raced'
      /\ Waiting # {} => round + 1 \in raced'
      /\ UNCHANGED <<bids, weighted, calls, commitHistory>>
  BY Records DEF openBidding, Meets
<1>1. TypeOK' /\ WindowShape'
  BY <1>0 DEF BiddingInv, TypeOK, WindowShape, openBidding, Meets, Ranked, Submitted
<1>2. RoundsShape'
  BY <1>0, Records DEF BiddingInv, RoundsShape, CallShape, Call
<1>3. Waiting' = Waiting /\ \A c \in Callers : calls[c].phase # "none" => c \in Waiting
  BY <1>0 DEF Waiting, NoCall
<1>4. OldCallsRace' /\ AbortsAreBlind'
  BY <1>0, <1>3 DEF OldCallsRace, AbortsAreBlind
<1>5. Commits(round)' = {}
  BY <1>0, Records DEF BiddingInv, RoundsShape, Commits, Call
<1>6. \A b \in Bids : ~Voice(round, b)'
  BY <1>0, <1>5, Records DEF BiddingInv, RoundsShape, Voice, Call
<1>7. CurrentVoice' /\ CommittedTakesNoBids' /\ CancelledHasNoWinner'
  BY <1>5, <1>6 DEF CurrentVoice, CommittedTakesNoBids, CancelledHasNoWinner
<1>8. PastVoice'
  <2> SUFFICES ASSUME NEW r \in 1 .. round, r \notin raced, NEW a \in Bids, NEW b \in Bids,
                      Voice(r, a), Voice(r, b)
               PROVE  a = b
    BY <1>0 DEF PastVoice, Voice, Commits
  <2>1. CASE r = round
    BY <2>1 DEF BiddingInv, CurrentVoice
  <2>2. CASE r # round
    BY <1>0, <2>2 DEF BiddingInv, PastVoice
  <2> QED
    BY <2>1, <2>2
<1> QED
  BY <1>1, <1>2, <1>4, <1>7, <1>8 DEF BiddingInv

\* A bid comes in: the window is open, so it has no commit yet, and a call that
\* waits makes the round raced.
LEMMA BidStep ==
    ASSUME BiddingInv, TakesBids, TypeOK',
           raced' = raced \cup Meets(round),
           UNCHANGED <<window, calls, commitHistory, round>>
    PROVE  BiddingInv'
<1>0. Waiting' = Waiting /\ \A c \in Callers : calls[c].phase # "none" => c \in Waiting
  BY DEF Waiting, NoCall
<1>1. raced \subseteq raced' /\ (Waiting # {} => round \in raced')
  BY DEF Meets
<1>2. Commits(round) = {}
  BY DEF BiddingInv, CommittedTakesNoBids, TakesBids
<1>3. WindowShape' /\ RoundsShape'
  BY DEF BiddingInv, WindowShape, RoundsShape, CallShape
<1>4. OldCallsRace' /\ AbortsAreBlind'
  BY <1>0, <1>1 DEF OldCallsRace, AbortsAreBlind
<1>5. Waiting = {} => \A b \in Bids : ~Voice(round, b)
  BY <1>0, <1>2 DEF Voice
<1>6. CurrentVoice'
  BY <1>1, <1>5 DEF CurrentVoice, Voice, Commits
<1>7. PastVoice'
  BY <1>1 DEF BiddingInv, PastVoice, Voice, Commits
<1>8. CommittedTakesNoBids' /\ CancelledHasNoWinner'
  BY <1>2 DEF CommittedTakesNoBids, CancelledHasNoWinner, Commits, TakesBids
<1> QED
  BY <1>3, <1>4, <1>6, <1>7, <1>8 DEF BiddingInv

\* setWeighted keeps the ranking free of repetitions.
LEMMA SetWeighted ==
    ASSUME BiddingInv, NEW b \in Bids, NEW score \in Scores,
           weighted' = setWeighted(b, score)
    PROVE  /\ weighted' \in Seq(WeightedBid)
           /\ \A i, j \in DOMAIN weighted' : weighted'[i].bid = weighted'[j].bid => i = j
           /\ Ranked' = Ranked \cup {b}
<1> DEFINE n == Len(weighted)
<1>1. /\ n \in Nat /\ DOMAIN weighted = 1 .. n
      /\ weighted \in [1 .. n -> WeightedBid] /\ weighted \in Seq(WeightedBid)
  BY Records, LenProperties
<1>2. \A i, j \in 1 .. n : weighted[i].bid = weighted[j].bid => i = j
  BY <1>1 DEF BiddingInv, TypeOK
<1>3. CASE b \in Ranked
  <2>1. weighted' = [i \in 1 .. n |-> IF weighted[i].bid = b
                                      THEN [weighted[i] EXCEPT !.score = score]
                                      ELSE weighted[i]]
    BY <1>1, <1>3 DEF setWeighted
  <2>2. weighted' \in [1 .. n -> WeightedBid] /\ DOMAIN weighted' = 1 .. n
    BY <1>1, <2>1 DEF WeightedBid
  <2>3. weighted' \in Seq(WeightedBid)
    BY <1>1, <2>2, SeqDef
  <2>4. \A i \in 1 .. n : weighted'[i].bid = weighted[i].bid
    BY <1>1, <2>1 DEF WeightedBid
  <2>5. Ranked' = Ranked
    BY <1>1, <2>2, <2>4 DEF Ranked
  <2> QED
    BY <1>2, <1>3, <2>2, <2>3, <2>4, <2>5
<1>4. CASE b \notin Ranked
  <2> DEFINE e == [bid |-> b, score |-> score]
  <2>1. weighted' = Append(weighted, e) /\ e \in WeightedBid
    BY <1>4 DEF setWeighted, WeightedBid
  <2>2. /\ weighted' \in Seq(WeightedBid) /\ Len(weighted') = n + 1
        /\ \A i \in 1 .. n : weighted'[i] = weighted[i]
        /\ weighted'[n + 1] = e
    BY <1>1, <2>1, AppendProperties
  <2>3. DOMAIN weighted' = 1 .. (n + 1)
    BY <2>2, LenProperties
  <2>4. \A i \in 1 .. n : weighted[i].bid # b
    BY <1>1, <1>4 DEF Ranked
  <2>5. \A i, j \in 1 .. (n + 1) : weighted'[i].bid = weighted'[j].bid => i = j
    <3> SUFFICES ASSUME NEW i \in 1 .. (n + 1), NEW j \in 1 .. (n + 1),
                        weighted'[i].bid = weighted'[j].bid
                 PROVE  i = j
      OBVIOUS
    <3>1. (i \in 1 .. n \/ i = n + 1) /\ (j \in 1 .. n \/ j = n + 1)
      BY <1>1
    <3> QED
      BY <1>2, <2>2, <2>4, <3>1
  <2>6. Ranked' = Ranked \cup {b}
    <3>1. Ranked' = {weighted'[i].bid : i \in 1 .. (n + 1)}
      BY <2>3 DEF Ranked
    <3>2. 1 .. (n + 1) = (1 .. n) \cup {n + 1}
      BY <1>1
    <3> QED
      BY <1>1, <2>2, <3>1, <3>2 DEF Ranked
  <2> QED
    BY <2>2, <2>3, <2>5, <2>6
<1> QED
  BY <1>3, <1>4

\* submitBid of a bid that Lattice accepts.
LEMMA AcceptStep ==
    ASSUME BiddingInv, NEW b \in Bids, NEW score \in BidScores, AcceptBid(b, score)
    PROVE  BiddingInv'
<1>0. score \in Scores /\ weighted' = setWeighted(b, score)
  BY DEF BidScores, AcceptBid
<1>1. /\ weighted' \in Seq(WeightedBid)
      /\ \A i, j \in DOMAIN weighted' : weighted'[i].bid = weighted'[j].bid => i = j
      /\ Ranked' = Ranked \cup {b}
  BY <1>0, SetWeighted
<1>2. bids' \in [Bids -> TaskBidStatus \cup {"none"}] /\ Submitted' = Submitted \cup {b}
  BY DEF BiddingInv, TypeOK, AcceptBid, TaskBidStatus, Submitted
<1>3. raced' \in SUBSET Nat
  BY Records DEF BiddingInv, TypeOK, AcceptBid, Meets
<1>4. TypeOK'
  BY <1>1, <1>2, <1>3 DEF BiddingInv, TypeOK, AcceptBid, WeightedBid
<1> QED
  BY <1>4, BidStep DEF AcceptBid

\* submitBid of a bid that Lattice rejects.
LEMMA RejectStep ==
    ASSUME BiddingInv, NEW b \in Bids, RejectBid(b)
    PROVE  BiddingInv'
<1>1. bids' \in [Bids -> TaskBidStatus \cup {"none"}] /\ Submitted' = Submitted \cup {b}
  BY DEF BiddingInv, TypeOK, RejectBid, TaskBidStatus, Submitted
<1>2. raced' \in SUBSET Nat /\ Ranked' = Ranked
  BY Records DEF BiddingInv, TypeOK, RejectBid, Meets, Ranked
<1>3. TypeOK'
  BY <1>1, <1>2 DEF BiddingInv, TypeOK, RejectBid
<1> QED
  BY <1>3, BidStep DEF RejectBid

\* commitBids up to its await: it takes the best bid, or has nothing to take.
LEMMA CommitBidsStep ==
    ASSUME BiddingInv, NEW c \in Callers, commitBids(c)
    PROVE  BiddingInv'
<1> DEFINE aborts == [phase |-> "aborted", winner |-> NoBid, round |-> round, from |-> "none"]
           commits(b) == [phase |-> "committed", winner |-> b, round |-> round,
                          from |-> IF weighted # <<>> THEN "weighted" ELSE "bids"]
<1>0. /\ UNCHANGED <<window, bids, weighted, commitHistory, round, raced>>
      /\ calls \in [Callers -> Call] /\ round \in Nat
  BY Records DEF commitBids, BiddingInv, TypeOK
<1>1. \E call : /\ calls' = [calls EXCEPT ![c] = call]
                /\ \/ call = aborts /\ weighted = <<>>
                   \/ \E b \in Leading : call = commits(b)
  BY DEF commitBids, NothingRanked
<1>2. PICK call : /\ calls' = [calls EXCEPT ![c] = call]
                  /\ \/ call = aborts /\ weighted = <<>>
                     \/ \E b \in Leading : call = commits(b)
  BY <1>1
<1>3. Leading \subseteq Bids /\ (weighted # <<>> => Leading = {bestBid})
  BY Records, BestIsRanked DEF Leading, Submitted
<1>4. /\ call \in Call /\ CallShape(call) /\ call.round = round
      /\ call.phase = "aborted" => weighted = <<>>
      /\ call.from = "weighted" => weighted # <<>> /\ call.winner = bestBid
  BY <1>0, <1>2, <1>3, TaskBiddingAssumption DEF Call, CallShape
<1>5. calls' \in [Callers -> Call] /\ \A d \in Callers : calls'[d] = IF d = c THEN call ELSE calls[d]
  BY <1>0, <1>2, <1>4
<1>6. TypeOK' /\ WindowShape'
  BY <1>0, <1>5 DEF BiddingInv, TypeOK, WindowShape, Ranked, Submitted
<1>7. RoundsShape' /\ OldCallsRace' /\ AbortsAreBlind'
  BY <1>0, <1>4, <1>5 DEF BiddingInv, RoundsShape, CallShape, OldCallsRace, Waiting, AbortsAreBlind
<1>8. bestBid' = bestBid
  BY <1>0, BestUnchanged
<1>9. CurrentVoice'
  BY <1>0, <1>4, <1>5, <1>8 DEF BiddingInv, CurrentVoice, Voice, Commits
<1>10. PastVoice'
  <2> SUFFICES ASSUME NEW r \in 1 .. (round - 1), r \notin raced, NEW a \in Bids, NEW b \in Bids,
                      Voice(r, a)', Voice(r, b)'
               PROVE  a = b
    BY <1>0 DEF PastVoice
  <2>1. r # round
    BY <1>0
  <2>2. Voice(r, a) /\ Voice(r, b)
    BY <1>0, <1>4, <1>5, <2>1 DEF Voice, Commits
  <2> QED
    BY <2>2 DEF BiddingInv, PastVoice
<1>11. CommittedTakesNoBids' /\ CancelledHasNoWinner'
  BY <1>0 DEF BiddingInv, CommittedTakesNoBids, CancelledHasNoWinner, Commits
<1> QED
  BY <1>6, <1>7, <1>9, <1>10, <1>11 DEF BiddingInv

\* What the end of a call leaves of the calls.
LEMMA CallEnds ==
    ASSUME BiddingInv, NEW c \in Callers, calls' = [calls EXCEPT ![c] = NoCall]
    PROVE  /\ calls' \in [Callers -> Call]
           /\ \A d \in Callers : calls'[d] = IF d = c THEN NoCall ELSE calls[d]
           /\ NoCall \in Call /\ CallShape(NoCall) /\ NoCall.phase = "none" /\ NoCall.round = 0
BY DEF BiddingInv, TypeOK, Call, NoCall, CallShape

\* Vertex throws: the call is gone.
LEMMA FailedStep ==
    ASSUME BiddingInv, NEW c \in Callers, Failed(c)
    PROVE  BiddingInv'
<1>0. /\ UNCHANGED <<window, bids, weighted, commitHistory, round, raced>>
      /\ calls' = [calls EXCEPT ![c] = NoCall] /\ round \in Nat
  BY Records DEF Failed
<1>1. /\ calls' \in [Callers -> Call]
      /\ \A d \in Callers : calls'[d] = IF d = c THEN NoCall ELSE calls[d]
      /\ CallShape(NoCall) /\ NoCall.phase = "none" /\ NoCall.round = 0
  BY <1>0, CallEnds
<1>2. TypeOK' /\ WindowShape'
  BY <1>0, <1>1 DEF BiddingInv, TypeOK, WindowShape, Ranked, Submitted
<1>3. RoundsShape' /\ OldCallsRace' /\ AbortsAreBlind'
  BY <1>0, <1>1 DEF BiddingInv, RoundsShape, CallShape, OldCallsRace, Waiting, AbortsAreBlind
<1>4. bestBid' = bestBid
  BY <1>0, BestUnchanged
<1>5. CurrentVoice' /\ PastVoice'
  BY <1>0, <1>1, <1>4 DEF BiddingInv, CurrentVoice, PastVoice, Voice, Commits
<1>6. CommittedTakesNoBids' /\ CancelledHasNoWinner'
  BY <1>0 DEF BiddingInv, CommittedTakesNoBids, CancelledHasNoWinner, Commits
<1> QED
  BY <1>2, <1>3, <1>5, <1>6 DEF BiddingInv

\* The record of a call that has ended joins the history.
LEMMA HistoryGrows ==
    ASSUME BiddingInv, NEW c \in Callers, calls[c] # NoCall,
           commitHistory' = Append(commitHistory, calls[c])
    PROVE  /\ commitHistory' \in Seq(Call)
           /\ DOMAIN commitHistory' = DOMAIN commitHistory \cup {Len(commitHistory) + 1}
           /\ Len(commitHistory) + 1 \notin DOMAIN commitHistory
           /\ \A i \in DOMAIN commitHistory : commitHistory'[i] = commitHistory[i]
           /\ commitHistory'[Len(commitHistory) + 1] = calls[c]
           /\ \A i \in DOMAIN commitHistory' :
                /\ commitHistory'[i].phase # "none"
                /\ commitHistory'[i].phase = "committed" <=> commitHistory'[i].winner # NoBid
<1> DEFINE n == Len(commitHistory)
<1>1. /\ commitHistory \in Seq(Call) /\ n \in Nat /\ DOMAIN commitHistory = 1 .. n
      /\ calls[c] \in Call
  BY Records DEF BiddingInv, TypeOK
<1>2. /\ commitHistory' \in Seq(Call) /\ Len(commitHistory') = n + 1
      /\ \A i \in 1 .. n : commitHistory'[i] = commitHistory[i]
      /\ commitHistory'[n + 1] = calls[c]
  BY <1>1, AppendProperties
<1>3. DOMAIN commitHistory' = (1 .. n) \cup {n + 1} /\ n + 1 \notin 1 .. n
  <2>1. DOMAIN commitHistory' = 1 .. (n + 1)
    BY <1>2, LenProperties
  <2> QED
    BY <1>1, <2>1
<1>4. calls[c].phase # "none" /\ (calls[c].phase = "committed" <=> calls[c].winner # NoBid)
  BY TaskBiddingAssumption DEF BiddingInv, RoundsShape, CallShape
<1> QED
  BY <1>1, <1>2, <1>3, <1>4 DEF BiddingInv, TypeOK

\* Vertex answers: the winner that was taken is recorded, and the window closed.
LEMMA CommittedStep ==
    ASSUME BiddingInv, NEW c \in Callers, Committed(c)
    PROVE  BiddingInv'
<1> DEFINE n == Len(commitHistory)
<1>0. /\ UNCHANGED <<bids, weighted, round, raced>> /\ round \in Nat
      /\ calls' = [calls EXCEPT ![c] = NoCall]
      /\ calls[c].phase = "committed" /\ calls[c] # NoCall
      /\ commitHistory' = Append(commitHistory, calls[c])
  BY Records DEF Committed, NoCall
<1>1. /\ calls' \in [Callers -> Call]
      /\ \A d \in Callers : calls'[d] = IF d = c THEN NoCall ELSE calls[d]
      /\ CallShape(NoCall) /\ NoCall.phase = "none" /\ NoCall.round = 0
  BY <1>0, CallEnds
<1>2. /\ commitHistory' \in Seq(Call)
      /\ DOMAIN commitHistory' = DOMAIN commitHistory \cup {n + 1}
      /\ n + 1 \notin DOMAIN commitHistory
      /\ \A i \in DOMAIN commitHistory : commitHistory'[i] = commitHistory[i]
      /\ commitHistory'[n + 1] = calls[c]
      /\ \A i \in DOMAIN commitHistory' :
           /\ commitHistory'[i].phase # "none"
           /\ commitHistory'[i].phase = "committed" <=> commitHistory'[i].winner # NoBid
  BY <1>0, HistoryGrows
<1>3. WindowShape' /\ window'.status = "committed"
  BY DEF BiddingInv, WindowShape, Committed
<1>4. TypeOK'
  BY <1>0, <1>1, <1>2, <1>3 DEF BiddingInv, TypeOK, WindowShape, Ranked, Submitted
<1>5. RoundsShape' /\ OldCallsRace' /\ AbortsAreBlind'
  BY <1>0, <1>1, <1>2 DEF BiddingInv, RoundsShape, CallShape, OldCallsRace, Waiting, AbortsAreBlind
<1>6. bestBid' = bestBid
  BY <1>0, BestUnchanged
<1>7. ASSUME NEW r, NEW b, Voice(r, b)' PROVE Voice(r, b)
  BY <1>0, <1>1, <1>2, <1>7 DEF Voice, Commits
<1>8. CurrentVoice'
  <2> SUFFICES ASSUME round \notin raced, NEW b \in Bids, Voice(round, b)'
               PROVE  weighted # <<>> /\ b = bestBid
    BY <1>0, <1>6 DEF CurrentVoice
  <2>1. Voice(round, b)
    BY <1>0, <1>1, <1>2 DEF Voice, Commits
  <2> QED
    BY <2>1 DEF BiddingInv, CurrentVoice
<1>9. PastVoice'
  BY <1>0, <1>7 DEF BiddingInv, PastVoice
<1>10. CommittedTakesNoBids' /\ CancelledHasNoWinner'
  BY <1>3 DEF CommittedTakesNoBids, CancelledHasNoWinner
<1> QED
  BY <1>3, <1>4, <1>5, <1>8, <1>9, <1>10 DEF BiddingInv

\* An abort is recorded: its window has no weighted winner unless it was raced.
LEMMA AbortedStep ==
    ASSUME BiddingInv, NEW c \in Callers, Aborted(c)
    PROVE  BiddingInv'
<1> DEFINE n == Len(commitHistory)
<1>0. /\ UNCHANGED <<weighted, round, raced>> /\ round \in Nat
      /\ calls' = [calls EXCEPT ![c] = NoCall]
      /\ calls[c].phase = "aborted" /\ calls[c] # NoCall
      /\ commitHistory' = Append(commitHistory, calls[c])
  BY Records DEF Aborted, NoCall
<1>1. /\ calls' \in [Callers -> Call]
      /\ \A d \in Callers : calls'[d] = IF d = c THEN NoCall ELSE calls[d]
      /\ CallShape(NoCall) /\ NoCall.phase = "none" /\ NoCall.round = 0
  BY <1>0, CallEnds
<1>2. /\ commitHistory' \in Seq(Call)
      /\ DOMAIN commitHistory' = DOMAIN commitHistory \cup {n + 1}
      /\ n + 1 \notin DOMAIN commitHistory
      /\ \A i \in DOMAIN commitHistory : commitHistory'[i] = commitHistory[i]
      /\ commitHistory'[n + 1] = calls[c]
      /\ \A i \in DOMAIN commitHistory' :
           /\ commitHistory'[i].phase # "none"
           /\ commitHistory'[i].phase = "committed" <=> commitHistory'[i].winner # NoBid
  BY <1>0, HistoryGrows
<1>3. WindowShape' /\ window'.status = "cancelled"
  BY DEF BiddingInv, WindowShape, Aborted
<1>4. bids' \in [Bids -> TaskBidStatus \cup {"none"}] /\ Submitted' = Submitted
  BY DEF Aborted, TaskBidStatus, Submitted
<1>5. TypeOK'
  BY <1>0, <1>1, <1>2, <1>3, <1>4 DEF BiddingInv, TypeOK, WindowShape, Ranked
<1>6. RoundsShape' /\ OldCallsRace' /\ AbortsAreBlind'
  BY <1>0, <1>1, <1>2 DEF BiddingInv, RoundsShape, CallShape, OldCallsRace, Waiting, AbortsAreBlind
<1>7. bestBid' = bestBid
  BY <1>0, BestUnchanged
<1>8. Commits(round)' = Commits(round)
  BY <1>0, <1>2 DEF Commits
<1>9. CurrentVoice' /\ PastVoice'
  BY <1>0, <1>1, <1>2, <1>7 DEF BiddingInv, CurrentVoice, PastVoice, Voice, Commits
<1>10. CommittedTakesNoBids'
  BY <1>3 DEF CommittedTakesNoBids
<1>11. CancelledHasNoWinner'
  <2> SUFFICES ASSUME round \notin raced, NEW i \in Commits(round)
               PROVE  commitHistory[i].from = "bids"
    BY <1>0, <1>2, <1>8 DEF CancelledHasNoWinner, Commits
  <2>1. weighted = <<>>
    BY <1>0 DEF BiddingInv, AbortsAreBlind
  <2>2. i \in DOMAIN commitHistory /\ commitHistory[i].phase = "committed"
    BY DEF Commits
  <2>3. commitHistory[i].from \in {"weighted", "bids"} /\ commitHistory[i].winner \in Bids
    BY <2>2 DEF BiddingInv, RoundsShape, CallShape, NoCall
  <2>4. commitHistory[i].from # "weighted"
    BY <2>1, <2>3 DEF BiddingInv, CurrentVoice, Voice
  <2> QED
    BY <2>3, <2>4
<1> QED
  BY <1>3, <1>5, <1>6, <1>9, <1>10, <1>11 DEF BiddingInv

\* BiddingInv is an invariant of the registry and its callers.
THEOREM BiddingInvariance == Spec => []BiddingInv
<1>1. BiddingInv /\ [Next]_vars => BiddingInv'
  <2> SUFFICES ASSUME BiddingInv, [Next]_vars PROVE BiddingInv'
    OBVIOUS
  <2>1. ASSUME NEW c \in Callers, commitBids(c) \/ Committed(c) \/ Aborted(c) \/ Failed(c)
        PROVE  BiddingInv'
    BY <2>1, CommitBidsStep, CommittedStep, AbortedStep, FailedStep
  <2>2. CASE UNCHANGED vars
    <3>1. TypeOK' /\ WindowShape'
      BY <2>2 DEF vars, BiddingInv, TypeOK, WindowShape, Ranked, Submitted
    <3> QED
      BY <2>2, <3>1, QuietStep DEF vars
  <2> QED
    BY <2>1, <2>2, OpenStep, WindowStep, AcceptStep, RejectStep DEF Next
<1> QED
  BY <1>1, BiddingInit, PTL DEF Spec

\* Bids, ranking, calls and records of the registry stay well formed: no bid is
\* ranked twice, and a record of a commit names a bid.
THEOREM BiddingTypes == Spec => []TypeOK
<1>1. BiddingInv => TypeOK
  BY DEF BiddingInv
<1> QED
  BY <1>1, BiddingInvariance, PTL

\* However often commitBids is called and however the calls overlap, the weighted
\* commits of a window name one bid, unless a bid or a new window came in
\* during one of the awaits.
THEOREM OneWinner == Spec => []OneWinnerUnlessRaced
<1>1. BiddingInv => OneWinnerUnlessRaced
  <2> SUFFICES ASSUME BiddingInv, NEW r \in 1 .. round, r \notin raced,
                      NEW i \in Commits(r), NEW j \in Commits(r),
                      commitHistory[i].from = "weighted", commitHistory[j].from = "weighted"
               PROVE  commitHistory[i].winner = commitHistory[j].winner
    BY DEF OneWinnerUnlessRaced
  <2>1. commitHistory[i].winner \in Bids /\ commitHistory[j].winner \in Bids
    BY DEF BiddingInv, RoundsShape, CallShape, NoCall, Commits
  <2>2. Voice(r, commitHistory[i].winner) /\ Voice(r, commitHistory[j].winner)
    BY DEF Voice
  <2>3. CASE r = round
    BY <2>1, <2>2, <2>3 DEF BiddingInv, CurrentVoice
  <2>4. CASE r # round
    <3>1. r \in 1 .. (round - 1)
      BY <2>4, Records
    <3> QED
      BY <2>1, <2>2, <3>1 DEF BiddingInv, PastVoice
  <2> QED
    BY <2>3, <2>4
<1> QED
  BY <1>1, BiddingInvariance, PTL

\* A window that cancelTask cancels has no commit of a weighted bid, unless
\* something came in during the abort's await.
THEOREM CancelledUnwon == Spec => []CancelledHasNoWinner
<1>1. BiddingInv => CancelledHasNoWinner
  BY DEF BiddingInv
<1> QED
  BY <1>1, BiddingInvariance, PTL

-------------------------------------------------------------------------------
(* What the rows tell: the mission as it was after each of them. *)

Target ==
    [status: {"new", "confirmed", "assigned", "extracted"}, confirmedBy: SUBSET Nodes,
     assignedTo: Nodes \cup {Nobody}, extractedBy: Nodes \cup {Nobody}]

Row ==
    [kind: {"target_upsert"}, target: Targets, object: Nat]
        \cup [kind: TargetKinds, target: Targets, node: Nodes]
        \cup [kind: {"phase_transition_commit"}, to: Phases]
        \cup [kind: {"other", "foreign"}]

Mission ==
    [phase: Phases \cup {"init"}, version: Nat,
     targets: [Targets -> {<<>>} \cup {<<v>> : v \in Target}]]

IsUpsert(lg, k, t) == lg[k].kind = "target_upsert" /\ lg[k].target = t
IsChange(lg, k, t) == lg[k].kind \in TargetKinds /\ lg[k].target = t
NoUpsert(lg, t, i, j) == \A k \in (i + 1) .. j : ~IsUpsert(lg, k, t)

\* What a row makes of the mission.
TargetTold(lg, m, k, t) ==
    IF IsUpsert(lg, k, t) THEN <<NewTarget>>
    ELSE IF IsChange(lg, k, t) THEN <<After(lg[k].kind, m.targets[t][1], lg[k].node)>>
    ELSE m.targets[t]

Told(lg, m, k) ==
    [phase |-> IF lg[k].kind = "phase_transition_commit" THEN lg[k].to ELSE m.phase,
     version |-> IF lg[k].kind = "phase_transition_commit" THEN m.version + 1 ELSE m.version,
     targets |-> [t \in Targets |-> TargetTold(lg, m, k, t)]]

NoMission == [phase |-> "init", version |-> 0, targets |-> [t \in Targets |-> <<>>]]

\* past is the mission after each row; no row changes a target nobody added.
Tells(lg, past) ==
    /\ lg \in Seq(Row)
    /\ past \in [0 .. Len(lg) -> Mission]
    /\ past[0] = NoMission
    /\ \A k \in 1 .. Len(lg) : past[k] = Told(lg, past[k - 1], k)
    /\ \A k \in 1 .. Len(lg), t \in Targets : IsChange(lg, k, t) => past[k - 1].targets[t] # <<>>

\* An object has the value v the target t had at row q, or later before it was added anew.
Shows(lg, past, v, t, q) ==
    \E p \in q .. Len(lg) : NoUpsert(lg, t, q, p) /\ past[p].targets[t] = <<v>>

\* birth is the row that added the target an object stands for; up to row k the target
\* was not added again.
OfTarget(lg, birth, o, t, k) ==
    /\ o \in DOMAIN birth
    /\ birth[o] <= k
    /\ IsUpsert(lg, birth[o], t)
    /\ NoUpsert(lg, t, birth[o], k)

\* Objects are those of the targets that rows added, and each row has its own.
Objects(hp, lg, past, birth) ==
    /\ hp \in Seq(Target)
    /\ birth \in [1 .. Len(hp) -> 1 .. Len(lg)]
    /\ \A o \in 1 .. Len(hp) : \E t \in Targets :
         IsUpsert(lg, birth[o], t) /\ Shows(lg, past, hp[o], t, birth[o])
    /\ \A k \in 1 .. Len(lg) :
         lg[k].kind = "target_upsert" => lg[k].object \in 1 .. Len(hp) /\ birth[lg[k].object] = k

\* What a context or checkpoint made at row z has for a target: an object of it that has
\* the value of then or a later one, or nothing if there was no target or if it is blank
\* (bl): of a new coordinator that has not gone through the rows.
Entry(bl, hp, lg, past, birth, object, t, z) ==
    IF object = Unknown THEN bl \/ past[z].targets[t] = <<>>
    ELSE OfTarget(lg, birth, object, t, z) /\ Shows(lg, past, hp[object], t, z)

Registered(bl, hp, lg, past, birth, registry, z) ==
    /\ registry \in [Targets -> Nat]
    /\ \A t \in Targets : Entry(bl, hp, lg, past, birth, registry[t], t, z)

LEMMA AfterFacts ==
    ASSUME NEW kind \in TargetKinds, NEW v \in Target, NEW n \in Nodes
    PROVE  /\ After(kind, v, n) \in Target
           /\ v.confirmedBy \subseteq After(kind, v, n).confirmedBy
<1>1. CASE kind = "target_confirm"
  BY <1>1 DEF After, confirmed, Target
<1>2. CASE kind = "target_assign"
  BY <1>2 DEF After, assigned, Target
<1>3. CASE kind = "target_extract"
  BY <1>3 DEF After, extracted, Target
<1> QED
  BY <1>1, <1>2, <1>3 DEF TargetKinds

\* A change sets some fields whatever they were, keeps the others, and adds a node to
\* confirmedBy or does not.
LEMMA AfterFields ==
    ASSUME NEW kind \in TargetKinds, NEW v \in Target, NEW w \in Target, NEW n \in Nodes
    PROVE  /\ After(kind, v, n).status = After(kind, w, n).status
           /\ \/ After(kind, v, n).assignedTo = After(kind, w, n).assignedTo
              \/ /\ After(kind, v, n).assignedTo = v.assignedTo
                 /\ After(kind, w, n).assignedTo = w.assignedTo
           /\ \/ After(kind, v, n).extractedBy = After(kind, w, n).extractedBy
              \/ /\ After(kind, v, n).extractedBy = v.extractedBy
                 /\ After(kind, w, n).extractedBy = w.extractedBy
           /\ \/ /\ After(kind, v, n).confirmedBy = v.confirmedBy
                 /\ After(kind, w, n).confirmedBy = w.confirmedBy
              \/ /\ After(kind, v, n).confirmedBy = v.confirmedBy \cup {n}
                 /\ After(kind, w, n).confirmedBy = w.confirmedBy \cup {n}
<1>1. CASE kind = "target_confirm"
  BY <1>1 DEF After, confirmed, Target
<1>2. CASE kind = "target_assign"
  BY <1>2 DEF After, assigned, Target
<1>3. CASE kind = "target_extract"
  BY <1>3 DEF After, extracted, Target
<1> QED
  BY <1>1, <1>2, <1>3 DEF TargetKinds

\* Which fields a row has follows from its kind.
LEMMA RowFacts ==
    ASSUME NEW row \in Row
    PROVE  /\ row.kind = "target_upsert" => row.target \in Targets /\ row.object \in Nat
           /\ row.kind \in TargetKinds => row.target \in Targets /\ row.node \in Nodes
           /\ row.kind = "phase_transition_commit" => row.to \in Phases
           /\ \/ row.kind = "target_upsert" \/ row.kind \in TargetKinds
              \/ row.kind = "phase_transition_commit" \/ row.kind = "other" \/ row.kind = "foreign"
<1>1. CASE row \in [kind: {"target_upsert"}, target: Targets, object: Nat]
  BY <1>1 DEF TargetKinds
<1>2. CASE row \in [kind: TargetKinds, target: Targets, node: Nodes]
  BY <1>2 DEF TargetKinds
<1>3. CASE row \in [kind: {"phase_transition_commit"}, to: Phases]
  BY <1>3 DEF TargetKinds
<1>4. CASE row \in [kind: {"other", "foreign"}]
  BY <1>4 DEF TargetKinds
<1> QED
  BY <1>1, <1>2, <1>3, <1>4 DEF Row

\* The mission after a row is a mission.
LEMMA ToldType ==
    ASSUME NEW lg, NEW k, lg[k] \in Row, NEW m \in Mission,
           \A t \in Targets : IsChange(lg, k, t) => m.targets[t] # <<>>
    PROVE  Told(lg, m, k) \in Mission
<1> DEFINE Values == {<<>>} \cup {<<v>> : v \in Target}
<1>1. ASSUME NEW t \in Targets PROVE TargetTold(lg, m, k, t) \in Values
  <2>1. CASE IsUpsert(lg, k, t)
    BY <2>1 DEF TargetTold, NewTarget, Target
  <2>2. CASE ~IsUpsert(lg, k, t) /\ IsChange(lg, k, t)
    <3>1. PICK v \in Target : m.targets[t] = <<v>>
      BY <2>2 DEF Mission
    <3>2. After(lg[k].kind, v, lg[k].node) \in Target
      BY <2>2, RowFacts, AfterFacts DEF IsChange
    <3>3. TargetTold(lg, m, k, t) = <<After(lg[k].kind, v, lg[k].node)>>
      BY <2>2, <3>1 DEF TargetTold
    <3> QED
      BY <3>2, <3>3
  <2>3. CASE ~IsUpsert(lg, k, t) /\ ~IsChange(lg, k, t)
    BY <2>3 DEF TargetTold, Mission
  <2> QED
    BY <2>1, <2>2, <2>3
<1>2. [t \in Targets |-> TargetTold(lg, m, k, t)] \in [Targets -> Values]
  <2> HIDE DEF Values
  <2> QED
    BY <1>1
<1>3. lg[k].kind = "phase_transition_commit" => lg[k].to \in Phases
  BY RowFacts
<1>4. m.phase \in Phases \cup {"init"} /\ m.version \in Nat
  BY DEF Mission
<1> QED
  BY <1>2, <1>3, <1>4 DEF Told, Mission

\* What happens to one target at a row.
LEMMA ToldTarget ==
    ASSUME NEW lg, NEW past, Tells(lg, past), NEW k \in 1 .. Len(lg), NEW t \in Targets
    PROVE  /\ lg[k] \in Row /\ k - 1 \in 0 .. Len(lg) /\ k \in 0 .. Len(lg)
           /\ past[k] \in Mission /\ past[k - 1] \in Mission
           /\ IsUpsert(lg, k, t) => past[k].targets[t] = <<NewTarget>>
           /\ IsChange(lg, k, t) =>
                \E v \in Target : /\ past[k - 1].targets[t] = <<v>>
                                  /\ past[k].targets[t] = <<After(lg[k].kind, v, lg[k].node)>>
           /\ ~IsUpsert(lg, k, t) /\ ~IsChange(lg, k, t)
                => past[k].targets[t] = past[k - 1].targets[t]
<1>1. Len(lg) \in Nat /\ lg[k] \in Row
  BY DEF Tells
<1>2. past[k] \in Mission /\ past[k - 1] \in Mission
  BY <1>1 DEF Tells
<1>3. past[k].targets[t] = TargetTold(lg, past[k - 1], k, t)
  <2>1. past[k] = Told(lg, past[k - 1], k)
    BY DEF Tells
  <2>2. Told(lg, past[k - 1], k).targets[t] = TargetTold(lg, past[k - 1], k, t)
    BY DEF Told
  <2> QED
    BY <2>1, <2>2
<1>4. ASSUME IsChange(lg, k, t)
      PROVE  \E v \in Target : /\ past[k - 1].targets[t] = <<v>>
                               /\ past[k].targets[t] = <<After(lg[k].kind, v, lg[k].node)>>
  <2>1. past[k - 1].targets[t] # <<>>
    BY <1>4 DEF Tells
  <2>2. PICK v \in Target : past[k - 1].targets[t] = <<v>>
    BY <1>2, <2>1 DEF Mission
  <2>3. ~IsUpsert(lg, k, t)
    BY <1>4 DEF IsChange, IsUpsert, TargetKinds
  <2> QED
    BY <1>3, <1>4, <2>2, <2>3 DEF TargetTold
<1> QED
  BY <1>1, <1>2, <1>3, <1>4 DEF TargetTold

\* A target that a row adds is known after it.
LEMMA ToldUpsert ==
    ASSUME NEW lg, NEW past, Tells(lg, past), NEW k \in 1 .. Len(lg), NEW t \in Targets,
           IsUpsert(lg, k, t)
    PROVE  past[k].targets[t] = <<NewTarget>> /\ past[k].targets[t] # <<>>
<1>1. past[k].targets[t] = <<NewTarget>>
  BY ToldTarget
<1>2. <<NewTarget>> # <<>>
  OBVIOUS
<1> QED
  BY <1>1, <1>2

\* A target that a row does not name is what it was.
LEMMA ToldUntouched ==
    ASSUME NEW lg, NEW past, Tells(lg, past), NEW k \in 1 .. Len(lg), NEW t \in Targets,
           ~IsUpsert(lg, k, t), ~IsChange(lg, k, t)
    PROVE  past[k].targets[t] = past[k - 1].targets[t]
BY ToldTarget

\* Until a target is added anew it stays known, and who confirmed it stays so.
LEMMA EpochGrows ==
    ASSUME NEW lg, NEW past, Tells(lg, past), NEW t \in Targets,
           NEW i \in 0 .. Len(lg), NEW j \in 0 .. Len(lg), i <= j,
           NoUpsert(lg, t, i, j), NEW v \in Target, past[i].targets[t] = <<v>>
    PROVE  \E u \in Target : past[j].targets[t] = <<u>> /\ v.confirmedBy \subseteq u.confirmedBy
<1> DEFINE Good(k) ==
      \E u \in Target : past[k].targets[t] = <<u>> /\ v.confirmedBy \subseteq u.confirmedBy
           Bad == {k \in i .. j : ~Good(k)}
<1>0. Len(lg) \in Nat
  BY DEF Tells
<1>1. Bad = {}
  <2> SUFFICES ASSUME Bad # {} PROVE FALSE
    OBVIOUS
  <2>1. PICK k \in Bad : \A m \in Bad : k <= m
    <3>1. Bad \subseteq Nat
      OBVIOUS
    <3> HIDE DEF Bad
    <3> QED
      BY <3>1, LeastNat
  <2>2. k # i
    <3>1. Good(i)
      OBVIOUS
    <3> QED
      BY <2>1, <3>1
  <2>3. k - 1 \in i .. j /\ Good(k - 1)
    BY <2>1, <2>2
  <2>4. PICK u \in Target : past[k - 1].targets[t] = <<u>> /\ v.confirmedBy \subseteq u.confirmedBy
    BY <2>3
  <2>5. k \in 1 .. Len(lg) /\ ~IsUpsert(lg, k, t)
    BY <1>0, <2>2 DEF NoUpsert
  <2>6. CASE IsChange(lg, k, t)
    <3>1. PICK x \in Target : /\ past[k - 1].targets[t] = <<x>>
                              /\ past[k].targets[t] = <<After(lg[k].kind, x, lg[k].node)>>
      BY <2>5, <2>6, ToldTarget
    <3>2. x = u
      BY <2>4, <3>1
    <3>3. lg[k].kind \in TargetKinds /\ lg[k].node \in Nodes
      BY <2>5, <2>6, ToldTarget, RowFacts DEF IsChange
    <3>4. /\ After(lg[k].kind, u, lg[k].node) \in Target
          /\ u.confirmedBy \subseteq After(lg[k].kind, u, lg[k].node).confirmedBy
      BY <3>3, AfterFacts
    <3>5. Good(k)
      BY <2>4, <3>1, <3>2, <3>4
    <3> QED
      BY <2>1, <3>5
  <2>7. CASE ~IsChange(lg, k, t)
    <3>1. past[k].targets[t] = past[k - 1].targets[t]
      BY <2>5, <2>7, ToldUntouched
    <3> QED
      BY <2>1, <2>4, <3>1
  <2> QED
    BY <2>6, <2>7
<1> QED
  BY <1>0, <1>1

\* A target that is known stays known.
LEMMA KnownStays ==
    ASSUME NEW lg, NEW past, Tells(lg, past), NEW t \in Targets,
           NEW i \in 0 .. Len(lg), NEW j \in 0 .. Len(lg), i <= j, past[i].targets[t] # <<>>
    PROVE  past[j].targets[t] # <<>>
<1> DEFINE Bad == {k \in i .. j : past[k].targets[t] = <<>>}
<1>0. Len(lg) \in Nat
  BY DEF Tells
<1>1. Bad = {}
  <2> SUFFICES ASSUME Bad # {} PROVE FALSE
    OBVIOUS
  <2>1. PICK k \in Bad : \A m \in Bad : k <= m
    <3>1. Bad \subseteq Nat
      OBVIOUS
    <3> HIDE DEF Bad
    <3> QED
      BY <3>1, LeastNat
  <2>2. k # i /\ k \in 1 .. Len(lg) /\ k - 1 \in i .. j
    BY <1>0, <2>1
  <2>3. past[k - 1].targets[t] # <<>>
    BY <2>1, <2>2
  <2>4. past[k].targets[t] = <<>>
    BY <2>1
  <2>5. ~IsUpsert(lg, k, t) /\ ~IsChange(lg, k, t)
    <3>1. \A x : <<x>> # <<>>
      OBVIOUS
    <3>2. ASSUME IsUpsert(lg, k, t) PROVE FALSE
      BY <2>2, <2>4, <3>2, ToldUpsert
    <3>3. ASSUME IsChange(lg, k, t) PROVE FALSE
      <4>1. PICK x \in Target : past[k].targets[t] = <<After(lg[k].kind, x, lg[k].node)>>
        BY <2>2, <3>3, ToldTarget
      <4> QED
        BY <2>4, <3>1, <4>1
    <3> QED
      BY <3>2, <3>3
  <2>6. past[k].targets[t] = past[k - 1].targets[t]
    BY <2>2, <2>5, ToldUntouched
  <2> QED
    BY <2>3, <2>4, <2>6
<1> QED
  BY <1>0, <1>1
-------------------------------------------------------------------------------
(* An object while replay goes over the rows of its target once more. *)

\* w has some fields of the earlier value a and the others of the later value b.
Between(w, a, b) ==
    /\ w.confirmedBy = b.confirmedBy
    /\ w.status \in {a.status, b.status}
    /\ w.assignedTo \in {a.assignedTo, b.assignedTo}
    /\ w.extractedBy \in {a.extractedBy, b.extractedBy}

\* w is what target t was at row k, or that with fields of what t was to become.
Mixed(lg, past, w, t, k) ==
    \/ past[k].targets[t] = <<w>>
    \/ \E p \in (k + 1) .. Len(lg) :
         /\ NoUpsert(lg, t, k, p)
         /\ \E a \in Target, b \in Target :
              past[k].targets[t] = <<a>> /\ past[p].targets[t] = <<b>> /\ Between(w, a, b)

\* When replay has got as far as the object was, the object is what it was.
LEMMA BetweenSame ==
    ASSUME NEW w \in Target, NEW b \in Target, Between(w, b, b)
    PROVE  w = b
BY DEF Between, Target

\* A change of all three keeps w between, as long as b already counts who confirmed.
LEMMA BetweenAfter ==
    ASSUME NEW kind \in TargetKinds, NEW n \in Nodes,
           NEW w \in Target, NEW a \in Target, NEW b \in Target, Between(w, a, b),
           After(kind, a, n).confirmedBy \subseteq b.confirmedBy
    PROVE  Between(After(kind, w, n), After(kind, a, n), b)
<1>1. After(kind, w, n).status = After(kind, a, n).status
  BY AfterFields
<1>2. After(kind, w, n).assignedTo \in {After(kind, a, n).assignedTo, b.assignedTo}
  BY AfterFields DEF Between
<1>3. After(kind, w, n).extractedBy \in {After(kind, a, n).extractedBy, b.extractedBy}
  BY AfterFields DEF Between
<1>4. After(kind, w, n).confirmedBy = b.confirmedBy
  <2>1. CASE After(kind, w, n).confirmedBy = w.confirmedBy
    BY <2>1 DEF Between
  <2>2. CASE /\ After(kind, w, n).confirmedBy = w.confirmedBy \cup {n}
             /\ After(kind, a, n).confirmedBy = a.confirmedBy \cup {n}
    <3>1. n \in b.confirmedBy
      BY <2>2
    <3>2. b.confirmedBy \cup {n} = b.confirmedBy
      BY <3>1
    <3> QED
      BY <2>2, <3>2 DEF Between
  <2> QED
    BY <2>1, <2>2, AfterFields
<1> QED
  BY <1>1, <1>2, <1>3, <1>4 DEF Between

\* A row that does not add the target keeps its object mixed, one row further on.
LEMMA MixedStep ==
    ASSUME NEW lg, NEW past, Tells(lg, past), NEW t \in Targets,
           NEW k \in 0 .. Len(lg) - 1, ~IsUpsert(lg, k + 1, t),
           NEW w \in Target, Mixed(lg, past, w, t, k)
    PROVE  /\ IsChange(lg, k + 1, t)
                => Mixed(lg, past, After(lg[k + 1].kind, w, lg[k + 1].node), t, k + 1)
           /\ ~IsChange(lg, k + 1, t) => Mixed(lg, past, w, t, k + 1)
<1>0. Len(lg) \in Nat /\ k + 1 \in 1 .. Len(lg) /\ k + 1 \in 0 .. Len(lg) /\ (k + 1) - 1 = k
  BY DEF Tells
<1>1. CASE past[k].targets[t] = <<w>>
  <2>1. CASE IsChange(lg, k + 1, t)
    <3>1. PICK v \in Target :
             /\ past[k].targets[t] = <<v>>
             /\ past[k + 1].targets[t] = <<After(lg[k + 1].kind, v, lg[k + 1].node)>>
      BY <1>0, <2>1, ToldTarget
    <3>2. v = w
      BY <1>1, <3>1
    <3> QED
      BY <2>1, <3>1, <3>2 DEF Mixed
  <2>2. CASE ~IsChange(lg, k + 1, t)
    <3>1. past[k + 1].targets[t] = past[k].targets[t]
      <4>1. past[k + 1].targets[t] = past[(k + 1) - 1].targets[t]
        BY <1>0, <2>2, ToldUntouched
      <4> QED
        BY <1>0, <4>1
    <3> QED
      BY <1>1, <2>2, <3>1 DEF Mixed
  <2> QED
    BY <2>1, <2>2
<1>2. CASE past[k].targets[t] # <<w>>
  <2>1. PICK p \in (k + 1) .. Len(lg) :
          /\ NoUpsert(lg, t, k, p)
          /\ \E a \in Target, b \in Target :
               past[k].targets[t] = <<a>> /\ past[p].targets[t] = <<b>> /\ Between(w, a, b)
    BY <1>2 DEF Mixed
  <2>2. PICK a \in Target, b \in Target :
          past[k].targets[t] = <<a>> /\ past[p].targets[t] = <<b>> /\ Between(w, a, b)
    BY <2>1
  <2>3. NoUpsert(lg, t, k + 1, p) /\ p \in 0 .. Len(lg)
    BY <1>0, <2>1 DEF NoUpsert
  <2>4. ASSUME NEW x \in Target, NEW y \in Target,
               past[k + 1].targets[t] = <<y>>, Between(x, y, b)
        PROVE  Mixed(lg, past, x, t, k + 1)
    <3>1. CASE p = k + 1
      <4>1. y = b
        BY <2>2, <2>4, <3>1
      <4>2. x = b
        BY <2>4, <4>1, BetweenSame
      <4> QED
        BY <2>4, <4>1, <4>2 DEF Mixed
    <3>2. CASE p # k + 1
      <4>1. p \in ((k + 1) + 1) .. Len(lg)
        BY <1>0, <2>1, <3>2
      <4> QED
        BY <2>2, <2>3, <2>4, <4>1 DEF Mixed
    <3> QED
      BY <3>1, <3>2
  <2>5. CASE IsChange(lg, k + 1, t)
    <3>1. PICK v \in Target :
             /\ past[k].targets[t] = <<v>>
             /\ past[k + 1].targets[t] = <<After(lg[k + 1].kind, v, lg[k + 1].node)>>
      BY <1>0, <2>5, ToldTarget
    <3>2. v = a
      BY <2>2, <3>1
    <3>3. lg[k + 1].kind \in TargetKinds /\ lg[k + 1].node \in Nodes
      BY <1>0, <2>5, ToldTarget, RowFacts DEF IsChange
    <3> DEFINE a2 == After(lg[k + 1].kind, a, lg[k + 1].node)
               w2 == After(lg[k + 1].kind, w, lg[k + 1].node)
    <3>4. a2 \in Target /\ w2 \in Target
      BY <3>3, AfterFacts
    <3>5. past[k + 1].targets[t] = <<a2>>
      BY <3>1, <3>2
    <3> HIDE DEF a2, w2
    <3>6. PICK u \in Target : past[p].targets[t] = <<u>> /\ a2.confirmedBy \subseteq u.confirmedBy
      <4>1. k + 1 <= p
        BY <2>1
      <4> QED
        BY <1>0, <2>3, <3>4, <3>5, <4>1, EpochGrows
    <3>7. u = b
      BY <2>2, <3>6
    <3>8. Between(w2, a2, b)
      BY <2>2, <3>3, <3>6, <3>7, BetweenAfter DEF a2, w2
    <3>9. Mixed(lg, past, w2, t, k + 1)
      BY <2>4, <3>4, <3>5, <3>8
    <3> QED
      BY <2>5, <3>9 DEF w2
  <2>6. CASE ~IsChange(lg, k + 1, t)
    <3>1. past[k + 1].targets[t] = <<a>>
      BY <1>0, <2>2, <2>6, ToldTarget
    <3> QED
      BY <2>2, <2>4, <2>6, <3>1
  <2> QED
    BY <2>5, <2>6
<1> QED
  BY <1>1, <1>2
-------------------------------------------------------------------------------
(* The context that replay works on. *)

Context ==
    [heap: Seq(Target), targets: [Targets -> Nat], phase: Phases \cup {"init"}, version: Nat]

\* w may stand in for object o wherever o stood for t.
Kept(hp, lg, past, birth, o, t, w) ==
    \/ w = hp[o]
    \/ \A q \in 0 .. Len(lg) : OfTarget(lg, birth, o, t, q) => Shows(lg, past, w, t, q)

\* The targets of the context after row k: a target refers to an object it has at that
\* row, which is on its way to what it was (or to none if the context was blank); objects that are yet to come are untouched,
\* and those that have been replaced may stand in for what they were.
RebuiltTargets(bl, hp, lg, past, birth, ctx, k) ==
    /\ \A t \in Targets : past[k].targets[t] # <<>> =>
         \/ bl /\ ctx.targets[t] = Unknown
         \/ /\ OfTarget(lg, birth, ctx.targets[t], t, k)
            /\ Mixed(lg, past, ctx.heap[ctx.targets[t]], t, k)
    /\ \A t \in Targets : past[k].targets[t] = <<>> =>
         ctx.targets[t] = Unknown \/ past[Len(lg)].targets[t] # <<>>
    /\ \A o \in 1 .. Len(hp) : birth[o] > k => ctx.heap[o] = hp[o]
    /\ \A o \in 1 .. Len(hp), t \in Targets :
         IsUpsert(lg, birth[o], t) /\ birth[o] <= k /\ o # ctx.targets[t]
           => Kept(hp, lg, past, birth, o, t, ctx.heap[o])

\* Its phase was the mission's at row k, or still is that of row z, where the context
\* replay started from was made, or none.  Its version counts the phases up to row k.
RebuiltPhase(bl, past, ctx, z, counts, k) ==
    /\ \/ ctx.phase = past[k].phase
       \/ k < z /\ ctx.phase = past[z].phase
       \/ bl /\ ctx.phase = "init"
    /\ counts => ctx.version = past[k].version

Rebuilt(bl, hp, lg, past, birth, ctx, z, counts, k) ==
    /\ ctx \in Context
    /\ Len(ctx.heap) = Len(hp)
    /\ RebuiltTargets(bl, hp, lg, past, birth, ctx, k)
    /\ RebuiltPhase(bl, past, ctx, z, counts, k)

\* What a row does to the context.
LEMMA ApplyFacts ==
    ASSUME NEW ctx \in Context, NEW row \in Row
    PROVE  /\ row.kind = "target_upsert" => applyLedgerEvent(ctx, row) =
                [heap |-> ctx.heap, targets |-> [ctx.targets EXCEPT ![row.target] = row.object],
                 phase |-> ctx.phase, version |-> ctx.version]
           /\ row.kind \in TargetKinds /\ ctx.targets[row.target] # Unknown =>
                applyLedgerEvent(ctx, row) =
                  [heap |-> [ctx.heap EXCEPT ![ctx.targets[row.target]] =
                               After(row.kind, ctx.heap[ctx.targets[row.target]], row.node)],
                   targets |-> ctx.targets, phase |-> ctx.phase, version |-> ctx.version]
           /\ row.kind = "phase_transition_commit" => applyLedgerEvent(ctx, row) =
                [heap |-> ctx.heap, targets |-> ctx.targets,
                 phase |-> row.to, version |-> ctx.version + 1]
           /\ row.kind \in TargetKinds /\ ctx.targets[row.target] = Unknown =>
                applyLedgerEvent(ctx, row) = ctx
           /\ row.kind \in {"other", "foreign"} => applyLedgerEvent(ctx, row) = ctx
<1>1. ASSUME row.kind = "target_upsert"
      PROVE  applyLedgerEvent(ctx, row) =
                [heap |-> ctx.heap, targets |-> [ctx.targets EXCEPT ![row.target] = row.object],
                 phase |-> ctx.phase, version |-> ctx.version]
  BY <1>1 DEF applyLedgerEvent, Context, TargetKinds
<1>2. ASSUME row.kind \in TargetKinds, ctx.targets[row.target] # Unknown
      PROVE  applyLedgerEvent(ctx, row) =
                  [heap |-> [ctx.heap EXCEPT ![ctx.targets[row.target]] =
                               After(row.kind, ctx.heap[ctx.targets[row.target]], row.node)],
                   targets |-> ctx.targets, phase |-> ctx.phase, version |-> ctx.version]
  BY <1>2 DEF applyLedgerEvent, Context, TargetKinds
<1>3. ASSUME row.kind = "phase_transition_commit"
      PROVE  applyLedgerEvent(ctx, row) =
                [heap |-> ctx.heap, targets |-> ctx.targets,
                 phase |-> row.to, version |-> ctx.version + 1]
  BY <1>3 DEF applyLedgerEvent, Context, TargetKinds
<1>4. ASSUME row.kind \in {"other", "foreign"}
      PROVE  applyLedgerEvent(ctx, row) = ctx
  BY <1>4 DEF applyLedgerEvent, TargetKinds
<1>5. ASSUME row.kind \in TargetKinds, ctx.targets[row.target] = Unknown
      PROVE  applyLedgerEvent(ctx, row) = ctx
  BY <1>5 DEF applyLedgerEvent, TargetKinds
<1> QED
  BY <1>1, <1>2, <1>3, <1>4, <1>5

\* An object the context leaves for a new one has been brought to what it was.
LEMMA DepartedKept ==
    ASSUME NEW hp, NEW lg, NEW past, NEW birth, Tells(lg, past),
           Objects(hp, lg, past, birth), NEW t \in Targets, NEW k \in 0 .. Len(lg),
           k = Len(lg) \/ IsUpsert(lg, k + 1, t),
           NEW o, OfTarget(lg, birth, o, t, k), NEW w, Mixed(lg, past, w, t, k)
    PROVE  /\ past[k].targets[t] = <<w>>
           /\ Kept(hp, lg, past, birth, o, t, w)
<1>0. Len(lg) \in Nat
  BY DEF Tells
<1>1. past[k].targets[t] = <<w>>
  <2>1. ASSUME NEW p \in (k + 1) .. Len(lg), NoUpsert(lg, t, k, p) PROVE FALSE
    <3>1. k + 1 \in (k + 1) .. p /\ k # Len(lg)
      BY <1>0
    <3> QED
      BY <2>1, <3>1 DEF NoUpsert
  <2> QED
    BY <2>1 DEF Mixed
<1>2. ASSUME NEW q \in 0 .. Len(lg), OfTarget(lg, birth, o, t, q)
      PROVE  Shows(lg, past, w, t, q)
  <2>1. birth[o] \in 1 .. Len(lg) /\ birth[o] <= k /\ birth[o] <= q
    BY <1>2 DEF OfTarget, Objects
  <2>2. q <= k
    <3> SUFFICES ASSUME q > k PROVE FALSE
      BY <1>0
    <3>1. k + 1 \in (birth[o] + 1) .. q /\ k # Len(lg)
      BY <1>0, <2>1
    <3> QED
      BY <1>2, <3>1 DEF OfTarget, NoUpsert
  <2>3. NoUpsert(lg, t, q, k)
    <3>1. (q + 1) .. k \subseteq (birth[o] + 1) .. k
      BY <1>0, <2>1
    <3> QED
      BY <3>1 DEF OfTarget, NoUpsert
  <2>4. k \in q .. Len(lg)
    BY <1>0, <2>2
  <2> QED
    BY <1>1, <2>3, <2>4 DEF Shows
<1> QED
  BY <1>1, <1>2 DEF Kept

\* An object is of one target.
LEMMA OneTarget ==
    ASSUME NEW lg, NEW k, NEW t, NEW u, IsUpsert(lg, k, t), IsUpsert(lg, k, u)
    PROVE  t = u
BY DEF IsUpsert

\* A row that does not add the target lets its object be.
LEMMA OfTargetStep ==
    ASSUME NEW lg, NEW birth, NEW o, NEW t, NEW k \in Nat, OfTarget(lg, birth, o, t, k),
           birth[o] \in Nat, ~IsUpsert(lg, k + 1, t)
    PROVE  OfTarget(lg, birth, o, t, k + 1)
<1>1. \A i \in (birth[o] + 1) .. (k + 1) : i \in (birth[o] + 1) .. k \/ i = k + 1
  OBVIOUS
<1> QED
  BY <1>1 DEF OfTarget, NoUpsert

\* A row that adds target t0: the context takes over the row's object.
LEMMA RoundUpsert ==
    ASSUME NEW bl, NEW hp, NEW lg, NEW past, NEW birth,
           Tells(lg, past), Objects(hp, lg, past, birth),
           NEW k \in 0 .. Len(lg) - 1, NEW ctx \in Context, Len(ctx.heap) = Len(hp),
           RebuiltTargets(bl, hp, lg, past, birth, ctx, k),
           NEW t0 \in Targets, IsUpsert(lg, k + 1, t0), NEW after \in Context,
           after.heap = ctx.heap,
           after.targets = [ctx.targets EXCEPT ![t0] = lg[k + 1].object]
    PROVE  RebuiltTargets(bl, hp, lg, past, birth, after, k + 1)
<1>0. /\ Len(lg) \in Nat /\ k + 1 \in 1 .. Len(lg) /\ k + 1 \in 0 .. Len(lg)
      /\ (k + 1) - 1 = k /\ k \in 0 .. Len(lg) /\ k \in Nat
  BY DEF Tells
<1> DEFINE o0 == lg[k + 1].object
<1>1. o0 \in 1 .. Len(hp) /\ birth[o0] = k + 1 /\ DOMAIN birth = 1 .. Len(hp)
  BY <1>0 DEF Objects, IsUpsert
<1>2. \A o \in 1 .. Len(hp) : birth[o] \in 1 .. Len(lg)
  BY DEF Objects
<1>3. \A o \in 1 .. Len(hp) : birth[o] > k => ctx.heap[o] = hp[o]
  BY DEF RebuiltTargets
<1>4. after.targets[t0] = o0 /\ \A t \in Targets : t # t0 => after.targets[t] = ctx.targets[t]
  BY DEF Context
<1> HIDE DEF o0
<1>5. \A t \in Targets : t # t0 => ~IsUpsert(lg, k + 1, t) /\ ~IsChange(lg, k + 1, t)
  BY DEF IsUpsert, IsChange, TargetKinds
<1>6. \A t \in Targets : t # t0 => past[k + 1].targets[t] = past[k].targets[t]
  <2> SUFFICES ASSUME NEW t \in Targets, t # t0
               PROVE  past[k + 1].targets[t] = past[(k + 1) - 1].targets[t]
    BY <1>0
  <2> QED
    BY <1>0, <1>5, ToldUntouched
<1>7. past[k + 1].targets[t0] = <<NewTarget>> /\ past[k + 1].targets[t0] # <<>>
  BY <1>0, ToldUpsert
<1>8. ASSUME NEW t \in Targets, past[k + 1].targets[t] # <<>>
      PROVE  \/ bl /\ after.targets[t] = Unknown
             \/ /\ OfTarget(lg, birth, after.targets[t], t, k + 1)
                /\ Mixed(lg, past, after.heap[after.targets[t]], t, k + 1)
  <2>1. CASE t = t0
    <3>1. OfTarget(lg, birth, o0, t0, k + 1)
      BY <1>0, <1>1 DEF OfTarget, NoUpsert
    <3>2. PICK u \in Targets :
             IsUpsert(lg, birth[o0], u) /\ Shows(lg, past, hp[o0], u, birth[o0])
      BY <1>1 DEF Objects
    <3>3. u = t0
      BY <1>1, <3>2, OneTarget
    <3>4. PICK p \in (k + 1) .. Len(lg) :
             NoUpsert(lg, t0, k + 1, p) /\ past[p].targets[t0] = <<hp[o0]>>
      BY <1>1, <3>2, <3>3 DEF Shows
    <3>5. hp[o0] \in Target /\ NewTarget \in Target
      <4>1. hp[o0] \in Target
        BY <1>1 DEF Objects
      <4>2. NewTarget \in Target
        BY DEF NewTarget, Target
      <4> QED
        BY <4>1, <4>2
    <3>6. Mixed(lg, past, hp[o0], t0, k + 1)
      <4>1. CASE p = k + 1
        BY <3>4, <4>1 DEF Mixed
      <4>2. CASE p # k + 1
        <5>1. p \in ((k + 1) + 1) .. Len(lg) /\ k + 1 <= p /\ p \in 0 .. Len(lg)
          BY <1>0, <4>2
        <5>2. PICK b \in Target : /\ past[p].targets[t0] = <<b>>
                                  /\ NewTarget.confirmedBy \subseteq b.confirmedBy
          <6> DEFINE v == NewTarget
          <6>1. v \in Target /\ past[k + 1].targets[t0] = <<v>>
            BY <1>7, <3>5
          <6> HIDE DEF v
          <6>2. \E b \in Target : past[p].targets[t0] = <<b>> /\ v.confirmedBy \subseteq b.confirmedBy
            BY <1>0, <3>4, <5>1, <6>1, EpochGrows
          <6> QED
            BY <6>2 DEF v
        <5>3. b = hp[o0]
          BY <3>4, <5>2
        <5>4. Between(hp[o0], NewTarget, hp[o0])
          BY DEF Between
        <5> QED
          BY <1>7, <3>4, <3>5, <5>1, <5>4 DEF Mixed
      <4> QED
        BY <4>1, <4>2
    <3>7. after.heap[after.targets[t]] = hp[o0]
      BY <1>0, <1>1, <1>3, <1>4, <2>1
    <3> QED
      BY <1>4, <2>1, <3>1, <3>6, <3>7
  <2>2. CASE t # t0
    <3>0. CASE bl /\ ctx.targets[t] = Unknown
      BY <1>4, <2>2, <3>0
    <3> SUFFICES ASSUME ~(bl /\ ctx.targets[t] = Unknown)
                 PROVE  /\ OfTarget(lg, birth, after.targets[t], t, k + 1)
                        /\ Mixed(lg, past, after.heap[after.targets[t]], t, k + 1)
      BY <3>0
    <3>1. /\ OfTarget(lg, birth, ctx.targets[t], t, k)
          /\ Mixed(lg, past, ctx.heap[ctx.targets[t]], t, k)
      BY <1>6, <1>8, <2>2 DEF RebuiltTargets
    <3>2. birth[ctx.targets[t]] \in Nat /\ ctx.heap[ctx.targets[t]] \in Target
      <4>1. ctx.targets[t] \in 1 .. Len(hp)
        BY <1>1, <3>1 DEF OfTarget
      <4> QED
        BY <1>2, <4>1 DEF Context
    <3>3. OfTarget(lg, birth, ctx.targets[t], t, k + 1)
      BY <1>0, <1>5, <2>2, <3>1, <3>2, OfTargetStep
    <3>4. Mixed(lg, past, ctx.heap[ctx.targets[t]], t, k + 1)
      BY <1>5, <2>2, <3>1, <3>2, MixedStep
    <3> QED
      BY <1>4, <2>2, <3>3, <3>4
  <2> QED
    BY <2>1, <2>2
<1>9. ASSUME NEW t \in Targets, past[k + 1].targets[t] = <<>>
      PROVE  after.targets[t] = Unknown \/ past[Len(lg)].targets[t] # <<>>
  <2>1. t # t0
    BY <1>7, <1>9
  <2> QED
    BY <1>4, <1>6, <1>9, <2>1 DEF RebuiltTargets
<1>10. ASSUME NEW o \in 1 .. Len(hp), birth[o] > k + 1 PROVE after.heap[o] = hp[o]
  <2>1. birth[o] > k
    BY <1>0, <1>2, <1>10
  <2> QED
    BY <1>3, <2>1
<1>11. ASSUME NEW o \in 1 .. Len(hp), NEW t \in Targets,
              IsUpsert(lg, birth[o], t), birth[o] <= k + 1, o # after.targets[t]
       PROVE  Kept(hp, lg, past, birth, o, t, after.heap[o])
  <2>1. CASE birth[o] > k
    BY <1>3, <2>1 DEF Kept
  <2>2. CASE birth[o] <= k /\ o # ctx.targets[t]
    BY <1>11, <2>2 DEF RebuiltTargets
  <2>3. CASE birth[o] <= k /\ o = ctx.targets[t]
    <3>1. t = t0
      BY <1>4, <1>11, <2>3
    <3>2. birth[o] \in 1 .. Len(lg) /\ birth[o] \in 0 .. Len(lg)
      BY <1>2
    <3>3. past[birth[o]].targets[t] # <<>>
      BY <1>11, <3>2, ToldUpsert
    <3>4. past[k].targets[t] # <<>>
      BY <1>0, <2>3, <3>2, <3>3, KnownStays
    <3>5. OfTarget(lg, birth, o, t, k) /\ Mixed(lg, past, ctx.heap[o], t, k)
      BY <2>3, <3>4 DEF RebuiltTargets, Unknown
    <3> QED
      BY <1>0, <3>1, <3>5, DepartedKept
  <2> QED
    BY <1>0, <1>2, <2>1, <2>2, <2>3
<1> QED
  BY <1>8, <1>9, <1>10, <1>11 DEF RebuiltTargets

\* A row that changes target t0: the context's object is changed where it is.
LEMMA RoundChange ==
    ASSUME NEW bl, NEW hp, NEW lg, NEW past, NEW birth,
           Tells(lg, past), Objects(hp, lg, past, birth),
           NEW k \in 0 .. Len(lg) - 1, NEW ctx \in Context, Len(ctx.heap) = Len(hp),
           RebuiltTargets(bl, hp, lg, past, birth, ctx, k),
           NEW t0 \in Targets, IsChange(lg, k + 1, t0), ctx.targets[t0] # Unknown,
           NEW after \in Context,
           after.heap = [ctx.heap EXCEPT ![ctx.targets[t0]] =
                           After(lg[k + 1].kind, ctx.heap[ctx.targets[t0]], lg[k + 1].node)],
           after.targets = ctx.targets
    PROVE  RebuiltTargets(bl, hp, lg, past, birth, after, k + 1)
<1>0. /\ Len(lg) \in Nat /\ k + 1 \in 1 .. Len(lg) /\ k + 1 \in 0 .. Len(lg)
      /\ (k + 1) - 1 = k /\ k \in 0 .. Len(lg) /\ k \in Nat
  <2>1. Len(lg) \in Nat
    BY DEF Tells
  <2> QED
    BY <2>1
<1> DEFINE o0 == ctx.targets[t0]
           w0 == After(lg[k + 1].kind, ctx.heap[o0], lg[k + 1].node)
<1>1. DOMAIN birth = 1 .. Len(hp) /\ \A o \in 1 .. Len(hp) : birth[o] \in 1 .. Len(lg)
  BY DEF Objects
<1>2. \A t \in Targets : ~IsUpsert(lg, k + 1, t) /\ (t # t0 => ~IsChange(lg, k + 1, t))
  BY DEF IsUpsert, IsChange, TargetKinds
<1>3. past[k].targets[t0] # <<>>
  BY <1>0 DEF Tells
<1>4. OfTarget(lg, birth, o0, t0, k) /\ Mixed(lg, past, ctx.heap[o0], t0, k)
  BY <1>3 DEF RebuiltTargets
<1>5. /\ o0 \in 1 .. Len(hp) /\ birth[o0] <= k /\ IsUpsert(lg, birth[o0], t0)
      /\ ctx.heap[o0] \in Target
  <2>1. o0 \in 1 .. Len(hp) /\ birth[o0] <= k /\ IsUpsert(lg, birth[o0], t0)
    BY <1>1, <1>4 DEF OfTarget
  <2> QED
    BY <2>1 DEF Context
<1>6. after.heap[o0] = w0 /\ \A o \in 1 .. Len(hp) : o # o0 => after.heap[o] = ctx.heap[o]
  BY <1>5 DEF Context
<1> HIDE DEF o0, w0
<1>7. ASSUME NEW t \in Targets, past[k + 1].targets[t] # <<>>
      PROVE  \/ bl /\ after.targets[t] = Unknown
             \/ /\ OfTarget(lg, birth, after.targets[t], t, k + 1)
                /\ Mixed(lg, past, after.heap[after.targets[t]], t, k + 1)
  <2>1. CASE t = t0
    <3>1. OfTarget(lg, birth, o0, t0, k + 1)
      BY <1>0, <1>1, <1>2, <1>4, <1>5, OfTargetStep
    <3>2. Mixed(lg, past, w0, t0, k + 1)
      BY <1>2, <1>4, <1>5, MixedStep DEF w0
    <3> QED
      BY <1>6, <2>1, <3>1, <3>2 DEF o0
  <2>2. CASE t # t0
    <3>0. past[k + 1].targets[t] = past[k].targets[t]
      <4>1. past[k + 1].targets[t] = past[(k + 1) - 1].targets[t]
        BY <1>0, <1>2, <2>2, ToldUntouched
      <4> QED
        BY <1>0, <4>1
    <3>7. CASE bl /\ ctx.targets[t] = Unknown
      BY <3>7
    <3> SUFFICES ASSUME ~(bl /\ ctx.targets[t] = Unknown)
                 PROVE  /\ OfTarget(lg, birth, after.targets[t], t, k + 1)
                        /\ Mixed(lg, past, after.heap[after.targets[t]], t, k + 1)
      BY <3>7
    <3>1. /\ OfTarget(lg, birth, ctx.targets[t], t, k)
          /\ Mixed(lg, past, ctx.heap[ctx.targets[t]], t, k)
      BY <1>7, <3>0 DEF RebuiltTargets
    <3>2. ctx.targets[t] \in 1 .. Len(hp) /\ IsUpsert(lg, birth[ctx.targets[t]], t)
      BY <1>1, <3>1 DEF OfTarget
    <3>3. birth[ctx.targets[t]] \in Nat /\ ctx.heap[ctx.targets[t]] \in Target
      BY <1>1, <3>2 DEF Context
    <3>4. ctx.targets[t] # o0
      BY <1>5, <2>2, <3>2, OneTarget
    <3>5. OfTarget(lg, birth, ctx.targets[t], t, k + 1)
      BY <1>0, <1>2, <3>1, <3>3, OfTargetStep
    <3>6. Mixed(lg, past, ctx.heap[ctx.targets[t]], t, k + 1)
      BY <1>2, <2>2, <3>1, <3>3, MixedStep
    <3> QED
      BY <1>6, <3>2, <3>4, <3>5, <3>6
  <2> QED
    BY <2>1, <2>2
<1>8. ASSUME NEW t \in Targets, past[k + 1].targets[t] = <<>>
      PROVE  after.targets[t] = Unknown \/ past[Len(lg)].targets[t] # <<>>
  <2>1. past[k].targets[t] = <<>>
    BY <1>0, <1>8, KnownStays
  <2> QED
    BY <2>1 DEF RebuiltTargets
<1>9. ASSUME NEW o \in 1 .. Len(hp), birth[o] > k + 1 PROVE after.heap[o] = hp[o]
  <2>1. birth[o] > k /\ o # o0
    BY <1>0, <1>1, <1>5, <1>9
  <2> QED
    BY <1>6, <2>1 DEF RebuiltTargets
<1>10. ASSUME NEW o \in 1 .. Len(hp), NEW t \in Targets,
              IsUpsert(lg, birth[o], t), birth[o] <= k + 1, o # after.targets[t]
       PROVE  Kept(hp, lg, past, birth, o, t, after.heap[o])
  <2>1. birth[o] <= k
    <3>1. birth[o] # k + 1
      BY <1>2, <1>10
    <3> QED
      BY <1>0, <1>1, <1>10, <3>1
  <2>2. o # o0
    BY <1>5, <1>10, OneTarget DEF o0
  <2> QED
    BY <1>6, <1>10, <2>1, <2>2 DEF RebuiltTargets
<1> QED
  BY <1>7, <1>8, <1>9, <1>10 DEF RebuiltTargets

\* A row about no target, or that changes one the context does not know.
LEMMA RoundOther ==
    ASSUME NEW bl, NEW hp, NEW lg, NEW past, NEW birth,
           Tells(lg, past), Objects(hp, lg, past, birth),
           NEW k \in 0 .. Len(lg) - 1, NEW ctx \in Context, Len(ctx.heap) = Len(hp),
           RebuiltTargets(bl, hp, lg, past, birth, ctx, k),
           \A t \in Targets : /\ ~IsUpsert(lg, k + 1, t)
                              /\ IsChange(lg, k + 1, t) => ctx.targets[t] = Unknown,
           NEW after, after.heap = ctx.heap, after.targets = ctx.targets
    PROVE  RebuiltTargets(bl, hp, lg, past, birth, after, k + 1)
<1>0. /\ Len(lg) \in Nat /\ k + 1 \in 1 .. Len(lg) /\ (k + 1) - 1 = k /\ k \in Nat
  BY DEF Tells
<1>1. DOMAIN birth = 1 .. Len(hp) /\ \A o \in 1 .. Len(hp) : birth[o] \in 1 .. Len(lg)
  BY DEF Objects
<1>2. \A t \in Targets : /\ past[k + 1].targets[t] # <<>> => past[k].targets[t] # <<>>
                         /\ past[k + 1].targets[t] = <<>> => past[k].targets[t] = <<>>
  <2> SUFFICES ASSUME NEW t \in Targets
               PROVE  /\ past[k + 1].targets[t] # <<>> => past[(k + 1) - 1].targets[t] # <<>>
                      /\ past[k + 1].targets[t] = <<>> => past[(k + 1) - 1].targets[t] = <<>>
    BY <1>0
  <2>1. CASE IsChange(lg, k + 1, t)
    <3>1. past[(k + 1) - 1].targets[t] # <<>>
      BY <1>0, <2>1 DEF Tells
    <3>2. k \in 0 .. Len(lg) /\ k + 1 \in 0 .. Len(lg) /\ k <= k + 1
      BY <1>0
    <3>3. past[k].targets[t] # <<>> => past[k + 1].targets[t] # <<>>
      BY <3>2, KnownStays
    <3> QED
      BY <1>0, <3>1, <3>3
  <2>2. CASE ~IsChange(lg, k + 1, t)
    BY <1>0, <2>2, ToldUntouched
  <2> QED
    BY <2>1, <2>2
<1>3. ASSUME NEW t \in Targets, past[k + 1].targets[t] # <<>>
      PROVE  \/ bl /\ ctx.targets[t] = Unknown
             \/ /\ OfTarget(lg, birth, ctx.targets[t], t, k + 1)
                /\ Mixed(lg, past, ctx.heap[ctx.targets[t]], t, k + 1)
  <2>0. CASE bl /\ ctx.targets[t] = Unknown
    BY <2>0
  <2> SUFFICES ASSUME ~(bl /\ ctx.targets[t] = Unknown)
               PROVE  /\ OfTarget(lg, birth, ctx.targets[t], t, k + 1)
                      /\ Mixed(lg, past, ctx.heap[ctx.targets[t]], t, k + 1)
    BY <2>0
  <2>1. /\ OfTarget(lg, birth, ctx.targets[t], t, k)
        /\ Mixed(lg, past, ctx.heap[ctx.targets[t]], t, k)
    BY <1>2, <1>3 DEF RebuiltTargets
  <2>2. birth[ctx.targets[t]] \in Nat /\ ctx.heap[ctx.targets[t]] \in Target
    <3>1. ctx.targets[t] \in 1 .. Len(hp)
      BY <1>1, <2>1 DEF OfTarget
    <3> QED
      BY <1>1, <3>1 DEF Context
  <2>3. OfTarget(lg, birth, ctx.targets[t], t, k + 1)
    BY <1>0, <2>1, <2>2, OfTargetStep
  <2>4. Mixed(lg, past, ctx.heap[ctx.targets[t]], t, k + 1)
    <3>1. ctx.targets[t] # Unknown
      BY <1>1, <2>1 DEF OfTarget, Unknown
    <3> QED
      BY <2>1, <2>2, <3>1, MixedStep
  <2> QED
    BY <2>3, <2>4
<1>4. ASSUME NEW o \in 1 .. Len(hp), birth[o] > k + 1 PROVE after.heap[o] = hp[o]
  <2>1. birth[o] > k
    BY <1>0, <1>1, <1>4
  <2> QED
    BY <2>1 DEF RebuiltTargets
<1>5. ASSUME NEW o \in 1 .. Len(hp), NEW t \in Targets,
             IsUpsert(lg, birth[o], t), birth[o] <= k + 1, o # ctx.targets[t]
      PROVE  Kept(hp, lg, past, birth, o, t, ctx.heap[o])
  <2>1. birth[o] <= k
    <3>1. birth[o] # k + 1
      BY <1>5
    <3> QED
      BY <1>0, <1>1, <1>5, <3>1
  <2> QED
    BY <1>5, <2>1 DEF RebuiltTargets
<1>6. \A t \in Targets : past[k + 1].targets[t] = <<>> =>
         ctx.targets[t] = Unknown \/ past[Len(lg)].targets[t] # <<>>
  BY <1>2 DEF RebuiltTargets
<1> QED
  BY <1>3, <1>4, <1>5, <1>6 DEF RebuiltTargets
-------------------------------------------------------------------------------
(* The replay loop. *)

\* One round of the loop.
Replayed(ctx, i, rows) == IF i \in rows THEN applyLedgerEvent(ctx, ledger[i]) ELSE ctx

\* The loop of restore runs: before the first row the context is what it starts from,
\* and each row takes it on from where the row before it left it.
LEMMA LoopRuns ==
    ASSUME NEW start, NEW rows, Len(ledger) \in Nat
    PROVE  /\ ReplayFrom(start, rows)[0] = start
           /\ \A i \in 1 .. Len(ledger) :
                ReplayFrom(start, rows)[i] = Replayed(ReplayFrom(start, rows)[i - 1], i, rows)
<1> DEFINE n == Len(ledger)
           Run(f, k) == f = [i \in 0 .. k |-> IF i = 0 THEN start ELSE Replayed(f[i - 1], i, rows)]
           Bad == {k \in 0 .. n : \A f : ~Run(f, k)}
<1>1. Bad = {}
  <2> SUFFICES ASSUME Bad # {} PROVE FALSE
    OBVIOUS
  <2>1. PICK k \in Bad : \A m \in Bad : k <= m
    <3>1. Bad \subseteq Nat
      OBVIOUS
    <3> HIDE DEF Bad
    <3> QED
      BY <3>1, LeastNat
  <2>2. CASE k = 0
    <3> DEFINE f == [i \in 0 .. 0 |-> start]
    <3>1. Run(f, 0)
      OBVIOUS
    <3> QED
      BY <2>1, <2>2, <3>1
  <2>3. CASE k # 0
    <3>1. k - 1 \in 0 .. n /\ k - 1 \notin Bad
      BY <2>1, <2>3
    <3>2. PICK f : Run(f, k - 1)
      BY <3>1
    <3> DEFINE g == [i \in 0 .. k |-> IF i = k THEN Replayed(f[k - 1], k, rows) ELSE f[i]]
    <3>3. \A i \in 0 .. k : g[i] = IF i = 0 THEN start ELSE Replayed(g[i - 1], i, rows)
      <4> SUFFICES ASSUME NEW i \in 0 .. k
                   PROVE  g[i] = IF i = 0 THEN start ELSE Replayed(g[i - 1], i, rows)
        OBVIOUS
      <4>1. CASE i = k
        BY <2>3, <4>1
      <4>2. CASE i # k
        <5>1. i \in 0 .. k - 1 /\ g[i] = f[i] /\ (i # 0 => g[i - 1] = f[i - 1])
          BY <4>2
        <5>2. f[i] = IF i = 0 THEN start ELSE Replayed(f[i - 1], i, rows)
          BY <3>2, <5>1
        <5> QED
          BY <5>1, <5>2
      <4> QED
        BY <4>1, <4>2
    <3>4. Run(g, k)
      <4>1. g = [i \in 0 .. k |-> g[i]]
        OBVIOUS
      <4> HIDE DEF g
      <4> QED
        BY <3>3, <4>1
    <3> QED
      BY <2>1, <3>4
  <2> QED
    BY <2>2, <2>3
<1>2. \E f : Run(f, n)
  BY <1>1
<1>3. Run(ReplayFrom(start, rows), n)
  BY <1>2 DEF ReplayFrom, Replayed
<1> HIDE DEF Replayed
<1>4. \A i \in 0 .. n : ReplayFrom(start, rows)[i] =
         IF i = 0 THEN start ELSE Replayed(ReplayFrom(start, rows)[i - 1], i, rows)
  BY <1>3
<1> QED
  BY <1>4

\* One round of the loop.
LEMMA Round ==
    ASSUME NEW bl, NEW hp, NEW lg, NEW past, NEW birth,
           Tells(lg, past), Objects(hp, lg, past, birth),
           NEW k \in 0 .. Len(lg) - 1, NEW ctx, NEW z \in 0 .. Len(lg), NEW counts,
           Rebuilt(bl, hp, lg, past, birth, ctx, z, counts, k)
    PROVE  Rebuilt(bl, hp, lg, past, birth, applyLedgerEvent(ctx, lg[k + 1]), z, counts, k + 1)
<1>0. /\ Len(lg) \in Nat /\ k + 1 \in 1 .. Len(lg) /\ (k + 1) - 1 = k
      /\ lg[k + 1] \in Row
  BY DEF Tells
<1>1. /\ ctx \in Context /\ Len(ctx.heap) = Len(hp)
      /\ RebuiltTargets(bl, hp, lg, past, birth, ctx, k) /\ RebuiltPhase(bl, past, ctx, z, counts, k)
  BY DEF Rebuilt
<1> DEFINE after == applyLedgerEvent(ctx, lg[k + 1])
<1>2. past[k + 1] = Told(lg, past[k], k + 1)
  BY <1>0 DEF Tells
<1>3. CASE lg[k + 1].kind = "target_upsert"
  <2>1. lg[k + 1].target \in Targets /\ lg[k + 1].object \in Nat
    BY <1>0, <1>3, RowFacts
  <2>2. after = [heap |-> ctx.heap,
                 targets |-> [ctx.targets EXCEPT ![lg[k + 1].target] = lg[k + 1].object],
                 phase |-> ctx.phase, version |-> ctx.version]
    BY <1>0, <1>1, <1>3, ApplyFacts
  <2> HIDE DEF after
  <2>3. after \in Context /\ Len(after.heap) = Len(hp)
    BY <1>1, <2>1, <2>2 DEF Context
  <2>4. RebuiltTargets(bl, hp, lg, past, birth, after, k + 1)
    BY <1>1, <1>3, <2>1, <2>2, <2>3, RoundUpsert DEF IsUpsert
  <2>5. RebuiltPhase(bl, past, after, z, counts, k + 1)
    <3>1. after.phase = ctx.phase /\ after.version = ctx.version
      BY <2>2
    <3>2. past[k + 1].phase = past[k].phase /\ past[k + 1].version = past[k].version
      BY <1>2, <1>3 DEF Told
    <3> QED
      BY <1>1, <3>1, <3>2 DEF RebuiltPhase
  <2> QED
    BY <2>3, <2>4, <2>5 DEF Rebuilt, after
<1>4. CASE lg[k + 1].kind \in TargetKinds /\ ctx.targets[lg[k + 1].target] # Unknown
  <2> DEFINE t0 == lg[k + 1].target
             o0 == ctx.targets[t0]
             w0 == After(lg[k + 1].kind, ctx.heap[o0], lg[k + 1].node)
  <2>1. t0 \in Targets /\ lg[k + 1].node \in Nodes /\ IsChange(lg, k + 1, t0)
    BY <1>0, <1>4, RowFacts DEF IsChange
  <2>2. past[k].targets[t0] # <<>>
    BY <1>0, <2>1 DEF Tells
  <2>3. o0 \in 1 .. Len(hp)
    BY <1>1, <1>4, <2>1, <2>2 DEF RebuiltTargets, OfTarget, Objects
  <2>4. o0 # Unknown
    BY <1>4
  <2>5. after = [heap |-> [ctx.heap EXCEPT ![o0] = w0],
                 targets |-> ctx.targets, phase |-> ctx.phase, version |-> ctx.version]
    BY <1>0, <1>1, <1>4, <2>4, ApplyFacts
  <2>6. ctx.heap \in Seq(Target) /\ o0 \in 1 .. Len(ctx.heap) /\ ctx.heap[o0] \in Target
    BY <1>1, <2>3 DEF Context
  <2>7. w0 \in Target
    BY <1>4, <2>1, <2>6, AfterFacts
  <2> HIDE DEF after, w0, o0
  <2>8. after \in Context /\ Len(after.heap) = Len(hp)
    <3>1. [ctx.heap EXCEPT ![o0] = w0] \in Seq(Target)
      BY <2>6, <2>7, ExceptSeq
    <3>2. Len([ctx.heap EXCEPT ![o0] = w0]) = Len(ctx.heap)
      BY <2>6, <2>7, ExceptSeq
    <3> QED
      BY <1>1, <2>5, <3>1, <3>2 DEF Context
  <2>9. after.heap = [ctx.heap EXCEPT ![o0] = w0] /\ after.targets = ctx.targets
    BY <2>5
  <2>10. RebuiltTargets(bl, hp, lg, past, birth, after, k + 1)
    BY <1>1, <2>1, <2>4, <2>8, <2>9, RoundChange DEF o0, w0
  <2>11. RebuiltPhase(bl, past, after, z, counts, k + 1)
    <3>1. after.phase = ctx.phase /\ after.version = ctx.version
      BY <2>5
    <3>2. past[k + 1].phase = past[k].phase /\ past[k + 1].version = past[k].version
      BY <1>2, <1>4 DEF Told, TargetKinds
    <3> QED
      BY <1>1, <3>1, <3>2 DEF RebuiltPhase
  <2> QED
    BY <2>8, <2>10, <2>11 DEF Rebuilt, after
<1>5. CASE lg[k + 1].kind = "phase_transition_commit"
  <2>1. lg[k + 1].to \in Phases
    BY <1>0, <1>5, RowFacts
  <2>2. after = [heap |-> ctx.heap, targets |-> ctx.targets,
                 phase |-> lg[k + 1].to, version |-> ctx.version + 1]
    BY <1>0, <1>1, <1>5, ApplyFacts
  <2> HIDE DEF after
  <2>3. after \in Context /\ Len(after.heap) = Len(hp)
    BY <1>1, <2>1, <2>2 DEF Context
  <2>4. RebuiltTargets(bl, hp, lg, past, birth, after, k + 1)
    <3>1. \A t \in Targets : ~IsUpsert(lg, k + 1, t) /\ ~IsChange(lg, k + 1, t)
      BY <1>5 DEF IsUpsert, IsChange, TargetKinds
    <3> QED
      BY <1>1, <2>2, <3>1, RoundOther
  <2>5. RebuiltPhase(bl, past, after, z, counts, k + 1)
    <3>1. after.phase = lg[k + 1].to /\ after.version = ctx.version + 1
      BY <2>2
    <3>2. past[k + 1].phase = lg[k + 1].to /\ past[k + 1].version = past[k].version + 1
      BY <1>2, <1>5 DEF Told
    <3> QED
      BY <1>1, <3>1, <3>2 DEF RebuiltPhase
  <2> QED
    BY <2>3, <2>4, <2>5 DEF Rebuilt, after
<1>6. CASE lg[k + 1].kind \in {"other", "foreign"}
  <2>1. after = ctx
    BY <1>0, <1>1, <1>6, ApplyFacts
  <2> HIDE DEF after
  <2>2. RebuiltTargets(bl, hp, lg, past, birth, after, k + 1)
    <3>1. \A t \in Targets : ~IsUpsert(lg, k + 1, t) /\ ~IsChange(lg, k + 1, t)
      BY <1>6 DEF IsUpsert, IsChange, TargetKinds
    <3> QED
      BY <1>1, <2>1, <3>1, RoundOther
  <2>3. past[k + 1].phase = past[k].phase /\ past[k + 1].version = past[k].version
    BY <1>2, <1>6 DEF Told
  <2>4. RebuiltPhase(bl, past, after, z, counts, k + 1)
    BY <1>1, <2>1, <2>3 DEF RebuiltPhase
  <2> QED
    BY <1>1, <2>1, <2>2, <2>4 DEF Rebuilt, after
<1>7. CASE lg[k + 1].kind \in TargetKinds /\ ctx.targets[lg[k + 1].target] = Unknown
  <2>1. after = ctx
    BY <1>0, <1>1, <1>7, ApplyFacts
  <2> HIDE DEF after
  <2>2. RebuiltTargets(bl, hp, lg, past, birth, after, k + 1)
    <3>1. \A t \in Targets : /\ ~IsUpsert(lg, k + 1, t)
                             /\ IsChange(lg, k + 1, t) => ctx.targets[t] = Unknown
      BY <1>7 DEF IsUpsert, IsChange, TargetKinds
    <3> QED
      BY <1>1, <2>1, <3>1, RoundOther
  <2>3. past[k + 1].phase = past[k].phase /\ past[k + 1].version = past[k].version
    BY <1>2, <1>7 DEF Told, TargetKinds
  <2>4. RebuiltPhase(bl, past, after, z, counts, k + 1)
    BY <1>1, <2>1, <2>3 DEF RebuiltPhase
  <2> QED
    BY <1>1, <2>1, <2>2, <2>4 DEF Rebuilt, after
<1> QED
  BY <1>0, <1>3, <1>4, <1>5, <1>6, <1>7, RowFacts

\* The loop over the rows after s, or over those of this mission among them.
LEMMA LoopRebuilds ==
    ASSUME NEW bl, NEW past, NEW birth, Tells(ledger, past), Objects(heap, ledger, past, birth),
           NEW start, NEW rows, NEW z \in 0 .. Len(ledger), NEW counts,
           NEW s \in 0 .. Len(ledger),
           Rebuilt(bl, heap, ledger, past, birth, start, z, counts, s),
           \A i \in 1 .. s : i \notin rows,
           \A i \in (s + 1) .. Len(ledger) : i \in rows \/ ledger[i].kind = "foreign"
    PROVE  Rebuilt(bl, heap, ledger, past, birth, ReplayFrom(start, rows)[Len(ledger)],
                   z, counts, Len(ledger))
<1>0. Len(ledger) \in Nat
  BY DEF Tells
<1> DEFINE run == ReplayFrom(start, rows)
           Good(i) == /\ i <= s => run[i] = start
                      /\ i >= s => Rebuilt(bl, heap, ledger, past, birth, run[i], z, counts, i)
           Bad == {i \in 0 .. Len(ledger) : ~Good(i)}
<1>1. /\ run[0] = start
      /\ \A i \in 1 .. Len(ledger) : run[i] = Replayed(run[i - 1], i, rows)
  BY <1>0, LoopRuns
<1> HIDE DEF run
<1>2. Bad = {}
  <2> SUFFICES ASSUME Bad # {} PROVE FALSE
    OBVIOUS
  <2>1. PICK i \in Bad : \A m \in Bad : i <= m
    <3>1. Bad \subseteq Nat
      OBVIOUS
    <3> HIDE DEF Bad
    <3> QED
      BY <3>1, LeastNat
  <2>2. CASE i = 0
    <3>1. run[0] = start /\ (0 >= s => s = 0)
      BY <1>1
    <3>2. Good(0)
      BY <3>1
    <3> QED
      BY <2>1, <2>2, <3>2
  <2>3. CASE i # 0
    <3>1. i \in 1 .. Len(ledger) /\ i - 1 \in 0 .. Len(ledger) /\ (i - 1) + 1 = i
      BY <2>1, <2>3
    <3>2. Good(i - 1)
      BY <1>0, <2>1, <3>1
    <3>3. run[i] = Replayed(run[i - 1], i, rows)
      BY <1>1, <3>1
    <3>4. CASE i <= s
      <4>1. i \notin rows /\ run[i - 1] = start
        BY <3>1, <3>2, <3>4
      <4>2. run[i] = start
        BY <3>3, <4>1 DEF Replayed
      <4>3. i >= s => i = s
        BY <3>1, <3>4
      <4>4. Good(i)
        BY <4>2, <4>3
      <4> QED
        BY <2>1, <4>4
    <3>5. CASE i > s
      <4>1. i - 1 \in 0 .. Len(ledger) - 1 /\ i - 1 >= s /\ i \in (s + 1) .. Len(ledger)
        BY <1>0, <3>1, <3>5
      <4>2. Rebuilt(bl, heap, ledger, past, birth, run[i - 1], z, counts, i - 1)
        BY <3>2, <4>1
      <4>3. Rebuilt(bl, heap, ledger, past, birth,
                    applyLedgerEvent(run[i - 1], ledger[(i - 1) + 1]), z, counts, (i - 1) + 1)
        BY <4>1, <4>2, Round
      <4>4. run[i] = applyLedgerEvent(run[i - 1], ledger[i])
        <5>1. CASE i \in rows
          BY <3>3, <5>1 DEF Replayed
        <5>2. CASE i \notin rows
          <6>1. ledger[i].kind = "foreign" /\ ledger[i] \in Row
            BY <3>1, <4>1, <5>2 DEF Tells
          <6>2. run[i - 1] \in Context
            BY <4>2 DEF Rebuilt
          <6>3. applyLedgerEvent(run[i - 1], ledger[i]) = run[i - 1]
            BY <6>1, <6>2, ApplyFacts
          <6> QED
            BY <3>3, <5>2, <6>3 DEF Replayed
        <5> QED
          BY <5>1, <5>2
      <4>5. Good(i)
        BY <3>1, <3>5, <4>3, <4>4
      <4> QED
        BY <2>1, <4>5
    <3> QED
      BY <3>1, <3>4, <3>5
  <2> QED
    BY <2>2, <2>3
<1>3. Good(Len(ledger))
  BY <1>0, <1>2
<1> QED
  BY <1>0, <1>3 DEF run

\* What restore starts from: a context made at row z, replayed from there or from the
\* first row.
LEMMA StartRebuilt ==
    ASSUME NEW bl, NEW hp, NEW lg, NEW past, NEW birth,
           Tells(lg, past), Objects(hp, lg, past, birth),
           NEW start \in Context, start.heap = hp, NEW z \in 0 .. Len(lg), NEW s, NEW counts,
           Registered(bl, hp, lg, past, birth, start.targets, z),
           start.phase = past[z].phase \/ (bl /\ start.phase = "init"), s = z \/ s = 0,
           counts => start.version = past[s].version
    PROVE  Rebuilt(bl /\ s # 0, hp, lg, past, birth, start, z, counts, s)
<1>0. Len(lg) \in Nat /\ s \in 0 .. Len(lg) /\ s \in Nat
  BY DEF Tells
<1>1. RebuiltPhase(bl /\ s # 0, past, start, z, counts, s)
  <2>1. past[0].phase = "init"
    BY DEF Tells, NoMission
  <2> QED
    BY <1>0, <2>1 DEF RebuiltPhase
<1>2. ASSUME NEW t \in Targets, past[s].targets[t] # <<>>
      PROVE  \/ (bl /\ s # 0) /\ start.targets[t] = Unknown
             \/ /\ OfTarget(lg, birth, start.targets[t], t, s)
                /\ Mixed(lg, past, start.heap[start.targets[t]], t, s)
  <2>1. s = z /\ s # 0
    <3>1. past[0].targets[t] = <<>>
      BY DEF Tells, NoMission
    <3> QED
      BY <1>2, <3>1
  <2>0. CASE bl /\ start.targets[t] = Unknown
    BY <2>0, <2>1
  <2> SUFFICES ASSUME ~(bl /\ start.targets[t] = Unknown)
               PROVE  /\ OfTarget(lg, birth, start.targets[t], t, s)
                      /\ Mixed(lg, past, start.heap[start.targets[t]], t, s)
    BY <2>0
  <2> DEFINE o == start.targets[t]
  <2>2. OfTarget(lg, birth, o, t, s) /\ Shows(lg, past, hp[o], t, s)
    BY <1>2, <2>1 DEF Registered, Entry
  <2> HIDE DEF o
  <2>3. PICK p \in s .. Len(lg) : NoUpsert(lg, t, s, p) /\ past[p].targets[t] = <<hp[o]>>
    BY <2>2 DEF Shows
  <2>4. Mixed(lg, past, hp[o], t, s)
    <3>1. CASE p = s
      BY <2>3, <3>1 DEF Mixed
    <3>2. CASE p # s
      <4>1. p \in (s + 1) .. Len(lg) /\ s <= p /\ p \in 0 .. Len(lg)
        BY <1>0, <3>2
      <4>2. past[s] \in Mission
        BY <1>0 DEF Tells
      <4>3. PICK a \in Target : past[s].targets[t] = <<a>>
        BY <1>2, <4>2 DEF Mission
      <4>4. PICK b \in Target : past[p].targets[t] = <<b>> /\ a.confirmedBy \subseteq b.confirmedBy
        BY <1>0, <2>3, <4>1, <4>3, EpochGrows
      <4>5. b = hp[o]
        BY <2>3, <4>4
      <4>6. Between(b, a, b)
        BY DEF Between
      <4> QED
        BY <2>3, <4>1, <4>3, <4>4, <4>5, <4>6 DEF Mixed
    <3> QED
      BY <3>1, <3>2
  <2> QED
    BY <2>2, <2>4 DEF o
<1>3. ASSUME NEW t \in Targets, start.targets[t] # Unknown
      PROVE  past[Len(lg)].targets[t] # <<>>
  <2> DEFINE b == birth[start.targets[t]]
  <2>1. OfTarget(lg, birth, start.targets[t], t, z)
    BY <1>3 DEF Registered, Entry
  <2>2. b \in 1 .. Len(lg) /\ b \in 0 .. Len(lg) /\ b <= Len(lg) /\ IsUpsert(lg, b, t)
    BY <1>0, <2>1 DEF OfTarget, Objects
  <2> HIDE DEF b
  <2>3. past[b].targets[t] # <<>>
    BY <2>2, ToldUpsert
  <2>4. Len(lg) \in 0 .. Len(lg)
    BY <1>0
  <2> QED
    BY <2>2, <2>3, <2>4, KnownStays
<1>4. RebuiltTargets(bl /\ s # 0, hp, lg, past, birth, start, s)
  BY <1>2, <1>3 DEF RebuiltTargets, Kept
<1> QED
  BY <1>1, <1>4 DEF Rebuilt

\* At the end of the ledger objects may stand in for what they were wherever they are
\* held.
LEMMA HeldAtEnd ==
    ASSUME NEW bl, NEW hp, NEW lg, NEW past, NEW birth,
           Tells(lg, past), Objects(hp, lg, past, birth),
           NEW ctx, NEW z \in 0 .. Len(lg), NEW counts,
           Rebuilt(bl, hp, lg, past, birth, ctx, z, counts, Len(lg)),
           NEW o, NEW t \in Targets, NEW q \in 0 .. Len(lg),
           OfTarget(lg, birth, o, t, q), Shows(lg, past, hp[o], t, q)
    PROVE  Shows(lg, past, ctx.heap[o], t, q)
<1>0. Len(lg) \in Nat /\ Len(lg) \in 0 .. Len(lg)
  BY DEF Tells
<1>1. /\ ctx \in Context /\ Len(ctx.heap) = Len(hp)
      /\ RebuiltTargets(bl, hp, lg, past, birth, ctx, Len(lg))
      /\ RebuiltPhase(bl, past, ctx, z, counts, Len(lg))
  BY DEF Rebuilt
<1>2. DOMAIN birth = 1 .. Len(hp) /\ \A x \in 1 .. Len(hp) : birth[x] \in 1 .. Len(lg)
  BY DEF Objects
<1>3. /\ o \in 1 .. Len(hp) /\ IsUpsert(lg, birth[o], t) /\ birth[o] <= Len(lg)
      /\ birth[o] \in 1 .. Len(lg) /\ birth[o] \in 0 .. Len(lg)
  BY <1>2 DEF OfTarget
<1>4. Kept(hp, lg, past, birth, o, t, ctx.heap[o])
  <2>1. CASE o = ctx.targets[t]
    <3>1. past[birth[o]].targets[t] # <<>>
      BY <1>3, ToldUpsert
    <3>2. past[Len(lg)].targets[t] # <<>>
      BY <1>0, <1>3, <3>1, KnownStays
    <3>3. OfTarget(lg, birth, o, t, Len(lg)) /\ Mixed(lg, past, ctx.heap[o], t, Len(lg))
      BY <1>1, <1>3, <2>1, <3>2 DEF RebuiltTargets, Unknown
    <3> QED
      BY <1>0, <3>3, DepartedKept
  <2>2. CASE o # ctx.targets[t]
    BY <1>1, <1>3, <2>2 DEF RebuiltTargets
  <2> QED
    BY <2>1, <2>2
<1> QED
  BY <1>4 DEF Kept

\* So what a registry had for a target it still has.
LEMMA RegisteredAtEnd ==
    ASSUME NEW bl, NEW hp, NEW lg, NEW past, NEW birth,
           Tells(lg, past), Objects(hp, lg, past, birth),
           NEW ctx, NEW z \in 0 .. Len(lg), NEW counts,
           Rebuilt(bl, hp, lg, past, birth, ctx, z, counts, Len(lg)),
           NEW b, NEW registry, NEW q \in 0 .. Len(lg),
           Registered(b, hp, lg, past, birth, registry, q)
    PROVE  Registered(b, ctx.heap, lg, past, birth, registry, q)
BY HeldAtEnd DEF Registered, Entry

\* Everything is again what it was.
LEMMA RebuiltAtEnd ==
    ASSUME NEW bl, NEW hp, NEW lg, NEW past, NEW birth,
           Tells(lg, past), Objects(hp, lg, past, birth),
           NEW ctx, NEW z \in 0 .. Len(lg), NEW counts,
           Rebuilt(bl, hp, lg, past, birth, ctx, z, counts, Len(lg))
    PROVE  /\ ctx \in Context
           /\ Objects(ctx.heap, lg, past, birth)
           /\ Registered(bl, ctx.heap, lg, past, birth, ctx.targets, Len(lg))
           /\ ctx.phase = past[Len(lg)].phase \/ (bl /\ ctx.phase = "init")
           /\ counts => ctx.version = past[Len(lg)].version
<1>0. Len(lg) \in Nat /\ Len(lg) \in 0 .. Len(lg)
  BY DEF Tells
<1>1. /\ ctx \in Context /\ Len(ctx.heap) = Len(hp)
      /\ RebuiltTargets(bl, hp, lg, past, birth, ctx, Len(lg))
      /\ RebuiltPhase(bl, past, ctx, z, counts, Len(lg))
  BY DEF Rebuilt
<1>2. DOMAIN birth = 1 .. Len(hp) /\ \A o \in 1 .. Len(hp) : birth[o] \in 1 .. Len(lg)
  BY DEF Objects
<1>3. Objects(ctx.heap, lg, past, birth)
  <2>1. ctx.heap \in Seq(Target)
    BY <1>1 DEF Context
  <2>2. ASSUME NEW o \in 1 .. Len(hp)
        PROVE  \E t \in Targets :
                 IsUpsert(lg, birth[o], t) /\ Shows(lg, past, ctx.heap[o], t, birth[o])
    <3>1. PICK t \in Targets : IsUpsert(lg, birth[o], t) /\ Shows(lg, past, hp[o], t, birth[o])
      BY DEF Objects
    <3>2. birth[o] \in 0 .. Len(lg) /\ OfTarget(lg, birth, o, t, birth[o])
      BY <1>0, <1>2, <3>1 DEF OfTarget, NoUpsert
    <3> QED
      BY <3>1, <3>2, HeldAtEnd
  <2> QED
    BY <1>1, <2>1, <2>2 DEF Objects
<1>4. Registered(bl, ctx.heap, lg, past, birth, ctx.targets, Len(lg))
  <2>1. ctx.targets \in [Targets -> Nat]
    BY <1>1 DEF Context
  <2>2. ASSUME NEW t \in Targets, past[Len(lg)].targets[t] = <<>>
        PROVE  ctx.targets[t] = Unknown
    BY <1>1, <2>2 DEF RebuiltTargets
  <2>3. ASSUME NEW t \in Targets, past[Len(lg)].targets[t] # <<>>,
               ~(bl /\ ctx.targets[t] = Unknown)
        PROVE  /\ OfTarget(lg, birth, ctx.targets[t], t, Len(lg))
               /\ ctx.targets[t] # Unknown
               /\ Shows(lg, past, ctx.heap[ctx.targets[t]], t, Len(lg))
    <3>1. /\ OfTarget(lg, birth, ctx.targets[t], t, Len(lg))
          /\ Mixed(lg, past, ctx.heap[ctx.targets[t]], t, Len(lg))
      BY <1>1, <2>3 DEF RebuiltTargets
    <3>2. past[Len(lg)].targets[t] = <<ctx.heap[ctx.targets[t]]>>
      BY <1>0, <3>1, DepartedKept
    <3>3. ctx.targets[t] \in 1 .. Len(hp)
      BY <1>2, <3>1 DEF OfTarget
    <3>4. NoUpsert(lg, t, Len(lg), Len(lg)) /\ Len(lg) \in Len(lg) .. Len(lg)
      BY <1>0 DEF NoUpsert
    <3> QED
      BY <3>1, <3>2, <3>3, <3>4 DEF Shows, Unknown
  <2> QED
    BY <2>1, <2>2, <2>3 DEF Registered, Entry
<1>5. /\ ctx.phase = past[Len(lg)].phase \/ (bl /\ ctx.phase = "init")
      /\ counts => ctx.version = past[Len(lg)].version
  BY <1>0, <1>1 DEF RebuiltPhase
<1> QED
  BY <1>1, <1>3, <1>4, <1>5
-------------------------------------------------------------------------------
(* The invariant. *)

Checkpoint ==
    [phase: Phases \cup {"init"}, phaseVersion: Nat, targetRegistry: [Targets -> Nat],
     lastLedgerHash: Nat, createdAtMs: Nat]

\* A checkpoint is of the row it seals.
CheckpointSound(bl, hp, lg, past, birth, infl, cp) ==
    /\ cp.lastLedgerHash \in 0 .. Len(lg)
    /\ cp.phase = past[cp.lastLedgerHash].phase \/ (bl /\ cp.phase = "init")
    /\ ~bl /\ ~infl => cp.phaseVersion = past[cp.lastLedgerHash].version
    /\ Registered(bl, hp, lg, past, birth, cp.targetRegistry, cp.lastLedgerHash)

\* Checkpoints are made one after the other.
CheckpointsSound(bl, hp, lg, past, birth, infl, cps) ==
    /\ cps \in Seq(Checkpoint)
    /\ \A i, j \in 1 .. Len(cps) : i <= j => cps[i].createdAtMs <= cps[j].createdAtMs
    /\ \A i \in 1 .. Len(cps) : CheckpointSound(bl, hp, lg, past, birth, infl, cps[i])

\* The context is of the last row.
ContextSound(bl, ctx, lg, past, birth, infl) ==
    /\ Registered(bl, ctx.heap, lg, past, birth, ctx.targets, Len(lg))
    /\ ctx.phase = past[Len(lg)].phase \/ (bl /\ ctx.phase = "init")
    /\ ~bl /\ ~infl => ctx.version = past[Len(lg)].version

Sound(ctx, lg, cps, bl, lv, infl, past, birth) ==
    /\ Tells(lg, past)
    /\ past[Len(lg)] = lv
    /\ ctx \in Context
    /\ Objects(ctx.heap, lg, past, birth)
    /\ CheckpointsSound(bl, ctx.heap, lg, past, birth, infl, cps)
    /\ ContextSound(bl, ctx, lg, past, birth, infl)

InContext == [heap |-> heap, targets |-> targets, phase |-> phase, version |-> phaseVersion]

RecoveryInv ==
    /\ partial \in BOOLEAN /\ inflated \in BOOLEAN
    /\ \E past, birth : Sound(InContext, ledger, checkpoints, partial, live, inflated, past, birth)

\* One more row, and objects to go with it.
Extends(hp, lg, past, birth, hp2, lg2, past2, birth2) ==
    /\ Tells(lg, past) /\ Tells(lg2, past2)
    /\ Len(lg2) = Len(lg) + 1
    /\ \A k \in 1 .. Len(lg) : lg2[k] = lg[k]
    /\ \A k \in 0 .. Len(lg) : past2[k] = past[k]
    /\ Objects(hp, lg, past, birth)
    /\ 1 .. Len(hp) \subseteq DOMAIN birth2
    /\ \A o \in 1 .. Len(hp) : birth2[o] = birth[o] /\ hp2[o] = hp[o]

\* A ledger that grows tells what it told, and what the new row makes of the mission.
LEMMA LedgerGrows ==
    ASSUME NEW lg, NEW past, Tells(lg, past), NEW row \in Row,
           row.kind \in TargetKinds => past[Len(lg)].targets[row.target] # <<>>
    PROVE  \E past2 : /\ Tells(Append(lg, row), past2)
                      /\ past2[Len(lg) + 1] = Told(Append(lg, row), past[Len(lg)], Len(lg) + 1)
                      /\ \A k \in 0 .. Len(lg) : past2[k] = past[k]
<1> DEFINE n == Len(lg)
           lg2 == Append(lg, row)
           last == Told(lg2, past[n], n + 1)
           past2 == [k \in 0 .. n + 1 |-> IF k = n + 1 THEN last ELSE past[k]]
<1>1. /\ n \in Nat /\ lg2 \in Seq(Row) /\ Len(lg2) = n + 1 /\ lg2[n + 1] = row
      /\ \A k \in 1 .. n : lg2[k] = lg[k]
  BY DEF Tells
<1>2. past[n] \in Mission /\ past \in [0 .. n -> Mission] /\ past[0] = NoMission
  BY <1>1 DEF Tells
<1> HIDE DEF lg2
<1>3. \A t \in Targets : IsChange(lg2, n + 1, t) => past[n].targets[t] # <<>>
  BY <1>1 DEF IsChange
<1>4. last \in Mission
  BY <1>1, <1>2, <1>3, ToldType
<1> HIDE DEF last
<1>5. past2 \in [0 .. n + 1 -> Mission] /\ past2[0] = NoMission
  BY <1>1, <1>2, <1>4
<1>6. past2[n + 1] = last /\ \A k \in 0 .. n : past2[k] = past[k]
  BY <1>1
<1>7. ASSUME NEW k \in 1 .. n + 1
      PROVE  /\ past2[k] = Told(lg2, past2[k - 1], k)
             /\ \A t \in Targets : IsChange(lg2, k, t) => past2[k - 1].targets[t] # <<>>
  <2>1. CASE k = n + 1
    <3>1. past2[k - 1] = past[n]
      BY <1>1, <1>6, <2>1
    <3> HIDE DEF past2
    <3> QED
      BY <1>3, <1>6, <2>1, <3>1 DEF last
  <2>2. CASE k # n + 1
    <3>1. k \in 1 .. n /\ k - 1 \in 0 .. n /\ k \in 0 .. n
      BY <1>1, <2>2
    <3>2. past2[k] = past[k] /\ past2[k - 1] = past[k - 1] /\ lg2[k] = lg[k]
      BY <1>1, <1>6, <3>1
    <3> HIDE DEF past2
    <3>3. past[k] = Told(lg, past[k - 1], k)
      BY <3>1 DEF Tells
    <3>4. Told(lg2, past[k - 1], k) = Told(lg, past[k - 1], k)
      BY <3>2 DEF Told, TargetTold, IsUpsert, IsChange
    <3>5. \A t \in Targets : IsChange(lg2, k, t) => past[k - 1].targets[t] # <<>>
      BY <3>1, <3>2 DEF Tells, IsChange
    <3> QED
      BY <3>2, <3>3, <3>4, <3>5
  <2> QED
    BY <2>1, <2>2
<1> HIDE DEF past2
<1>8. Tells(lg2, past2)
  BY <1>1, <1>5, <1>7 DEF Tells
<1> QED
  BY <1>6, <1>8 DEF lg2, last

\* What held of the rows before holds on.
LEMMA ExtendedShows ==
    ASSUME NEW hp, NEW lg, NEW past, NEW birth, NEW hp2, NEW lg2, NEW past2, NEW birth2,
           Extends(hp, lg, past, birth, hp2, lg2, past2, birth2),
           NEW t, NEW v, NEW q \in 0 .. Len(lg), Shows(lg, past, v, t, q)
    PROVE  Shows(lg2, past2, v, t, q)
<1>1. Len(lg) \in Nat /\ Len(lg2) = Len(lg) + 1
  BY DEF Extends, Tells
<1>2. PICK p \in q .. Len(lg) : NoUpsert(lg, t, q, p) /\ past[p].targets[t] = <<v>>
  BY DEF Shows
<1>3. p \in q .. Len(lg2) /\ p \in 0 .. Len(lg) /\ (q + 1) .. p \subseteq 1 .. Len(lg)
  BY <1>1
<1>4. past2[p] = past[p] /\ \A k \in (q + 1) .. p : lg2[k] = lg[k]
  BY <1>3 DEF Extends
<1> QED
  BY <1>2, <1>3, <1>4 DEF Shows, NoUpsert, IsUpsert

\* An object of a target stays one.
LEMMA ExtendedOf ==
    ASSUME NEW hp, NEW lg, NEW past, NEW birth, NEW hp2, NEW lg2, NEW past2, NEW birth2,
           Extends(hp, lg, past, birth, hp2, lg2, past2, birth2),
           NEW t, NEW o, NEW q \in 0 .. Len(lg), OfTarget(lg, birth, o, t, q)
    PROVE  OfTarget(lg2, birth2, o, t, q) /\ hp2[o] = hp[o] /\ birth2[o] \in Nat
<1>1. Len(lg) \in Nat /\ DOMAIN birth = 1 .. Len(hp)
  BY DEF Extends, Tells, Objects
<1>2. o \in 1 .. Len(hp) /\ birth[o] \in 1 .. Len(lg)
  BY <1>1 DEF Extends, Objects, OfTarget
<1>3. birth2[o] = birth[o] /\ hp2[o] = hp[o] /\ o \in DOMAIN birth2
  BY <1>2 DEF Extends
<1>4. lg2[birth[o]] = lg[birth[o]] /\ \A k \in (birth[o] + 1) .. q : lg2[k] = lg[k]
  BY <1>1, <1>2 DEF Extends
<1> QED
  BY <1>2, <1>3, <1>4 DEF OfTarget, NoUpsert, IsUpsert

\* What a registry has for a target stays right.
LEMMA ExtendedEntry ==
    ASSUME NEW bl, NEW hp, NEW lg, NEW past, NEW birth, NEW hp2, NEW lg2, NEW past2, NEW birth2,
           Extends(hp, lg, past, birth, hp2, lg2, past2, birth2),
           NEW t, NEW object, NEW q \in 0 .. Len(lg),
           Entry(bl, hp, lg, past, birth, object, t, q)
    PROVE  Entry(bl, hp2, lg2, past2, birth2, object, t, q)
<1>1. CASE object = Unknown
  BY <1>1 DEF Entry, Extends
<1>2. CASE object # Unknown
  <2>1. OfTarget(lg, birth, object, t, q) /\ Shows(lg, past, hp[object], t, q)
    BY <1>2 DEF Entry
  <2>2. OfTarget(lg2, birth2, object, t, q) /\ hp2[object] = hp[object]
    BY <2>1, ExtendedOf
  <2>3. Shows(lg2, past2, hp[object], t, q)
    BY <2>1, ExtendedShows
  <2> QED
    BY <1>2, <2>2, <2>3 DEF Entry
<1> QED
  BY <1>1, <1>2

\* A target that the new row leaves alone is what it was.
LEMMA ExtendedContext ==
    ASSUME NEW bl, NEW hp, NEW lg, NEW past, NEW birth, NEW hp2, NEW lg2, NEW past2, NEW birth2,
           Extends(hp, lg, past, birth, hp2, lg2, past2, birth2),
           NEW t \in Targets, ~IsUpsert(lg2, Len(lg) + 1, t), ~IsChange(lg2, Len(lg) + 1, t),
           NEW object, Entry(bl, hp, lg, past, birth, object, t, Len(lg))
    PROVE  Entry(bl, hp2, lg2, past2, birth2, object, t, Len(lg) + 1)
<1> DEFINE n == Len(lg)
<1>1. /\ n \in Nat /\ n \in 0 .. n /\ Len(lg2) = n + 1 /\ n + 1 \in 1 .. Len(lg2)
      /\ (n + 1) - 1 = n /\ Tells(lg2, past2) /\ past2[n] = past[n]
  BY DEF Extends, Tells
<1>2. past2[n + 1].targets[t] = past[n].targets[t]
  <2>1. past2[n + 1].targets[t] = past2[(n + 1) - 1].targets[t]
    BY <1>1, ToldUntouched
  <2> QED
    BY <1>1, <2>1
<1>3. CASE object = Unknown
  BY <1>2, <1>3 DEF Entry
<1>4. CASE object # Unknown
  <2>1. OfTarget(lg, birth, object, t, n) /\ Shows(lg, past, hp[object], t, n)
    BY <1>4 DEF Entry
  <2>2. OfTarget(lg2, birth2, object, t, n) /\ hp2[object] = hp[object] /\ birth2[object] \in Nat
    BY <1>1, <2>1, ExtendedOf
  <2>3. OfTarget(lg2, birth2, object, t, n + 1)
    BY <1>1, <2>2, OfTargetStep
  <2>4. past[n].targets[t] = <<hp[object]>>
    BY <1>1, <2>1 DEF Shows
  <2>5. Shows(lg2, past2, hp2[object], t, n + 1)
    <3>1. NoUpsert(lg2, t, n + 1, n + 1) /\ n + 1 \in (n + 1) .. Len(lg2)
      BY <1>1 DEF NoUpsert
    <3> QED
      BY <1>2, <2>2, <2>4, <3>1 DEF Shows
  <2> QED
    BY <1>4, <2>3, <2>5 DEF Entry
<1> QED
  BY <1>3, <1>4

\* Checkpoints stay what they were.
LEMMA ExtendedCheckpoints ==
    ASSUME NEW bl, NEW hp, NEW lg, NEW past, NEW birth, NEW hp2, NEW lg2, NEW past2, NEW birth2,
           Extends(hp, lg, past, birth, hp2, lg2, past2, birth2), NEW infl, NEW cps,
           CheckpointsSound(bl, hp, lg, past, birth, infl, cps)
    PROVE  CheckpointsSound(bl, hp2, lg2, past2, birth2, infl, cps)
<1>1. Len(lg) \in Nat /\ Len(lg2) = Len(lg) + 1 /\ \A k \in 0 .. Len(lg) : past2[k] = past[k]
  BY DEF Extends, Tells
<1>2. ASSUME NEW i \in 1 .. Len(cps)
      PROVE  CheckpointSound(bl, hp2, lg2, past2, birth2, infl, cps[i])
  <2>1. CheckpointSound(bl, hp, lg, past, birth, infl, cps[i])
    BY DEF CheckpointsSound
  <2> DEFINE z == cps[i].lastLedgerHash
  <2>2. z \in 0 .. Len(lg) /\ z \in 0 .. Len(lg2) /\ past2[z] = past[z]
    BY <1>1, <2>1 DEF CheckpointSound
  <2>3. Registered(bl, hp2, lg2, past2, birth2, cps[i].targetRegistry, z)
    BY <2>1, <2>2, ExtendedEntry DEF CheckpointSound, Registered
  <2> QED
    BY <2>1, <2>2, <2>3 DEF CheckpointSound
<1> QED
  BY <1>2 DEF CheckpointsSound

\* A row that adds no target needs no object.
LEMMA ObjectsSame ==
    ASSUME NEW hp, NEW lg, NEW past, NEW birth, NEW lg2, NEW past2,
           Extends(hp, lg, past, birth, hp, lg2, past2, birth),
           lg2[Len(lg) + 1].kind # "target_upsert"
    PROVE  Objects(hp, lg2, past2, birth)
<1>1. Len(lg) \in Nat /\ Len(lg2) = Len(lg) + 1 /\ Objects(hp, lg, past, birth)
      /\ \A k \in 1 .. Len(lg) : lg2[k] = lg[k]
  BY DEF Extends, Tells
<1>2. birth \in [1 .. Len(hp) -> 1 .. Len(lg2)] /\ hp \in Seq(Target)
  BY <1>1 DEF Objects
<1>3. ASSUME NEW o \in 1 .. Len(hp)
      PROVE  \E t \in Targets :
               IsUpsert(lg2, birth[o], t) /\ Shows(lg2, past2, hp[o], t, birth[o])
  <2>1. PICK t \in Targets : IsUpsert(lg, birth[o], t) /\ Shows(lg, past, hp[o], t, birth[o])
    BY <1>1 DEF Objects
  <2>2. birth[o] \in 1 .. Len(lg) /\ birth[o] \in 0 .. Len(lg)
    BY <1>1 DEF Objects
  <2>3. Shows(lg2, past2, hp[o], t, birth[o])
    BY <2>1, <2>2, ExtendedShows
  <2> QED
    BY <1>1, <2>1, <2>2, <2>3 DEF IsUpsert
<1>4. \A k \in 1 .. Len(lg2) :
         lg2[k].kind = "target_upsert" => lg2[k].object \in 1 .. Len(hp) /\ birth[lg2[k].object] = k
  BY <1>1 DEF Objects
<1> QED
  BY <1>2, <1>3, <1>4 DEF Objects

\* One more object: that of the new row, or one of an earlier row's target.
LEMMA ObjectsGrow ==
    ASSUME NEW hp, NEW lg, NEW past, NEW birth, NEW w \in Target, NEW lg2, NEW past2, NEW birth2,
           Extends(hp, lg, past, birth, Append(hp, w), lg2, past2, birth2),
           NEW b \in 1 .. Len(lg2), birth2 = [o \in 1 .. Len(hp) + 1 |->
                                                IF o = Len(hp) + 1 THEN b ELSE birth[o]],
           NEW u \in Targets, IsUpsert(lg2, b, u), Shows(lg2, past2, w, u, b),
           lg2[Len(lg) + 1].kind = "target_upsert" =>
             b = Len(lg) + 1 /\ lg2[Len(lg) + 1].object = Len(hp) + 1
    PROVE  Objects(Append(hp, w), lg2, past2, birth2)
<1> DEFINE hp2 == Append(hp, w)
<1>1. /\ Len(lg) \in Nat /\ Len(lg2) = Len(lg) + 1 /\ Objects(hp, lg, past, birth)
      /\ \A k \in 1 .. Len(lg) : lg2[k] = lg[k]
  BY DEF Extends, Tells
<1>2. /\ hp \in Seq(Target) /\ Len(hp) \in Nat /\ hp2 \in Seq(Target)
      /\ Len(hp2) = Len(hp) + 1 /\ hp2[Len(hp) + 1] = w
      /\ \A o \in 1 .. Len(hp) : hp2[o] = hp[o]
  BY <1>1 DEF Objects
<1> HIDE DEF hp2
<1>3. ASSUME NEW o \in 1 .. Len(hp)
      PROVE  /\ birth[o] \in 1 .. Len(lg) /\ birth[o] \in 0 .. Len(lg)
             /\ birth[o] \in 1 .. Len(lg2)
  <2>1. birth[o] \in 1 .. Len(lg)
    BY <1>1 DEF Objects
  <2> QED
    BY <1>1, <2>1
<1>4. /\ \A o \in 1 .. Len(hp) : birth[o] \in 1 .. Len(lg) /\ birth2[o] = birth[o]
      /\ birth2[Len(hp) + 1] = b
  <2>1. \A o \in 1 .. Len(hp) : birth[o] \in 1 .. Len(lg)
    BY <1>1 DEF Objects
  <2>2. \A o \in 1 .. Len(hp) : o \in 1 .. Len(hp) + 1 /\ o # Len(hp) + 1
    BY <1>2
  <2>3. Len(hp) + 1 \in 1 .. Len(hp) + 1
    BY <1>2
  <2> QED
    BY <2>1, <2>2, <2>3
<1>5. birth2 \in [1 .. Len(hp2) -> 1 .. Len(lg2)]
  <2>1. \A o \in 1 .. Len(hp) + 1 :
          (IF o = Len(hp) + 1 THEN b ELSE birth[o]) \in 1 .. Len(lg2)
    <3> TAKE o \in 1 .. Len(hp) + 1
    <3>1. o = Len(hp) + 1 \/ o \in 1 .. Len(hp)
      BY <1>2
    <3>2. o \in 1 .. Len(hp) => birth[o] \in 1 .. Len(lg2)
      BY <1>3
    <3> QED
      BY <3>1, <3>2
  <2> QED
    BY <1>2, <2>1
<1>6. ASSUME NEW o \in 1 .. Len(hp2)
      PROVE  \E t \in Targets :
               IsUpsert(lg2, birth2[o], t) /\ Shows(lg2, past2, hp2[o], t, birth2[o])
  <2>1. CASE o = Len(hp) + 1
    BY <1>2, <1>4, <2>1
  <2>2. CASE o # Len(hp) + 1
    <3>0. o \in 1 .. Len(hp)
      BY <1>2, <2>2
    <3>1. PICK t \in Targets : IsUpsert(lg, birth[o], t) /\ Shows(lg, past, hp[o], t, birth[o])
      BY <1>1, <3>0 DEF Objects
    <3>2. birth[o] \in 1 .. Len(lg) /\ birth[o] \in 0 .. Len(lg)
      BY <1>3, <3>0
    <3>3. Shows(lg2, past2, hp[o], t, birth[o])
      BY <3>1, <3>2, ExtendedShows
    <3> QED
      BY <1>1, <1>2, <1>4, <3>0, <3>1, <3>2, <3>3 DEF IsUpsert
  <2> QED
    BY <2>1, <2>2
<1>7. ASSUME NEW k \in 1 .. Len(lg2), lg2[k].kind = "target_upsert"
      PROVE  lg2[k].object \in 1 .. Len(hp2) /\ birth2[lg2[k].object] = k
  <2>1. CASE k = Len(lg) + 1
    BY <1>2, <1>4, <1>7, <2>1
  <2>2. CASE k # Len(lg) + 1
    <3>1. k \in 1 .. Len(lg) /\ lg2[k] = lg[k]
      BY <1>1, <2>2
    <3>2. lg[k].object \in 1 .. Len(hp) /\ birth[lg[k].object] = k
      BY <1>1, <1>7, <3>1 DEF Objects
    <3> QED
      BY <1>2, <1>4, <3>1, <3>2
  <2> QED
    BY <2>1, <2>2
<1> QED
  BY <1>2, <1>5, <1>6, <1>7 DEF Objects, hp2

\* A row that goes with no object.
LEMMA RowOnly ==
    ASSUME NEW hp, NEW lg, NEW past, NEW birth, Tells(lg, past), Objects(hp, lg, past, birth),
           NEW row \in Row, row.kind # "target_upsert",
           row.kind \in TargetKinds => past[Len(lg)].targets[row.target] # <<>>
    PROVE  \E past2 :
             /\ Extends(hp, lg, past, birth, hp, Append(lg, row), past2, birth)
             /\ past2[Len(lg) + 1] = Told(Append(lg, row), past[Len(lg)], Len(lg) + 1)
             /\ Objects(hp, Append(lg, row), past2, birth)
<1> DEFINE lg2 == Append(lg, row)
<1>1. PICK past2 : /\ Tells(lg2, past2)
                   /\ past2[Len(lg) + 1] = Told(lg2, past[Len(lg)], Len(lg) + 1)
                   /\ \A k \in 0 .. Len(lg) : past2[k] = past[k]
  BY LedgerGrows
<1>2. /\ Len(lg2) = Len(lg) + 1 /\ \A k \in 1 .. Len(lg) : lg2[k] = lg[k]
      /\ lg2[Len(lg) + 1] = row
  BY DEF Tells
<1>3. 1 .. Len(hp) \subseteq DOMAIN birth
  BY DEF Objects
<1> HIDE DEF lg2
<1>4. Extends(hp, lg, past, birth, hp, lg2, past2, birth)
  BY <1>1, <1>2, <1>3 DEF Extends
<1>5. Objects(hp, lg2, past2, birth)
  BY <1>2, <1>4, ObjectsSame
<1> QED
  BY <1>1, <1>4, <1>5 DEF lg2

\* A row that goes with a new object of the target it is about.
LEMMA RowAndObject ==
    ASSUME NEW bl, NEW hp, NEW lg, NEW past, NEW birth,
           Tells(lg, past), Objects(hp, lg, past, birth),
           NEW row \in Row,
           row.kind \in TargetKinds => past[Len(lg)].targets[row.target] # <<>>,
           NEW w \in Target, NEW u \in Targets, NEW b \in 1 .. Len(lg) + 1,
           IsUpsert(Append(lg, row), b, u), NoUpsert(Append(lg, row), u, b, Len(lg) + 1),
           Told(Append(lg, row), past[Len(lg)], Len(lg) + 1).targets[u] = <<w>>,
           row.kind = "target_upsert" => b = Len(lg) + 1 /\ row.object = Len(hp) + 1
    PROVE  \E past2, birth2 :
             /\ Extends(hp, lg, past, birth, Append(hp, w), Append(lg, row), past2, birth2)
             /\ past2[Len(lg) + 1] = Told(Append(lg, row), past[Len(lg)], Len(lg) + 1)
             /\ Objects(Append(hp, w), Append(lg, row), past2, birth2)
             /\ Entry(bl, Append(hp, w), Append(lg, row), past2, birth2, Len(hp) + 1, u, Len(lg) + 1)
<1> DEFINE lg2 == Append(lg, row)
           hp2 == Append(hp, w)
           n == Len(lg)
           birth2 == [o \in 1 .. Len(hp) + 1 |-> IF o = Len(hp) + 1 THEN b ELSE birth[o]]
<1>1. PICK past2 : /\ Tells(lg2, past2)
                   /\ past2[n + 1] = Told(lg2, past[n], n + 1)
                   /\ \A k \in 0 .. n : past2[k] = past[k]
  BY LedgerGrows
<1>2. /\ n \in Nat /\ Len(lg2) = n + 1 /\ \A k \in 1 .. n : lg2[k] = lg[k]
      /\ lg2[n + 1] = row
  BY DEF Tells
<1>3. /\ Len(hp) \in Nat /\ hp2[Len(hp) + 1] = w
      /\ \A o \in 1 .. Len(hp) : hp2[o] = hp[o]
  BY DEF Objects
<1>4. /\ 1 .. Len(hp) \subseteq DOMAIN birth2 /\ Len(hp) + 1 \in DOMAIN birth2
      /\ birth2[Len(hp) + 1] = b
      /\ \A o \in 1 .. Len(hp) : birth2[o] = birth[o]
  <2>1. \A o \in 1 .. Len(hp) : o \in 1 .. Len(hp) + 1 /\ o # Len(hp) + 1
    BY <1>3
  <2>2. Len(hp) + 1 \in 1 .. Len(hp) + 1
    BY <1>3
  <2> QED
    BY <2>1, <2>2
<1>5. birth2 = [o \in 1 .. Len(hp) + 1 |-> IF o = Len(hp) + 1 THEN b ELSE birth[o]]
  OBVIOUS
<1> HIDE DEF lg2, hp2, birth2
<1>6. Extends(hp, lg, past, birth, hp2, lg2, past2, birth2)
  BY <1>1, <1>2, <1>3, <1>4 DEF Extends
<1>7. Shows(lg2, past2, w, u, b) /\ Shows(lg2, past2, w, u, n + 1)
  <2>1. n + 1 \in b .. Len(lg2) /\ n + 1 \in (n + 1) .. Len(lg2)
    BY <1>2
  <2>2. NoUpsert(lg2, u, n + 1, n + 1)
    BY <1>2 DEF NoUpsert
  <2>3. NoUpsert(lg2, u, b, n + 1) /\ past2[n + 1].targets[u] = <<w>>
    BY <1>1 DEF lg2
  <2> QED
    BY <2>1, <2>2, <2>3 DEF Shows
<1>8. Objects(hp2, lg2, past2, birth2)
  <2>1. IsUpsert(lg2, b, u) /\ b \in 1 .. Len(lg2)
    BY <1>2 DEF lg2
  <2> QED
    BY <1>2, <1>5, <1>6, <1>7, <2>1, ObjectsGrow DEF hp2
<1>9. Entry(bl, hp2, lg2, past2, birth2, Len(hp) + 1, u, n + 1)
  <2>1. OfTarget(lg2, birth2, Len(hp) + 1, u, n + 1)
    BY <1>2, <1>4 DEF OfTarget, lg2
  <2>2. Len(hp) + 1 # Unknown
    BY <1>3 DEF Unknown
  <2> QED
    BY <1>3, <1>7, <2>1, <2>2 DEF Entry
<1> QED
  BY <1>1, <1>6, <1>8, <1>9 DEF lg2, hp2

\* The context follows a row about target u.
LEMMA ContextFollows ==
    ASSUME NEW bl, NEW hp, NEW lg, NEW past, NEW birth, NEW hp2, NEW lg2, NEW past2, NEW birth2,
           Extends(hp, lg, past, birth, hp2, lg2, past2, birth2),
           NEW registry, Registered(bl, hp, lg, past, birth, registry, Len(lg)),
           NEW u \in Targets, NEW object \in Nat,
           Entry(bl, hp2, lg2, past2, birth2, object, u, Len(lg) + 1),
           \A t \in Targets : t # u => /\ ~IsUpsert(lg2, Len(lg) + 1, t)
                                       /\ ~IsChange(lg2, Len(lg) + 1, t)
    PROVE  Registered(bl, hp2, lg2, past2, birth2, [registry EXCEPT ![u] = object], Len(lg) + 1)
<1> DEFINE registry2 == [registry EXCEPT ![u] = object]
<1>1. registry \in [Targets -> Nat] /\ registry2 \in [Targets -> Nat]
  BY DEF Registered
<1>2. ASSUME NEW t \in Targets
      PROVE  Entry(bl, hp2, lg2, past2, birth2, registry2[t], t, Len(lg) + 1)
  <2>1. CASE t = u
    BY <1>1, <2>1
  <2>2. CASE t # u
    <3>1. Entry(bl, hp, lg, past, birth, registry[t], t, Len(lg)) /\ registry2[t] = registry[t]
      BY <1>1, <2>2 DEF Registered
    <3> HIDE DEF registry2
    <3> QED
      BY <2>2, <3>1, ExtendedContext
  <2> QED
    BY <2>1, <2>2
<1> QED
  BY <1>1, <1>2 DEF Registered

\* And one about no target.
LEMMA ContextStays ==
    ASSUME NEW bl, NEW hp, NEW lg, NEW past, NEW birth, NEW hp2, NEW lg2, NEW past2, NEW birth2,
           Extends(hp, lg, past, birth, hp2, lg2, past2, birth2),
           NEW registry, Registered(bl, hp, lg, past, birth, registry, Len(lg)),
           \A t \in Targets : /\ ~IsUpsert(lg2, Len(lg) + 1, t)
                              /\ ~IsChange(lg2, Len(lg) + 1, t)
    PROVE  Registered(bl, hp2, lg2, past2, birth2, registry, Len(lg) + 1)
<1>1. ASSUME NEW t \in Targets
      PROVE  Entry(bl, hp2, lg2, past2, birth2, registry[t], t, Len(lg) + 1)
  BY ExtendedContext DEF Registered
<1> QED
  BY <1>1 DEF Registered

\* Rows that replay ignores change nothing.
LEMMA OtherAppended ==
    ASSUME NEW bl, NEW ctx, NEW lg, NEW cps, NEW lv, NEW infl, NEW past, NEW birth,
           Sound(ctx, lg, cps, bl, lv, infl, past, birth),
           NEW row \in {OtherRow, ForeignRow}
    PROVE  \E past2 : Sound(ctx, Append(lg, row), cps, bl, lv, infl, past2, birth)
<1> DEFINE lg2 == Append(lg, row)
           n == Len(lg)
<1>1. row \in Row /\ row.kind \in {"other", "foreign"}
  BY DEF OtherRow, ForeignRow, Row
<1>2. row.kind \notin TargetKinds
  BY <1>1 DEF TargetKinds
<1>3. /\ Tells(lg, past) /\ Objects(ctx.heap, lg, past, birth) /\ past[n] = lv
      /\ CheckpointsSound(bl, ctx.heap, lg, past, birth, infl, cps)
      /\ ctx \in Context
  BY DEF Sound
<1>4. PICK past2 :
        /\ Extends(ctx.heap, lg, past, birth, ctx.heap, lg2, past2, birth)
        /\ past2[n + 1] = Told(lg2, past[n], n + 1)
        /\ Objects(ctx.heap, lg2, past2, birth)
  BY <1>1, <1>2, <1>3, RowOnly
<1>5. Len(lg2) = n + 1 /\ lg2[n + 1] = row /\ n \in Nat /\ past[n] \in Mission
  BY <1>3 DEF Tells
<1> HIDE DEF lg2
<1>6. \A t \in Targets : ~IsUpsert(lg2, n + 1, t) /\ ~IsChange(lg2, n + 1, t)
  BY <1>1, <1>2, <1>5 DEF IsUpsert, IsChange
<1>7. past2[n + 1] = past[n]
  <2> DEFINE m == past[n]
  <2>1. \A t \in Targets : TargetTold(lg2, m, n + 1, t) = m.targets[t]
    BY <1>6 DEF TargetTold
  <2>2. Told(lg2, m, n + 1) =
          [phase |-> m.phase, version |-> m.version, targets |-> [t \in Targets |-> m.targets[t]]]
    BY <1>1, <1>5, <2>1 DEF Told
  <2>3. m \in Mission
    BY <1>5
  <2> HIDE DEF m
  <2>4. Told(lg2, m, n + 1) = m
    BY <2>2, <2>3 DEF Mission
  <2> QED
    BY <1>4, <2>4 DEF m
<1>8. Tells(lg2, past2)
  BY <1>4 DEF Extends
<1>9. CheckpointsSound(bl, ctx.heap, lg2, past2, birth, infl, cps)
  BY <1>3, <1>4, ExtendedCheckpoints
<1>10. ContextSound(bl, ctx, lg2, past2, birth, infl)
  <2>1. ContextSound(bl, ctx, lg, past, birth, infl)
    BY DEF Sound
  <2>2. Registered(bl, ctx.heap, lg2, past2, birth, ctx.targets, n + 1)
    BY <1>4, <1>6, <2>1, ContextStays DEF ContextSound
  <2> QED
    BY <1>5, <1>7, <2>1, <2>2 DEF ContextSound
<1>11. Sound(ctx, lg2, cps, bl, lv, infl, past2, birth)
  BY <1>3, <1>4, <1>5, <1>7, <1>8, <1>9, <1>10 DEF Sound
<1> QED
  BY <1>11 DEF lg2
-------------------------------------------------------------------------------
(* Every step keeps it. *)

\* Nothing is told, held or sealed at first.
LEMMA RecoveryInitial == RecoveryInit => RecoveryInv
<1> SUFFICES ASSUME RecoveryInit PROVE RecoveryInv
  OBVIOUS
<1> DEFINE past == [k \in 0 .. 0 |-> NoMission]
           birth == [o \in 1 .. 0 |-> 0]
<1>1. Len(ledger) = 0 /\ Len(heap) = 0 /\ ledger \in Seq(Row) /\ heap \in Seq(Target)
  BY DEF RecoveryInit
<1>2. NoMission \in Mission
  <2>1. [t \in Targets |-> <<>>] \in [Targets -> {<<>>} \cup {<<v>> : v \in Target}]
    OBVIOUS
  <2> QED
    BY <2>1 DEF NoMission, Mission
<1>3. Tells(ledger, past)
  <2>1. past \in [0 .. 0 -> Mission] /\ past[0] = NoMission
    BY <1>2
  <2>2. 1 .. 0 = {}
    OBVIOUS
  <2> HIDE DEF past
  <2> QED
    BY <1>1, <2>1, <2>2 DEF Tells
<1>4. past[Len(ledger)] = live
  BY <1>1 DEF RecoveryInit, NoMission
<1>5. InContext \in Context
  BY <1>1 DEF RecoveryInit, InContext, Context, Fresh, Unknown
<1>6. Objects(InContext.heap, ledger, past, birth)
  <2>1. birth \in [1 .. 0 -> 1 .. 0]
    OBVIOUS
  <2>2. \A o \in 1 .. 0 : FALSE
    OBVIOUS
  <2> HIDE DEF past, birth
  <2> QED
    BY <1>1, <2>1, <2>2 DEF Objects, InContext
<1>7. CheckpointsSound(partial, InContext.heap, ledger, past, birth, inflated, checkpoints)
  BY DEF CheckpointsSound, RecoveryInit
<1>8. ContextSound(partial, InContext, ledger, past, birth, inflated)
  <2>1. past[Len(ledger)] = NoMission
    BY <1>1
  <2> HIDE DEF past, birth
  <2>2. Registered(partial, heap, ledger, past, birth, targets, Len(ledger))
    BY <2>1 DEF RecoveryInit, Fresh, Unknown, Registered, Entry, NoMission
  <2> QED
    BY <2>1, <2>2 DEF ContextSound, InContext, RecoveryInit, Fresh, NoMission
<1>9. Sound(InContext, ledger, checkpoints, partial, live, inflated, past, birth)
  <2> HIDE DEF past, birth
  <2> QED
    BY <1>3, <1>4, <1>5, <1>6, <1>7, <1>8 DEF Sound, RecoveryInit
<1> HIDE DEF past, birth
<1> QED
  BY <1>9 DEF RecoveryInv, RecoveryInit

\* The host adds a target: the row's object is the context's.
LEMMA UpsertStep ==
    ASSUME RecoveryInv, NEW t \in Targets, UpsertTarget(t)
    PROVE  RecoveryInv'
<1>1. PICK past, birth :
        Sound(InContext, ledger, checkpoints, partial, live, inflated, past, birth)
  BY DEF RecoveryInv
<1> DEFINE n == Len(ledger)
           o == Len(heap) + 1
           row == UpsertRow(t, o)
           lg2 == Append(ledger, row)
           hp2 == Append(heap, NewTarget)
<1>2. /\ Tells(ledger, past) /\ Objects(heap, ledger, past, birth) /\ past[n] = live
      /\ CheckpointsSound(partial, heap, ledger, past, birth, inflated, checkpoints)
      /\ InContext \in Context /\ ContextSound(partial, InContext, ledger, past, birth, inflated)
  BY <1>1 DEF Sound, UpsertTarget, InContext
<1>3. /\ n \in Nat /\ Len(lg2) = n + 1 /\ lg2[n + 1] = row /\ past[n] \in Mission
      /\ Len(heap) \in Nat /\ heap \in Seq(Target)
  BY <1>2 DEF Tells, Objects
<1>4. /\ row \in Row /\ row.kind = "target_upsert" /\ row.target = t /\ row.object = o
      /\ row.kind \notin TargetKinds
  BY <1>3 DEF UpsertRow, Row, TargetKinds
<1>5. NewTarget \in Target
  BY DEF NewTarget, Target
<1> HIDE DEF row
<1>6. /\ IsUpsert(lg2, n + 1, t) /\ NoUpsert(lg2, t, n + 1, n + 1)
      /\ \A u \in Targets : u # t => ~IsUpsert(lg2, n + 1, u)
      /\ \A u \in Targets : ~IsChange(lg2, n + 1, u)
  BY <1>3, <1>4 DEF IsUpsert, IsChange, NoUpsert
<1> HIDE DEF lg2
<1> DEFINE told == Told(lg2, live, n + 1)
<1>7. told = [phase |-> live.phase, version |-> live.version,
              targets |-> [live.targets EXCEPT ![t] = <<NewTarget>>]]
  <2>1. live.targets \in [Targets -> {<<>>} \cup {<<v>> : v \in Target}]
    BY <1>2, <1>3 DEF Mission
  <2>2. \A u \in Targets : TargetTold(lg2, live, n + 1, u) =
                             IF u = t THEN <<NewTarget>> ELSE live.targets[u]
    BY <1>6 DEF TargetTold
  <2>3. [u \in Targets |-> TargetTold(lg2, live, n + 1, u)] =
          [live.targets EXCEPT ![t] = <<NewTarget>>]
    BY <2>1, <2>2
  <2> QED
    BY <1>3, <1>4, <2>3 DEF Told
<1> HIDE DEF told
<1>8. told = live'
  BY <1>2, <1>3, <1>7 DEF UpsertTarget, Mission
<1>9. told.targets[t] = <<NewTarget>> /\ told.phase = live.phase /\ told.version = live.version
  BY <1>2, <1>3, <1>7 DEF Mission
<1>10. PICK past2, birth2 :
         /\ Extends(heap, ledger, past, birth, hp2, lg2, past2, birth2)
         /\ past2[n + 1] = told
         /\ Objects(hp2, lg2, past2, birth2)
         /\ Entry(partial, hp2, lg2, past2, birth2, o, t, n + 1)
  <2>1. n + 1 \in 1 .. n + 1
    BY <1>3
  <2> QED
    BY <1>2, <1>4, <1>5, <1>6, <1>9, <2>1, RowAndObject DEF lg2, told
<1>11. /\ ledger' = lg2 /\ heap' = hp2 /\ targets' = [targets EXCEPT ![t] = o]
       /\ phase' = phase /\ phaseVersion' = phaseVersion /\ checkpoints' = checkpoints
       /\ partial' = partial /\ inflated' = inflated
  BY DEF UpsertTarget, lg2, row
<1> HIDE DEF hp2, o
<1>12. Tells(lg2, past2)
  BY <1>10 DEF Extends
<1>13. Registered(partial, hp2, lg2, past2, birth2, targets', n + 1)
  <2>1. Registered(partial, heap, ledger, past, birth, targets, n) /\ o \in Nat
    BY <1>2, <1>3 DEF ContextSound, InContext, o
  <2> QED
    BY <1>6, <1>10, <1>11, <2>1, ContextFollows
<1>14. ContextSound(partial, InContext', lg2, past2, birth2, inflated)
  <2>1. (past[n].phase = phase \/ (partial /\ phase = "init"))
        /\ (~partial /\ ~inflated => past[n].version = phaseVersion)
    BY <1>2 DEF ContextSound, InContext
  <2> QED
    BY <1>2, <1>3, <1>9, <1>10, <1>11, <1>13, <2>1 DEF ContextSound, InContext
<1>15. CheckpointsSound(partial, hp2, lg2, past2, birth2, inflated, checkpoints)
  BY <1>2, <1>10, ExtendedCheckpoints
<1>16. InContext' \in Context
  <2>1. hp2 \in Seq(Target)
    BY <1>10 DEF Objects
  <2>2. targets' \in [Targets -> Nat]
    BY <1>13 DEF Registered
  <2> QED
    BY <1>2, <1>11, <2>1, <2>2 DEF InContext, Context
<1>17. Sound(InContext', ledger', checkpoints', partial', live', inflated', past2, birth2)
  <2>1. InContext'.heap = hp2
    BY <1>11 DEF InContext
  <2> QED
    BY <1>3, <1>8, <1>10, <1>11, <1>12, <1>14, <1>15, <1>16, <2>1 DEF Sound
<1> QED
  BY <1>11, <1>17 DEF RecoveryInv

\* The host changes a target: the context gets a new object of it, which no row has.
LEMMA ChangeStep ==
    ASSUME RecoveryInv, NEW kind \in TargetKinds, NEW t \in Targets, NEW m \in Nodes,
           ChangeTarget(kind, t, m)
    PROVE  RecoveryInv'
<1>1. PICK past, birth :
        Sound(InContext, ledger, checkpoints, partial, live, inflated, past, birth)
  BY DEF RecoveryInv
<1> DEFINE n == Len(ledger)
           o == Len(heap) + 1
           b == birth[targets[t]]
           v == heap[targets[t]]
           w == After(kind, v, m)
           row == TargetRow(kind, t, m)
           lg2 == Append(ledger, row)
           hp2 == Append(heap, w)
<1>2. /\ Tells(ledger, past) /\ Objects(heap, ledger, past, birth) /\ past[n] = live
      /\ CheckpointsSound(partial, heap, ledger, past, birth, inflated, checkpoints)
      /\ InContext \in Context /\ ContextSound(partial, InContext, ledger, past, birth, inflated)
  BY <1>1 DEF Sound, ChangeTarget, InContext
<1>3. /\ n \in Nat /\ Len(lg2) = n + 1 /\ lg2[n + 1] = row /\ past[n] \in Mission
      /\ Len(heap) \in Nat /\ heap \in Seq(Target)
      /\ \A k \in 1 .. n : lg2[k] = ledger[k]
  BY <1>2 DEF Tells, Objects
<1>4. /\ row \in Row /\ row.kind = kind /\ row.target = t /\ row.node = m
      /\ row.kind # "target_upsert"
  BY DEF TargetRow, Row, TargetKinds
<1> HIDE DEF row
<1>5. /\ \A u \in Targets : ~IsUpsert(lg2, n + 1, u)
      /\ \A u \in Targets : u # t => ~IsChange(lg2, n + 1, u)
      /\ IsChange(lg2, n + 1, t)
  BY <1>3, <1>4 DEF IsUpsert, IsChange
<1>6. OfTarget(ledger, birth, targets[t], t, n) /\ live.targets[t] = <<v>>
  <2>1. Entry(partial, heap, ledger, past, birth, targets[t], t, n) /\ targets[t] # Unknown
    BY <1>2 DEF ContextSound, Registered, InContext, ChangeTarget
  <2>2. OfTarget(ledger, birth, targets[t], t, n) /\ Shows(ledger, past, v, t, n)
    BY <2>1 DEF Entry
  <2>3. past[n].targets[t] = <<v>>
    BY <1>3, <2>2 DEF Shows
  <2> QED
    BY <1>2, <2>2, <2>3
<1>7. targets[t] \in 1 .. Len(heap) /\ b \in 1 .. n /\ v \in Target
  <2>1. targets[t] \in 1 .. Len(heap)
    BY <1>2, <1>6 DEF OfTarget, Objects
  <2> QED
    BY <1>2, <2>1 DEF Objects
<1>8. w \in Target
  BY <1>7, AfterFacts
<1>9. IsUpsert(lg2, b, t) /\ NoUpsert(lg2, t, b, n + 1)
  <2>1. IsUpsert(ledger, b, t) /\ NoUpsert(ledger, t, b, n)
    BY <1>6 DEF OfTarget
  <2> HIDE DEF lg2, b
  <2>2. IsUpsert(lg2, b, t)
    BY <1>3, <1>7, <2>1 DEF IsUpsert
  <2>3. ASSUME NEW k \in (b + 1) .. (n + 1) PROVE ~IsUpsert(lg2, k, t)
    <3>1. CASE k = n + 1
      BY <1>5, <3>1
    <3>2. CASE k # n + 1
      <4>1. k \in (b + 1) .. n /\ k \in 1 .. n
        BY <1>3, <1>7, <3>2
      <4> QED
        BY <1>3, <2>1, <4>1 DEF NoUpsert, IsUpsert
    <3> QED
      BY <3>1, <3>2
  <2> QED
    BY <2>2, <2>3 DEF NoUpsert
<1> HIDE DEF lg2
<1> DEFINE told == Told(lg2, live, n + 1)
<1>10. told = [phase |-> live.phase, version |-> live.version,
               targets |-> [live.targets EXCEPT ![t] = <<w>>]]
  <2>1. live.targets \in [Targets -> {<<>>} \cup {<<x>> : x \in Target}]
    BY <1>2, <1>3 DEF Mission
  <2>2. TargetTold(lg2, live, n + 1, t) = <<w>>
    <3>1. TargetTold(lg2, live, n + 1, t) =
            <<After(lg2[n + 1].kind, live.targets[t][1], lg2[n + 1].node)>>
      BY <1>5 DEF TargetTold
    <3>2. live.targets[t][1] = v
      BY <1>6
    <3> QED
      BY <1>3, <1>4, <3>1, <3>2
  <2>3. \A u \in Targets : u # t => TargetTold(lg2, live, n + 1, u) = live.targets[u]
    BY <1>5 DEF TargetTold
  <2> HIDE DEF w
  <2>4. [u \in Targets |-> TargetTold(lg2, live, n + 1, u)] =
          [live.targets EXCEPT ![t] = <<w>>]
    BY <2>1, <2>2, <2>3
  <2>5. lg2[n + 1].kind # "phase_transition_commit"
    BY <1>3, <1>4 DEF TargetKinds
  <2> QED
    BY <2>4, <2>5 DEF Told
<1> HIDE DEF told
<1>11. told = live'
  <2>1. live' = [live EXCEPT !.targets[t] = <<After(kind, live.targets[t][1], m)>>]
    BY DEF ChangeTarget
  <2>2. live.targets[t][1] = v
    BY <1>6
  <2>3. live' = [live EXCEPT !.targets[t] = <<w>>]
    BY <2>1, <2>2
  <2> HIDE DEF w
  <2> QED
    BY <1>2, <1>3, <1>10, <2>3 DEF Mission
<1>12. told.targets[t] = <<w>> /\ told.phase = live.phase /\ told.version = live.version
  <2> HIDE DEF w
  <2> QED
    BY <1>2, <1>3, <1>10 DEF Mission
<1>13. PICK past2, birth2 :
         /\ Extends(heap, ledger, past, birth, hp2, lg2, past2, birth2)
         /\ past2[n + 1] = told
         /\ Objects(hp2, lg2, past2, birth2)
         /\ Entry(partial, hp2, lg2, past2, birth2, o, t, n + 1)
  <2>1. b \in 1 .. n + 1
    BY <1>3, <1>7
  <2>2. row.kind \in TargetKinds => past[n].targets[row.target] # <<>>
    <3>1. <<v>> # <<>>
      OBVIOUS
    <3> QED
      BY <1>2, <1>4, <1>6, <3>1
  <2> HIDE DEF w, b
  <2> QED
    BY <1>2, <1>4, <1>8, <1>9, <1>12, <2>1, <2>2, RowAndObject DEF lg2, told
<1>14. /\ ledger' = lg2 /\ heap' = hp2 /\ targets' = [targets EXCEPT ![t] = o]
       /\ phase' = phase /\ phaseVersion' = phaseVersion /\ checkpoints' = checkpoints
       /\ partial' = partial /\ inflated' = inflated
  BY DEF ChangeTarget, lg2, row
<1> HIDE DEF hp2, o, w, b, v
<1>15. Tells(lg2, past2)
  BY <1>13 DEF Extends
<1>16. Registered(partial, hp2, lg2, past2, birth2, targets', n + 1)
  <2>1. Registered(partial, heap, ledger, past, birth, targets, n) /\ o \in Nat
    BY <1>2, <1>3 DEF ContextSound, InContext, o
  <2> QED
    BY <1>5, <1>13, <1>14, <2>1, ContextFollows
<1>17. ContextSound(partial, InContext', lg2, past2, birth2, inflated)
  <2>1. (past[n].phase = phase \/ (partial /\ phase = "init"))
        /\ (~partial /\ ~inflated => past[n].version = phaseVersion)
    BY <1>2 DEF ContextSound, InContext
  <2>2. Len(lg2) = n + 1
    BY <1>3
  <2> QED
    BY <1>2, <1>12, <1>13, <1>14, <1>16, <2>1, <2>2 DEF ContextSound, InContext
<1>18. CheckpointsSound(partial, hp2, lg2, past2, birth2, inflated, checkpoints)
  BY <1>2, <1>13, ExtendedCheckpoints
<1>19. InContext' \in Context
  <2>1. hp2 \in Seq(Target)
    BY <1>13 DEF Objects
  <2>2. targets' \in [Targets -> Nat]
    BY <1>16 DEF Registered
  <2> QED
    BY <1>2, <1>14, <2>1, <2>2 DEF InContext, Context
<1>20. Sound(InContext', ledger', checkpoints', partial', live', inflated', past2, birth2)
  <2>1. InContext'.heap = hp2 /\ Len(lg2) = n + 1
    BY <1>3, <1>14 DEF InContext
  <2> QED
    BY <1>11, <1>13, <1>14, <1>15, <1>17, <1>18, <1>19, <2>1 DEF Sound
<1> QED
  BY <1>14, <1>20 DEF RecoveryInv

\* The host moves to another phase: one row, one version.
LEMMA PhaseStep ==
    ASSUME RecoveryInv, NEW to \in Phases, SetPhase(to)
    PROVE  RecoveryInv'
<1>1. PICK past, birth :
        Sound(InContext, ledger, checkpoints, partial, live, inflated, past, birth)
  BY DEF RecoveryInv
<1> DEFINE n == Len(ledger)
           row == PhaseRow(to)
           lg2 == Append(ledger, row)
<1>2. /\ Tells(ledger, past) /\ Objects(heap, ledger, past, birth) /\ past[n] = live
      /\ CheckpointsSound(partial, heap, ledger, past, birth, inflated, checkpoints)
      /\ InContext \in Context /\ ContextSound(partial, InContext, ledger, past, birth, inflated)
  BY <1>1 DEF Sound, SetPhase, InContext
<1>3. n \in Nat /\ Len(lg2) = n + 1 /\ lg2[n + 1] = row /\ past[n] \in Mission
  BY <1>2 DEF Tells
<1>4. row \in Row /\ row.kind = "phase_transition_commit" /\ row.to = to
  BY DEF PhaseRow, Row
<1> HIDE DEF row
<1>5. row.kind # "target_upsert" /\ row.kind \notin TargetKinds
  BY <1>4 DEF TargetKinds
<1>6. \A u \in Targets : ~IsUpsert(lg2, n + 1, u) /\ ~IsChange(lg2, n + 1, u)
  BY <1>3, <1>5 DEF IsUpsert, IsChange
<1>7. PICK past2 :
        /\ Extends(heap, ledger, past, birth, heap, lg2, past2, birth)
        /\ past2[n + 1] = Told(lg2, past[n], n + 1)
        /\ Objects(heap, lg2, past2, birth)
  BY <1>2, <1>4, <1>5, RowOnly
<1>8. /\ ledger' = lg2 /\ heap' = heap /\ targets' = targets
      /\ phase' = to /\ phaseVersion' = phaseVersion + 1 /\ checkpoints' = checkpoints
      /\ partial' = partial /\ inflated' = inflated
  BY DEF SetPhase, row
<1> HIDE DEF lg2
<1>9. past2[n + 1] = [phase |-> to, version |-> live.version + 1, targets |-> live.targets]
  <2>1. live.targets \in [Targets -> {<<>>} \cup {<<x>> : x \in Target}]
    BY <1>2, <1>3 DEF Mission
  <2>2. \A u \in Targets : TargetTold(lg2, live, n + 1, u) = live.targets[u]
    BY <1>6 DEF TargetTold
  <2>3. [u \in Targets |-> TargetTold(lg2, live, n + 1, u)] = live.targets
    BY <2>1, <2>2
  <2> QED
    BY <1>2, <1>3, <1>4, <1>7, <2>3 DEF Told
<1>10. past2[n + 1] = live'
  <2>1. live \in Mission /\ live' = [live EXCEPT !.phase = to, !.version = @ + 1]
    BY <1>2, <1>3 DEF SetPhase
  <2>2. live' = [phase |-> to, version |-> live.version + 1, targets |-> live.targets]
    BY <2>1 DEF Mission
  <2> QED
    BY <1>9, <2>2
<1>11. Tells(lg2, past2)
  BY <1>7 DEF Extends
<1>12. Registered(partial, heap, lg2, past2, birth, targets, n + 1)
  BY <1>2, <1>6, <1>7, ContextStays DEF ContextSound, InContext
<1>13. ContextSound(partial, InContext', lg2, past2, birth, inflated)
  <2>1. ~partial /\ ~inflated => past[n].version = phaseVersion
    BY <1>2 DEF ContextSound, InContext
  <2>2. past2[n + 1].phase = to /\ past2[n + 1].version = past[n].version + 1
    BY <1>2, <1>9
  <2>3. Len(lg2) = n + 1
    BY <1>3
  <2> QED
    BY <1>8, <1>12, <2>1, <2>2, <2>3 DEF ContextSound, InContext
<1>14. CheckpointsSound(partial, heap, lg2, past2, birth, inflated, checkpoints)
  BY <1>2, <1>7, ExtendedCheckpoints
<1>15. InContext' \in Context
  BY <1>2, <1>8 DEF InContext, Context
<1>16. Sound(InContext', ledger', checkpoints', partial', live', inflated', past2, birth)
  <2>1. InContext'.heap = heap /\ Len(lg2) = n + 1
    BY <1>3, <1>8 DEF InContext
  <2> QED
    BY <1>7, <1>8, <1>10, <1>11, <1>13, <1>14, <1>15, <2>1 DEF Sound
<1> QED
  BY <1>8, <1>16 DEF RecoveryInv

\* The row of another mission tells nothing of this one.
LEMMA ForeignStep ==
    ASSUME RecoveryInv, ForeignAppend
    PROVE  RecoveryInv'
<1>1. PICK past, birth :
        Sound(InContext, ledger, checkpoints, partial, live, inflated, past, birth)
  BY DEF RecoveryInv
<1>2. PICK past2 : Sound(InContext, Append(ledger, ForeignRow), checkpoints, partial, live,
                         inflated, past2, birth)
  BY <1>1, OtherAppended
<1>3. /\ InContext' = InContext /\ ledger' = Append(ledger, ForeignRow)
      /\ checkpoints' = checkpoints /\ partial' = partial /\ live' = live
      /\ inflated' = inflated
  BY DEF ForeignAppend, InContext
<1>4. Sound(InContext', ledger', checkpoints', partial', live', inflated', past2, birth)
  BY <1>2, <1>3
<1> QED
  BY <1>3, <1>4 DEF RecoveryInv

\* A checkpoint of a sound context is sound, and newer than those before it.
LEMMA CheckpointStep ==
    ASSUME RecoveryInv, createCheckpoint
    PROVE  RecoveryInv'
<1>1. PICK past, birth :
        Sound(InContext, ledger, checkpoints, partial, live, inflated, past, birth)
  BY DEF RecoveryInv
<1>2. PICK later \in BOOLEAN :
         checkpoints' = Append(checkpoints,
            [phase |-> phase, phaseVersion |-> phaseVersion, targetRegistry |-> targets,
             lastLedgerHash |-> Len(ledger),
             createdAtMs |-> IF checkpoints = <<>> THEN 1
                             ELSE Last(checkpoints).createdAtMs + (IF later THEN 1 ELSE 0)])
  BY DEF createCheckpoint
<1> DEFINE c == Len(checkpoints)
           at == IF checkpoints = <<>> THEN 1
                 ELSE Last(checkpoints).createdAtMs + (IF later THEN 1 ELSE 0)
           cp == [phase |-> phase, phaseVersion |-> phaseVersion, targetRegistry |-> targets,
                  lastLedgerHash |-> Len(ledger), createdAtMs |-> at]
           cps2 == Append(checkpoints, cp)
<1>3. /\ Tells(ledger, past)
      /\ CheckpointsSound(partial, heap, ledger, past, birth, inflated, checkpoints)
      /\ InContext \in Context /\ ContextSound(partial, InContext, ledger, past, birth, inflated)
  BY <1>1 DEF Sound, createCheckpoint, InContext
<1>4. /\ checkpoints \in Seq(Checkpoint) /\ c \in Nat
      /\ \A i \in 1 .. c : checkpoints[i].createdAtMs \in Nat
      /\ \A i, j \in 1 .. c : i <= j => checkpoints[i].createdAtMs <= checkpoints[j].createdAtMs
  <2>1. /\ checkpoints \in Seq(Checkpoint)
        /\ \A i, j \in 1 .. c : i <= j => checkpoints[i].createdAtMs <= checkpoints[j].createdAtMs
    BY <1>3 DEF CheckpointsSound
  <2>2. \A i \in 1 .. c : checkpoints[i] \in Checkpoint
    BY <2>1
  <2>3. \A i \in 1 .. c : checkpoints[i].createdAtMs \in Nat
    BY <2>2 DEF Checkpoint
  <2> QED
    BY <2>1, <2>3
<1>5. at \in Nat /\ \A i \in 1 .. c : checkpoints[i].createdAtMs <= at
  <2>1. CASE checkpoints = <<>>
    BY <2>1
  <2>2. CASE checkpoints # <<>>
    <3>1. c \in 1 .. c /\ Last(checkpoints) = checkpoints[c]
      BY <1>4, <2>2 DEF Last
    <3>2. Last(checkpoints).createdAtMs \in Nat
      BY <1>4, <3>1
    <3>3. \A i \in 1 .. c : checkpoints[i].createdAtMs <= Last(checkpoints).createdAtMs
      BY <1>4, <3>1
    <3> QED
      BY <1>4, <2>2, <3>2, <3>3
  <2> QED
    BY <2>1, <2>2
<1> HIDE DEF at
<1>6. Len(ledger) \in Nat
  BY <1>3 DEF Tells
<1>7. cp \in Checkpoint
  BY <1>3, <1>5, <1>6 DEF Checkpoint, InContext, Context
<1>8. CheckpointSound(partial, heap, ledger, past, birth, inflated, cp)
  BY <1>3, <1>6 DEF CheckpointSound, ContextSound, InContext
<1>9. cp.createdAtMs = at
  OBVIOUS
<1> HIDE DEF cp
<1>10. /\ cps2 \in Seq(Checkpoint) /\ Len(cps2) = c + 1 /\ cps2[c + 1] = cp
       /\ \A i \in 1 .. c : cps2[i] = checkpoints[i]
  BY <1>4, <1>7
<1> HIDE DEF cps2
<1>11. CheckpointsSound(partial, heap, ledger, past, birth, inflated, cps2)
  <2>1. ASSUME NEW i \in 1 .. c + 1, NEW j \in 1 .. c + 1, i <= j
        PROVE  cps2[i].createdAtMs <= cps2[j].createdAtMs
    <3>1. CASE j = c + 1 /\ i = c + 1
      BY <1>5, <1>9, <1>10, <3>1
    <3>2. CASE j = c + 1 /\ i # c + 1
      <4>1. i \in 1 .. c
        BY <1>4, <3>2
      <4> QED
        BY <1>5, <1>9, <1>10, <3>2, <4>1
    <3>3. CASE j # c + 1
      <4>1. i \in 1 .. c /\ j \in 1 .. c
        BY <1>4, <2>1, <3>3
      <4> QED
        BY <1>4, <1>10, <2>1, <4>1
    <3> QED
      BY <3>1, <3>2, <3>3
  <2>2. ASSUME NEW i \in 1 .. c + 1
        PROVE  CheckpointSound(partial, heap, ledger, past, birth, inflated, cps2[i])
    <3>1. CASE i = c + 1
      BY <1>8, <1>10, <3>1
    <3>2. CASE i # c + 1
      <4>1. i \in 1 .. c
        BY <1>4, <3>2
      <4> QED
        BY <1>3, <1>10, <4>1 DEF CheckpointsSound
    <3> QED
      BY <3>1, <3>2
  <2> QED
    BY <1>10, <2>1, <2>2 DEF CheckpointsSound
<1>12. Sound(InContext, ledger, cps2, partial, live, inflated, past, birth)
  <2>1. InContext.heap = heap
    BY DEF InContext
  <2> QED
    BY <1>1, <1>3, <1>11, <2>1 DEF Sound
<1>13. PICK past2 : Sound(InContext, Append(ledger, OtherRow), cps2, partial, live,
                          inflated, past2, birth)
  BY <1>12, OtherAppended
<1>14. checkpoints' = cps2
  BY <1>2 DEF cps2, cp, at
<1>15. /\ InContext' = InContext /\ ledger' = Append(ledger, OtherRow)
       /\ partial' = partial /\ live' = live /\ inflated' = inflated
  BY DEF createCheckpoint, InContext
<1>16. Sound(InContext', ledger', checkpoints', partial', live', inflated', past2, birth)
  BY <1>13, <1>14, <1>15
<1> QED
  BY <1>15, <1>16 DEF RecoveryInv

\* A new coordinator forgets context and checkpoints; rows and objects stay.
LEMMA CoordinatorStep ==
    ASSUME RecoveryInv, NewCoordinator
    PROVE  RecoveryInv'
<1>1. PICK past, birth :
        Sound(InContext, ledger, checkpoints, partial, live, inflated, past, birth)
  BY DEF RecoveryInv
<1>2. /\ heap' = heap /\ ledger' = ledger /\ live' = live /\ partial' = TRUE
      /\ inflated' = FALSE /\ checkpoints' = <<>>
      /\ targets' = [t \in Targets |-> Unknown] /\ phase' = "init" /\ phaseVersion' = 0
  BY DEF NewCoordinator, Fresh
<1>3. ContextSound(partial', InContext', ledger, past, birth, inflated')
  <2>1. targets' \in [Targets -> Nat] /\ \A t \in Targets : targets'[t] = Unknown
    BY <1>2 DEF Unknown
  <2> QED
    BY <1>2, <2>1 DEF ContextSound, Registered, Entry, InContext
<1>4. InContext' \in Context /\ InContext'.heap = InContext.heap
  BY <1>1, <1>2 DEF Sound, InContext, Context, Unknown
<1>5. CheckpointsSound(partial', InContext.heap, ledger, past, birth, inflated', checkpoints')
  BY <1>2 DEF CheckpointsSound
<1>6. Sound(InContext', ledger', checkpoints', partial', live', inflated', past, birth)
  BY <1>1, <1>2, <1>3, <1>4, <1>5 DEF Sound
<1> QED
  BY <1>2, <1>6 DEF RecoveryInv

\* The checkpoint to restore from is one of the coordinator's.
LEMMA LatestIs ==
    ASSUME NEW past, NEW birth, checkpoints # <<>>,
           CheckpointsSound(partial, heap, ledger, past, birth, inflated, checkpoints)
    PROVE  latest \in 1 .. Len(checkpoints)
<1> DEFINE c == Len(checkpoints)
           newest == Last(checkpoints).createdAtMs
           Newest == {i \in 1 .. c : checkpoints[i].createdAtMs = newest}
<1>1. /\ checkpoints \in Seq(Checkpoint) /\ c \in Nat
      /\ \A i \in 1 .. c : checkpoints[i].createdAtMs \in Nat
      /\ \A i, j \in 1 .. c : i <= j => checkpoints[i].createdAtMs <= checkpoints[j].createdAtMs
  <2>1. /\ checkpoints \in Seq(Checkpoint)
        /\ \A i, j \in 1 .. c : i <= j => checkpoints[i].createdAtMs <= checkpoints[j].createdAtMs
    BY DEF CheckpointsSound
  <2>2. \A i \in 1 .. c : checkpoints[i] \in Checkpoint
    BY <2>1
  <2>3. \A i \in 1 .. c : checkpoints[i].createdAtMs \in Nat
    BY <2>2 DEF Checkpoint
  <2> QED
    BY <2>1, <2>3
<1>2. c \in 1 .. c /\ Last(checkpoints) = checkpoints[c] /\ DOMAIN checkpoints = 1 .. c
  BY <1>1 DEF Last
<1>3. c \in Newest /\ Newest \subseteq Nat
  BY <1>2
<1>4. PICK i \in Newest : \A j \in Newest : i <= j
  <2> HIDE DEF Newest
  <2> QED
    BY <1>3, LeastNat
<1>5. ASSUME NEW j \in 1 .. (i - 1) PROVE checkpoints[j].createdAtMs < newest
  <2>1. j \in 1 .. c /\ j \notin Newest /\ j <= c
    BY <1>1, <1>4
  <2>2. checkpoints[j].createdAtMs <= newest /\ checkpoints[j].createdAtMs # newest
    BY <1>1, <1>2, <2>1
  <2> QED
    BY <1>1, <1>2, <2>1, <2>2
<1>6. \E k \in DOMAIN checkpoints :
        /\ checkpoints[k].createdAtMs = newest
        /\ \A j \in 1 .. (k - 1) : checkpoints[j].createdAtMs < newest
  BY <1>2, <1>4, <1>5
<1> HIDE DEF newest
<1>7. latest = CHOOSE k \in DOMAIN checkpoints :
                 /\ checkpoints[k].createdAtMs = newest
                 /\ \A j \in 1 .. (k - 1) : checkpoints[j].createdAtMs < newest
  BY DEF latest, newest
<1> QED
  BY <1>2, <1>6, <1>7

\* What restore leaves behind is sound.
LEMMA RestoreSound ==
    ASSUME RecoveryInv, restore
    PROVE  /\ partial' \in BOOLEAN /\ inflated' \in BOOLEAN
           /\ \E past, birth : Sound(InContext', ledger, checkpoints', partial', live',
                                     inflated', past, birth)
<1>1. PICK past, birth :
        Sound(InContext, ledger, checkpoints, partial, live, inflated, past, birth)
  BY DEF RecoveryInv
<1> DEFINE n == Len(ledger)
           rows == missionEventsAfter(Sealed)
           ctx == ReplayFrom(Start, rows)[n]
           counts == ~(partial /\ checkpoints # <<>>) /\ ~inflated /\ ~Recounts
           s == IF Found(Sealed) THEN Sealed ELSE 0
<1>2. /\ Tells(ledger, past) /\ Objects(heap, ledger, past, birth) /\ past[n] = live
      /\ CheckpointsSound(partial, heap, ledger, past, birth, inflated, checkpoints)
      /\ InContext \in Context /\ partial \in BOOLEAN /\ inflated \in BOOLEAN
      /\ ContextSound(partial, InContext, ledger, past, birth, inflated)
  BY <1>1 DEF Sound, RecoveryInv, InContext
<1>3. n \in Nat /\ n \in 0 .. n /\ 0 \in 0 .. n /\ past[0] = NoMission
  BY <1>2 DEF Tells
<1>4. \E z \in 0 .. n :
        /\ Start \in Context /\ Start.heap = heap
        /\ Registered(partial, heap, ledger, past, birth, Start.targets, z)
        /\ Start.phase = past[z].phase \/ (partial /\ Start.phase = "init")
        /\ s = z \/ s = 0
        /\ s # 0 => checkpoints # <<>>
        /\ counts => Start.version = past[s].version
  <2>1. CASE checkpoints = <<>>
    <3>1. Start = InContext /\ s = 0 /\ Recounts = (Start.version > 0)
      BY <2>1 DEF Start, InContext, Sealed, Found, Recounts
    <3> HIDE DEF s
    <3>2. Registered(partial, heap, ledger, past, birth, InContext.targets, n)
      BY <1>2 DEF ContextSound, InContext
    <3>3. /\ InContext.phase = past[n].phase \/ (partial /\ InContext.phase = "init")
          /\ InContext.heap = heap
      BY <1>2 DEF ContextSound, InContext
    <3>4. ~Recounts => Start.version = past[0].version
      <4>1. Start.version \in Nat
        BY <1>2, <3>1 DEF Context
      <4>2. past[0].version = 0
        BY <1>3 DEF NoMission
      <4>3. ~(Start.version > 0) => Start.version = 0
        BY <4>1
      <4> QED
        BY <3>1, <4>2, <4>3
    <3> HIDE DEF counts
    <3>5. counts => ~Recounts
      BY DEF counts
    <3> QED
      BY <1>2, <1>3, <2>1, <3>1, <3>2, <3>3, <3>4, <3>5
  <2>2. CASE checkpoints # <<>>
    <3> DEFINE cp == checkpoints[latest]
               z == cp.lastLedgerHash
    <3>1. latest \in 1 .. Len(checkpoints)
      BY <1>2, <2>2, LatestIs
    <3>2. cp \in Checkpoint /\ CheckpointSound(partial, heap, ledger, past, birth, inflated, cp)
      BY <1>2, <3>1 DEF CheckpointsSound
    <3>3. Start = Baseline(cp) /\ Sealed = z /\ Recounts = (~Found(z) /\ Start.version > 0)
      BY <2>2 DEF Start, Sealed, Recounts
    <3> HIDE DEF cp
    <3>4. /\ Start \in Context /\ Start.heap = heap /\ Start.targets = cp.targetRegistry
          /\ Start.phase = cp.phase /\ Start.version = cp.phaseVersion
      BY <1>2, <3>2, <3>3 DEF Baseline, Context, Checkpoint, InContext
    <3>5. /\ z \in 0 .. n
          /\ cp.phase = past[z].phase \/ (partial /\ cp.phase = "init")
          /\ ~partial /\ ~inflated => cp.phaseVersion = past[z].version
          /\ Registered(partial, heap, ledger, past, birth, cp.targetRegistry, z)
      BY <3>2 DEF CheckpointSound
    <3>6. (s = z \/ s = 0) /\ (counts => Start.version = past[s].version)
      <4>1. CASE Found(z)
        <5>1. s = z
          BY <3>3, <4>1
        <5> HIDE DEF s
        <5> QED
          BY <2>2, <3>4, <3>5, <5>1
      <4>2. CASE ~Found(z)
        <5>1. s = 0 /\ (~Recounts => ~(Start.version > 0))
          BY <3>3, <4>2
        <5>2. Start.version \in Nat
          BY <3>4 DEF Context
        <5>3. ~Recounts => Start.version = 0
          BY <5>1, <5>2
        <5>4. past[0].version = 0
          BY <1>3 DEF NoMission
        <5> HIDE DEF s
        <5> QED
          BY <5>1, <5>3, <5>4
      <4> QED
        BY <4>1, <4>2
    <3> HIDE DEF z, s, counts
    <3> QED
      BY <2>2, <3>4, <3>5, <3>6
  <2> QED
    BY <2>1, <2>2
<1>5. PICK z \in 0 .. n :
        /\ Start \in Context /\ Start.heap = heap
        /\ Registered(partial, heap, ledger, past, birth, Start.targets, z)
        /\ Start.phase = past[z].phase \/ (partial /\ Start.phase = "init")
        /\ s = z \/ s = 0
        /\ s # 0 => checkpoints # <<>>
        /\ counts => Start.version = past[s].version
  BY <1>4
<1>6. s \in 0 .. n
  BY <1>3, <1>5
<1>7. \A i \in 1 .. s : i \notin rows
  BY <1>6 DEF missionEventsAfter
<1>8. \A i \in (s + 1) .. n : i \in rows \/ ledger[i].kind = "foreign"
  <2>1. DOMAIN ledger = 1 .. n
    BY <1>2 DEF Tells
  <2>2. ASSUME NEW i \in (s + 1) .. n, ledger[i].kind # "foreign" PROVE i \in rows
    <3>1. i \in DOMAIN ledger /\ (Found(Sealed) => i > Sealed)
      BY <1>3, <1>6, <2>1
    <3> QED
      BY <2>2, <3>1 DEF missionEventsAfter, IsOurs
  <2> QED
    BY <2>2
<1> DEFINE blank == partial /\ s # 0
<1> HIDE DEF s, rows
<1>9. Rebuilt(blank, heap, ledger, past, birth, Start, z, counts, s)
  <2> HIDE DEF counts
  <2> QED
    BY <1>2, <1>5, StartRebuilt
<1>10. Rebuilt(blank, heap, ledger, past, birth, ctx, z, counts, n)
  <2> HIDE DEF counts, blank
  <2> QED
    BY <1>2, <1>6, <1>7, <1>8, <1>9, LoopRebuilds
<1> HIDE DEF ctx
<1>11. /\ ctx \in Context
       /\ Objects(ctx.heap, ledger, past, birth)
       /\ Registered(blank, ctx.heap, ledger, past, birth, ctx.targets, n)
       /\ ctx.phase = past[n].phase \/ (blank /\ ctx.phase = "init")
       /\ counts => ctx.version = past[n].version
  <2> HIDE DEF counts, blank
  <2> QED
    BY <1>2, <1>10, RebuiltAtEnd
<1>12. /\ heap' = ctx.heap /\ targets' = ctx.targets /\ phase' = ctx.phase
       /\ phaseVersion' = ctx.version /\ partial' = (partial /\ checkpoints # <<>>)
       /\ inflated' = (inflated \/ Recounts) /\ checkpoints' = checkpoints /\ live' = live
  BY DEF restore, ctx, rows
<1>13. InContext' = ctx
  BY <1>11, <1>12 DEF InContext, Context
<1>14. /\ ~partial' /\ ~inflated' => counts
       /\ ~inflated' => ~inflated
       /\ blank => partial'
       /\ checkpoints # <<>> => partial' = partial
  BY <1>2, <1>5, <1>12
<1>15. partial' \in BOOLEAN /\ inflated' \in BOOLEAN
  <2>1. Recounts \in BOOLEAN
    BY <1>2 DEF Recounts
  <2> QED
    BY <1>2, <1>12, <2>1
<1> HIDE DEF counts, blank
<1>16. ContextSound(partial', InContext', ledger, past, birth, inflated')
  <2>1. Registered(partial', ctx.heap, ledger, past, birth, ctx.targets, n)
    BY <1>11, <1>14 DEF Registered, Entry
  <2> QED
    BY <1>11, <1>13, <1>14, <2>1 DEF ContextSound
<1>17. CheckpointsSound(partial', ctx.heap, ledger, past, birth, inflated', checkpoints)
  <2>1. ASSUME NEW i \in 1 .. Len(checkpoints)
        PROVE  CheckpointSound(partial', ctx.heap, ledger, past, birth, inflated', checkpoints[i])
    <3>1. CheckpointSound(partial, heap, ledger, past, birth, inflated, checkpoints[i])
      BY <1>2 DEF CheckpointsSound
    <3>2. partial' = partial
      BY <1>14
    <3>3. Registered(partial, ctx.heap, ledger, past, birth, checkpoints[i].targetRegistry,
                     checkpoints[i].lastLedgerHash)
      BY <1>2, <1>10, <3>1, RegisteredAtEnd DEF CheckpointSound
    <3> QED
      BY <1>14, <3>1, <3>2, <3>3 DEF CheckpointSound
  <2> QED
    BY <1>2, <2>1 DEF CheckpointsSound
<1>18. Sound(InContext', ledger, checkpoints', partial', live', inflated', past, birth)
  BY <1>2, <1>11, <1>12, <1>13, <1>16, <1>17 DEF Sound
<1> QED
  BY <1>12, <1>15, <1>18

\* Neither does the row that rehydrateMissionState adds change it.
LEMMA RestoreStep ==
    ASSUME RecoveryInv, restoreFromLatestCheckpoint \/ rehydrateMissionState
    PROVE  RecoveryInv'
<1>1. restore
  BY DEF restoreFromLatestCheckpoint, rehydrateMissionState
<1>2. PICK past, birth :
        Sound(InContext', ledger, checkpoints', partial', live', inflated', past, birth)
  BY <1>1, RestoreSound
<1>3. partial' \in BOOLEAN /\ inflated' \in BOOLEAN
  BY <1>1, RestoreSound
<1>4. CASE restoreFromLatestCheckpoint
  <2>1. ledger' = ledger
    BY <1>4 DEF restoreFromLatestCheckpoint
  <2>2. Sound(InContext', ledger', checkpoints', partial', live', inflated', past, birth)
    BY <1>2, <2>1
  <2> QED
    BY <1>3, <2>2 DEF RecoveryInv
<1>5. CASE rehydrateMissionState
  <2>1. ledger' = Append(ledger, OtherRow)
    BY <1>5 DEF rehydrateMissionState
  <2>2. PICK past2 : Sound(InContext', Append(ledger, OtherRow), checkpoints', partial',
                           live', inflated', past2, birth)
    BY <1>2, OtherAppended
  <2>3. Sound(InContext', ledger', checkpoints', partial', live', inflated', past2, birth)
    BY <2>1, <2>2
  <2> QED
    BY <1>3, <2>3 DEF RecoveryInv
<1> QED
  BY <1>4, <1>5

\* Whatever was changed, sealed, lost and replayed, and in whatever order: the rows tell
\* the mission, and context, checkpoints and objects are those of some row.
THEOREM RecoveryInvariance == RecoverySpec => []RecoveryInv
<1>1. RecoveryInit => RecoveryInv
  BY RecoveryInitial
<1>2. RecoveryInv /\ [RecoveryNext]_recoveryVars => RecoveryInv'
  <2> SUFFICES ASSUME RecoveryInv, [RecoveryNext]_recoveryVars PROVE RecoveryInv'
    OBVIOUS
  <2>1. ASSUME NEW t \in Targets, UpsertTarget(t) PROVE RecoveryInv'
    BY <2>1, UpsertStep
  <2>2. ASSUME NEW kind \in TargetKinds, NEW t \in Targets, NEW n \in Nodes,
               ChangeTarget(kind, t, n)
        PROVE  RecoveryInv'
    BY <2>2, ChangeStep
  <2>3. ASSUME NEW to \in Phases, SetPhase(to) PROVE RecoveryInv'
    BY <2>3, PhaseStep
  <2>4. CASE ForeignAppend
    BY <2>4, ForeignStep
  <2>5. CASE createCheckpoint
    BY <2>5, CheckpointStep
  <2>6. CASE NewCoordinator
    BY <2>6, CoordinatorStep
  <2>7. CASE restoreFromLatestCheckpoint \/ rehydrateMissionState
    BY <2>7, RestoreStep
  <2>8. CASE UNCHANGED recoveryVars
    <3>1. InContext' = InContext /\ ledger' = ledger /\ checkpoints' = checkpoints
          /\ partial' = partial /\ live' = live /\ inflated' = inflated
      BY <2>8 DEF recoveryVars, InContext
    <3> QED
      BY <3>1 DEF RecoveryInv
  <2> QED
    BY <2>1, <2>2, <2>3, <2>4, <2>5, <2>6, <2>7, <2>8 DEF RecoveryNext
<1> QED
  BY <1>1, <1>2, PTL DEF RecoverySpec

\* What the invariant says of the context.
LEMMA Holds ==
    ASSUME RecoveryInv
    PROVE  /\ phase = live.phase \/ (partial /\ phase = Fresh.phase)
           /\ ~partial /\ ~inflated => phaseVersion = live.version
           /\ \A t \in Targets :
                ValueOf(t) = live.targets[t] \/ (partial /\ ValueOf(t) = <<>>)
<1>1. PICK past, birth :
        Sound(InContext, ledger, checkpoints, partial, live, inflated, past, birth)
  BY DEF RecoveryInv
<1>2. /\ ContextSound(partial, InContext, ledger, past, birth, inflated)
      /\ past[Len(ledger)] = live /\ Len(ledger) \in Nat
  BY <1>1 DEF Sound, Tells
<1>3. ASSUME NEW t \in Targets
      PROVE  ValueOf(t) = live.targets[t] \/ (partial /\ ValueOf(t) = <<>>)
  <2>1. Entry(partial, heap, ledger, past, birth, targets[t], t, Len(ledger))
    BY <1>2 DEF ContextSound, Registered, InContext
  <2>2. CASE targets[t] = Unknown
    BY <1>2, <2>1, <2>2 DEF Entry, ValueOf
  <2>3. CASE targets[t] # Unknown
    <3>1. Shows(ledger, past, heap[targets[t]], t, Len(ledger))
      BY <2>1, <2>3 DEF Entry
    <3>2. past[Len(ledger)].targets[t] = <<heap[targets[t]]>>
      BY <1>2, <3>1 DEF Shows
    <3> QED
      BY <1>2, <2>3, <3>2 DEF ValueOf
  <2> QED
    BY <2>2, <2>3
<1> QED
  BY <1>2, <1>3 DEF ContextSound, InContext, Fresh

\* Recovery brings back the mission: phase and targets are those the host left, or as
\* far as a partial context knows them, for any number of targets, nodes, rows,
\* checkpoints, replays and coordinators, whether they restore before they are used or
\* not.
THEOREM MissionRebuilt == RecoverySpec => []RestoreRebuilds
<1>1. RecoveryInv => RestoreRebuilds
  BY Holds DEF RestoreRebuilds
<1> QED
  BY <1>1, RecoveryInvariance, PTL

\* And the version of the phase, unless rows were replayed that were counted already or
\* the context is partial.
THEOREM VersionIsRebuilt == RecoverySpec => []VersionRebuilt
<1>1. RecoveryInv => VersionRebuilt
  BY Holds DEF VersionRebuilt
<1> QED
  BY <1>1, RecoveryInvariance, PTL
===============================================================================
