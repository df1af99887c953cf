------------------------------- MODULE PbftOrder -------------------------------
(***************************************************************************)
(* PBFTCluster (swarm/bft_pbft.py): how many byzantine replicas an         *)
(* ordering survives.                                                      *)
(*                                                                         *)
(* The cluster is one scheduler without threads or messages, so a round is *)
(* a function of the view, the replicas' places in the sorted committee    *)
(* and the byzantine ones among them.  Replicas are their places,          *)
(* 0..(k - 1).  The verdict of validate_prepare on the proposed value is   *)
(* valid; it is the same at every replica.                                 *)
(***************************************************************************)
EXTENDS Integers, FiniteSets

Replicas(k) == 0..(k - 1)

\* active_replicas: the size of the committee of n nodes under a cap.
committee(cap, n) ==
    IF cap >= n THEN n ELSE IF cap >= 4 THEN cap ELSE IF n >= 4 THEN 4 ELSE n

quorum(k) == (2 * k) \div 3 + 1

primary(k, view) == view % k

\* Nobody prepares under a byzantine primary; the primary does not validate.
PrepareVotes(k, byzantine, view, valid) ==
    {r \in Replicas(k) \ byzantine :
        /\ primary(k, view) \notin byzantine
        /\ valid \/ r = primary(k, view)}

CommitVotes(k, byzantine, view, valid) == PrepareVotes(k, byzantine, view, valid) \ byzantine

\* run_consensus_round: the value is given the next sequence number.
RoundSucceeds(k, byzantine, view, valid) ==
    /\ Cardinality(PrepareVotes(k, byzantine, view, valid)) >= quorum(k)
    /\ Cardinality(CommitVotes(k, byzantine, view, valid)) >= quorum(k)

\* order: one round per view until one succeeds or maxViews are used up.
OrderSucceeds(k, byzantine, view, valid, maxViews) ==
    \E i \in 0..(maxViews - 1) : RoundSucceeds(k, byzantine, view + i, valid)
===============================================================================
