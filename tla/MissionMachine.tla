---------------------------- MODULE MissionMachine ----------------------------
(***************************************************************************)
(* MissionStateMachine and MissionPhasePolicy                              *)
(* (src/backend/shared/tashi-mission-map-machine.ts): the phase of a       *)
(* search-and-rescue mission, gated by the state of its targets.           *)
(*                                                                         *)
(* What depends on targets is exact.  The roster (nodes, roles, batteries, *)
(* ages), the map's coverage and target positions change under the         *)
(* machine at any time, so each evaluation finds the checks on them passed *)
(* or failed as it may be.  A target is its status; the event log and the  *)
(* commit callbacks, which change nothing here, are left out.              *)
(***************************************************************************)
EXTENDS Integers, Sequences, FiniteSetsExt, MissionPhases

CONSTANTS
    Targets,        \* target ids
    Expected,       \* objectives.totalTargetsExpected
    SafetyCritical, \* objectives.safetyCritical
    MaxTransitions, \* bound on the transition records
    MaxRejected,    \* bound on the rejected ones among them
    MaxTotal        \* bound on the objective counters

ASSUME MissionMachineAssumption ==
    /\ IsFiniteSet(Targets)
    /\ Expected \in Nat /\ SafetyCritical \in BOOLEAN
    /\ MaxTransitions \in Nat /\ MaxRejected \in Nat /\ MaxTotal \in Nat

VARIABLES
    phase, phaseVersion,
    transitions,     \* the transition records, accepted or not, oldest first
    targets,         \* per target its status, "none" when not known
    totalConfirmed,  \* objectives.totalTargetsConfirmed
    totalExtracted,  \* objectives.totalTargetsExtracted
    reopened         \* history: a target changed after the mission turned to return

machineVars ==
    <<phase, phaseVersion, transitions, targets, totalConfirmed, totalExtracted, reopened>>

Status == {"new", "confirmed", "assigned", "extracted", "lost"}

rank(status) ==
    CASE status = "new" -> 0
      [] status = "confirmed" -> 1
      [] status = "assigned" -> 2
      [] status = "extracted" -> 3
      [] status = "lost" -> 4

In(statuses) == Cardinality({t \in Targets : targets[t] \in statuses})
Confirmed == In({"confirmed", "assigned", "extracted"})
Assigned == In({"assigned", "extracted"})
Extracted == In({"extracted"})

MachineInit ==
    /\ phase = "init" /\ phaseVersion = 0
    /\ transitions = <<>>
    /\ targets = [t \in Targets |-> "none"]
    /\ totalConfirmed = 0 /\ totalExtracted = 0
    /\ reopened = FALSE
-------------------------------------------------------------------------------
\* A target changes, perhaps when the mission is on its way home already.
Retarget(t, status) ==
    /\ targets' = [targets EXCEPT ![t] = status]
    /\ reopened' = (reopened \/ (phase \in {"return", "complete"} /\ status # targets[t]))
    /\ UNCHANGED <<phase, phaseVersion, transitions>>

\* upsertTarget: the merge keeps the status of the higher rank.
upsertTarget(t, status) ==
    /\ Retarget(t, IF targets[t] = "none" \/ rank(status) >= rank(targets[t])
                   THEN status ELSE targets[t])
    /\ UNCHANGED <<totalConfirmed, totalExtracted>>

\* confirmTarget confirms a target of any status, and counts it when it was not.
confirmTarget(t) ==
    /\ targets[t] # "none"
    /\ totalConfirmed < MaxTotal
    /\ totalConfirmed' = totalConfirmed + (IF targets[t] = "confirmed" THEN 0 ELSE 1)
    /\ Retarget(t, "confirmed")
    /\ UNCHANGED totalExtracted

assignTarget(t) ==
    /\ targets[t] # "none"
    /\ Retarget(t, "assigned")
    /\ UNCHANGED <<totalConfirmed, totalExtracted>>

extractTarget(t) ==
    /\ targets[t] # "none"
    /\ totalExtracted < MaxTotal
    /\ totalExtracted' = totalExtracted + (IF targets[t] = "extracted" THEN 0 ELSE 1)
    /\ Retarget(t, "extracted")
    /\ UNCHANGED totalConfirmed
-------------------------------------------------------------------------------
areObjectivesComplete(covered) ==
    \/ Confirmed >= totalConfirmed
    \/ Extracted >= totalExtracted
    \/ Expected > 0 /\ Extracted >= Expected
    \/ covered /\ Confirmed = 0 /\ Expected = 0

\* Fault: targets that are still being brought out do not hold up the return.
NoOpenExtractionEver == TRUE

\* The return check on open extractions.
NoOpenExtraction == Assigned = 0 \/ Extracted >= Assigned

\* computeChecks: roster stands for the checks on nodes, coverage and positions.
ChecksPass(to, roster, covered) ==
    CASE to \in {"discovery", "search"} -> roster
      [] to = "triage" -> roster /\ Confirmed >= 1
      [] to = "rescue" -> roster /\ Assigned >= 1
      [] to = "extraction" -> roster /\ Assigned >= 1 /\ Extracted >= 1
      [] to = "return" -> areObjectivesComplete(covered) /\ NoOpenExtraction
      [] to = "complete" -> areObjectivesComplete(covered)
      [] OTHER -> TRUE

\* The Vertex contract and the early returns.
allowedTransitions(from) ==
    IF from \in TERMINAL_PHASES THEN {}
    ELSE validVertexNextPhases(from)
         \cup (IF from \in {"search", "triage", "rescue", "extraction"} THEN {"return"} ELSE {})

evaluateTransition(to, roster, covered) ==
    /\ to # "aborted" => to \in allowedTransitions(phase)
    /\ ChecksPass(to, roster, covered)

\* Fault: a rejected request uses up a version.
VersionAfterAny(accepted) == phaseVersion + 1

VersionAfter(accepted) == IF accepted THEN phaseVersion + 1 ELSE phaseVersion

Record(to, accepted) ==
    /\ Len(transitions) < MaxTransitions
    /\ accepted \/ Len(SelectSeq(transitions, LAMBDA r : ~r.accepted)) < MaxRejected
    /\ transitions' = Append(transitions,
          [from |-> phase, to |-> to, version |-> phaseVersion + 1, accepted |-> accepted])
    /\ phase' = IF accepted THEN to ELSE phase
    /\ phaseVersion' = VersionAfter(accepted)
    /\ reopened' = IF accepted /\ to = "return" THEN FALSE ELSE reopened
    /\ UNCHANGED <<targets, totalConfirmed, totalExtracted>>

\* transition, and enforceRequestedPhase that calls it: the request is recorded
\* whether or not it is granted.  Abort is granted from anywhere.
transition(to) ==
    \E roster, covered \in BOOLEAN : Record(to, evaluateTransition(to, roster, covered))

\* forceAbort and abortIfUnsafe: no check at all.
forceAbort == Record("aborted", TRUE)

\* suggestNextPhase; "none" when there is nothing to suggest.
suggestNextPhase(roster, covered) ==
    CASE phase = "init" /\ roster -> "discovery"
      [] phase = "discovery" /\ roster -> "search"
      [] phase = "search" /\ Confirmed >= 1 -> "triage"
      [] phase = "search" /\ Confirmed = 0 /\ covered -> "return"
      [] phase = "triage" /\ Assigned >= 1 -> "rescue"
      [] phase = "rescue" /\ Assigned >= 1 /\ roster -> "extraction"
      [] phase = "extraction" /\ (areObjectivesComplete(covered) \/ ~SafetyCritical) -> "return"
      [] phase = "return" /\ areObjectivesComplete(covered) -> "complete"
      [] OTHER -> "none"

\* Fault: a missing suggestion is requested like any other.
advanceAnyway ==
    \E suggested, roster, covered \in BOOLEAN :
        LET to == suggestNextPhase(suggested, covered)
        IN  Record(to, evaluateTransition(to, roster, covered))

\* advanceIfReady: what is suggested must still pass the checks, and is recorded as
\* rejected when it does not.
advanceIfReady ==
    \E suggested, roster, covered \in BOOLEAN :
        LET to == suggestNextPhase(suggested, covered)
        IN  to # "none" /\ Record(to, evaluateTransition(to, roster, covered))

MachineNext ==
    \/ \E t \in Targets, status \in Status : upsertTarget(t, status)
    \/ \E t \in Targets : confirmTarget(t) \/ assignTarget(t) \/ extractTarget(t)
    \/ \E to \in MissionPhase : transition(to)
    \/ forceAbort
    \/ advanceIfReady

MachineSpec == MachineInit /\ [][MachineNext]_machineVars
-------------------------------------------------------------------------------
\* Phases, statuses and counters stay in range.
MachineTypeOK ==
    /\ phase \in MissionPhase
    /\ phaseVersion \in Nat
    /\ transitions \in Seq([from : MissionPhase, to : MissionPhase, version : Nat,
                             accepted : BOOLEAN])
    /\ targets \in [Targets -> Status \cup {"none"}]
    /\ totalConfirmed \in 0..MaxTotal /\ totalExtracted \in 0..MaxTotal
    /\ reopened \in BOOLEAN

\* The accepted ones of the first n records, and the phase these led to.
AcceptedBy(n) == {i \in 1..n : transitions[i].accepted}

PhaseAfter(n) == IF AcceptedBy(n) = {} THEN "init" ELSE transitions[Max(AcceptedBy(n))].to

\* The accepted records tell the mission's whole story, with rejected requests and
\* forced aborts in between: the last one led here and the version counts them; and
\* every record, rejected or not, has the phase and the next version of its moment.
TransitionsChain ==
    /\ phaseVersion = Cardinality(AcceptedBy(Len(transitions)))
    /\ phase = PhaseAfter(Len(transitions))
    /\ \A i \in DOMAIN transitions :
         /\ transitions[i].version = Cardinality(AcceptedBy(i - 1)) + 1
         /\ transitions[i].from = PhaseAfter(i - 1)

\* Nobody is left behind: a completed mission has no target that is assigned and not
\* extracted, unless a target changed after the mission turned to return (the checks
\* for complete do not look at open extractions again).
CompleteLeavesNobody ==
    phase = "complete" /\ ~reopened => \A t \in Targets : targets[t] # "assigned"
===============================================================================
