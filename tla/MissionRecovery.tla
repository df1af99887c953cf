---------------------------- MODULE MissionRecovery ----------------------------
(***************************************************************************)
(* Recovery checkpoints and replay: EventLedgerStore,                      *)
(* InMemoryCheckpointStore, RecoveryCheckpointManager,                     *)
(* MissionRecoveryPlanner and the recovery half of                         *)
(* MissionExecutionCoordinator                                             *)
(* (src/backend/shared/tashi-task-bidding-recovery.ts).                    *)
(*                                                                         *)
(* The ledger is shared with other missions.  A coordinator may be built   *)
(* anew over it, with a fresh mission context and no checkpoints.          *)
(*                                                                         *)
(* Replay changes target objects in place, and the same objects are held   *)
(* by checkpoints and by ledger rows.  So targets live in a heap and the   *)
(* context, the checkpoints and the rows hold references into it.          *)
(*                                                                         *)
(* Who changes a running mission is the host (external): it changes the    *)
(* context, with a new object as the mission state machine does, and       *)
(* appends the matching row.  Nodes and the map are left out: nothing of   *)
(* phase and targets depends on them.  The context offers the optional     *)
(* setPhase and upsertTarget, as the one of the repository does (without   *)
(* them replay skips the rows of that kind), and of a target the four      *)
(* fields below are kept: replay stamps its times anew and does not bring  *)
(* back the metadata of a confirmation.                                    *)
(*                                                                         *)
(* Nothing makes a new coordinator restore before it is used: the host may *)
(* act on its blank context, and a checkpoint seals a blank mission over   *)
(* rows that the next restore will not replay.  Such a context is partial. *)
(***************************************************************************)
EXTENDS Integers, Sequences, SequencesExt

CONSTANTS
    Targets,         \* target ids
    Nodes,           \* the nodes that confirm, take on and extract targets
    Phases,          \* the phases the host moves to
    MaxRows,         \* bound on the ledger
    MaxCheckpoints,  \* bound on the checkpoints of one coordinator
    MaxVersion       \* bound on the version that replay may inflate again

Nobody == "nobody"
Unknown == 0      \* no such target in the context

ASSUME MissionRecoveryAssumption ==
    /\ Nobody \notin Nodes
    /\ MaxRows \in Nat /\ MaxCheckpoints \in Nat /\ MaxVersion \in Nat

VARIABLES
    heap,          \* the target objects
    targets,       \* per target the context's object
    phase,         \* the mission's phase and
    phaseVersion,  \* its version
    ledger,        \* the rows of all missions
    checkpoints,   \* the coordinator's checkpoints, oldest first
    partial,       \* history: the context may lack what rows before it tell
    live,          \* history: phase, version and targets as the host left them
    inflated       \* history: a replay has gone over rows already counted

recoveryVars ==
    <<heap, targets, phase, phaseVersion, ledger, checkpoints, partial, live, inflated>>

NewTarget ==
    [status |-> "new", confirmedBy |-> {}, assignedTo |-> Nobody, extractedBy |-> Nobody]

confirmed(target, n) ==
    [target EXCEPT !.status = "confirmed", !.confirmedBy = @ \cup {n}]

assigned(target, n) == [target EXCEPT !.status = "assigned", !.assignedTo = n]

extracted(target, n) == [target EXCEPT !.status = "extracted", !.extractedBy = n]

After(kind, target, n) ==
    CASE kind = "target_confirm" -> confirmed(target, n)
      [] kind = "target_assign" -> assigned(target, n)
      [] kind = "target_extract" -> extracted(target, n)

TargetKinds == {"target_confirm", "target_assign", "target_extract"}

\* Rows are told apart by kind; "other" is every row of this mission that replay
\* ignores, "foreign" every row of another mission.
UpsertRow(t, object) == [kind |-> "target_upsert", target |-> t, object |-> object]
TargetRow(kind, t, n) == [kind |-> kind, target |-> t, node |-> n]
PhaseRow(to) == [kind |-> "phase_transition_commit", to |-> to]
OtherRow == [kind |-> "other"]
ForeignRow == [kind |-> "foreign"]

Fresh == [phase |-> "init", version |-> 0, targets |-> [t \in Targets |-> Unknown]]

RecoveryInit ==
    /\ heap = <<>>
    /\ targets = Fresh.targets
    /\ phase = Fresh.phase
    /\ phaseVersion = Fresh.version
    /\ ledger = <<>>
    /\ checkpoints = <<>>
    /\ partial = FALSE
    /\ live = [phase |-> "init", version |-> 0, targets |-> [t \in Targets |-> <<>>]]
    /\ inflated = FALSE
-------------------------------------------------------------------------------
Room == Len(ledger) < MaxRows

\* The host adds a target; the row and the context share the object.
UpsertTarget(t) ==
    /\ Room
    /\ heap' = Append(heap, NewTarget)
    /\ targets' = [targets EXCEPT ![t] = Len(heap) + 1]
    /\ ledger' = Append(ledger, UpsertRow(t, Len(heap) + 1))
    /\ live' = [live EXCEPT !.targets[t] = <<NewTarget>>]
    /\ UNCHANGED <<phase, phaseVersion, checkpoints, partial, inflated>>

\* The host confirms, assigns or extracts a target.
ChangeTarget(kind, t, n) ==
    /\ Room
    /\ targets[t] # Unknown
    /\ LET after == After(kind, heap[targets[t]], n)
       IN  /\ heap' = Append(heap, after)
           /\ targets' = [targets EXCEPT ![t] = Len(heap) + 1]
           /\ live' = [live EXCEPT !.targets[t] = <<After(kind, live.targets[t][1], n)>>]
    /\ ledger' = Append(ledger, TargetRow(kind, t, n))
    /\ UNCHANGED <<phase, phaseVersion, checkpoints, partial, inflated>>

\* The host moves to another phase: setPhase bumps the version.
SetPhase(to) ==
    /\ Room
    /\ phase' = to
    /\ phaseVersion' = phaseVersion + 1
    /\ ledger' = Append(ledger, PhaseRow(to))
    /\ live' = [live EXCEPT !.phase = to, !.version = @ + 1]
    /\ UNCHANGED <<heap, targets, checkpoints, partial, inflated>>

\* Another mission appends to the shared ledger.
ForeignAppend ==
    /\ Room
    /\ ledger' = Append(ledger, ForeignRow)
    /\ UNCHANGED <<heap, targets, phase, phaseVersion, checkpoints, partial, live, inflated>>

\* createCheckpoint: the registry takes over the context's objects, the head of the
\* whole ledger is sealed, and a row says so.  Two checkpoints may share a millisecond.
\* The check that follows compares the checkpoint with what it was made from.
createCheckpoint ==
    /\ Room
    /\ Len(checkpoints) < MaxCheckpoints
    /\ \E later \in BOOLEAN :
         checkpoints' = Append(checkpoints,
            [phase |-> phase, phaseVersion |-> phaseVersion, targetRegistry |-> targets,
             lastLedgerHash |-> Len(ledger),
             createdAtMs |-> IF checkpoints = <<>> THEN 1
                             ELSE Last(checkpoints).createdAtMs + (IF later THEN 1 ELSE 0)])
    /\ ledger' = Append(ledger, OtherRow)
    /\ UNCHANGED <<heap, targets, phase, phaseVersion, partial, live, inflated>>

\* A new coordinator over the same ledger.
NewCoordinator ==
    /\ targets' = Fresh.targets
    /\ phase' = Fresh.phase
    /\ phaseVersion' = Fresh.version
    /\ checkpoints' = <<>>
    /\ partial' = TRUE
    /\ inflated' = FALSE
    /\ UNCHANGED <<heap, ledger, live>>
-------------------------------------------------------------------------------
\* The first of the newest checkpoints.
latest ==
    LET newest == Last(checkpoints).createdAtMs
    IN  CHOOSE i \in DOMAIN checkpoints :
          /\ checkpoints[i].createdAtMs = newest
          /\ \A j \in 1..(i - 1) : checkpoints[j].createdAtMs < newest

IsOurs(row) == row.kind # "foreign"

\* A sealed row of this mission can be found again; that of another cannot.
Found(sealed) == sealed > 0 /\ IsOurs(ledger[sealed])

\* Fault: nothing is replayed when the sealed row is not found.
missionEventsAfterFound(sealed) ==
    {i \in DOMAIN ledger : IsOurs(ledger[i]) /\ (Found(sealed) \/ sealed = 0) /\ i > sealed}

\* The places of the rows to replay: those after the sealed row, or all.
missionEventsAfter(sealed) ==
    {i \in DOMAIN ledger : IsOurs(ledger[i]) /\ (Found(sealed) => i > sealed)}

\* Fault: the phase's version is whatever setPhase made of it.
BaselineCounted(cp) ==
    [heap |-> heap, targets |-> cp.targetRegistry, phase |-> cp.phase,
     version |-> phaseVersion + 1]

\* applyCheckpointBaseline: the context refers to the checkpoint's objects.
Baseline(cp) ==
    [heap |-> heap, targets |-> cp.targetRegistry, phase |-> cp.phase,
     version |-> cp.phaseVersion]

\* applyLedgerEvent.  A target of a row is changed where it is.
applyLedgerEvent(ctx, row) ==
    CASE row.kind = "target_upsert" -> [ctx EXCEPT !.targets[row.target] = row.object]
      [] row.kind \in TargetKinds /\ ctx.targets[row.target] # Unknown ->
            [ctx EXCEPT !.heap[ctx.targets[row.target]] = After(row.kind, @, row.node)]
      [] row.kind = "phase_transition_commit" ->
            [ctx EXCEPT !.phase = row.to, !.version = @ + 1]
      [] OTHER -> ctx

\* The loop of restore over the ledger, in its order: the context before the first row
\* and after each.
ReplayFrom(start, rows) ==
    LET ctx[i \in 0 .. Len(ledger)] ==
            IF i = 0 THEN start
            ELSE IF i \in rows THEN applyLedgerEvent(ctx[i - 1], ledger[i]) ELSE ctx[i - 1]
    IN  ctx

\* What restore starts from, and the sealed row it replays from.
Start ==
    IF checkpoints = <<>>
    THEN [heap |-> heap, targets |-> targets, phase |-> phase, version |-> phaseVersion]
    ELSE Baseline(checkpoints[latest])

Sealed == IF checkpoints = <<>> THEN 0 ELSE checkpoints[latest].lastLedgerHash

\* All rows are replayed onto a version that counts some of them already.
Recounts == ~Found(Sealed) /\ Start.version > 0

restore ==
    LET ctx == ReplayFrom(Start, missionEventsAfter(Sealed))[Len(ledger)]
    IN  /\ Recounts => phaseVersion < MaxVersion
        /\ heap' = ctx.heap
        /\ targets' = ctx.targets
        /\ phase' = ctx.phase
        /\ phaseVersion' = ctx.version
        /\ partial' = (partial /\ checkpoints # <<>>)
        /\ inflated' = (inflated \/ Recounts)
        /\ UNCHANGED <<checkpoints, live>>

restoreFromLatestCheckpoint == restore /\ UNCHANGED ledger

\* The same, and a row that says so.
rehydrateMissionState == restore /\ Room /\ ledger' = Append(ledger, OtherRow)

RecoveryNext ==
    \/ \E t \in Targets : UpsertTarget(t)
    \/ \E kind \in TargetKinds, t \in Targets, n \in Nodes : ChangeTarget(kind, t, n)
    \/ \E to \in Phases : SetPhase(to)
    \/ ForeignAppend
    \/ createCheckpoint
    \/ NewCoordinator
    \/ restoreFromLatestCheckpoint
    \/ rehydrateMissionState

RecoverySpec == RecoveryInit /\ [][RecoveryNext]_recoveryVars
-------------------------------------------------------------------------------
ValueOf(t) == IF targets[t] = Unknown THEN <<>> ELSE <<heap[targets[t]]>>

\* Recovery brings back the mission: whatever was restored how often, from which
\* checkpoint, by which coordinator and over how much of the ledger, what the context
\* knows of phase and targets is what the host left, although replay overwrites the
\* very objects that checkpoints and rows hold.  It is all that the host left, except
\* for a new coordinator that has not restored yet, or that took a checkpoint before
\* it did: what its context lacks, no later restore is sure to bring back.
RestoreRebuilds ==
    /\ phase \in {live.phase, Fresh.phase}
    /\ \A t \in Targets : ValueOf(t) \in {live.targets[t], <<>>}
    /\ ~partial => phase = live.phase /\ \A t \in Targets : ValueOf(t) = live.targets[t]

\* So is the version of the phase, as long as no replay went over rows that the
\* context had counted already.
VersionRebuilt == ~partial /\ ~inflated => phaseVersion = live.version
===============================================================================
