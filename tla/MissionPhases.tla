----------------------------- MODULE MissionPhases -----------------------------
(***************************************************************************)
(* The mission lifecycle of src/backend/shared/mission-phases.ts: which    *)
(* phase may follow which, and what the Lattice plane asks of the roster.  *)
(***************************************************************************)
EXTENDS Naturals, Sequences

LINEAR == <<"init", "discovery", "search", "triage", "rescue", "extraction",
            "return", "complete">>

TERMINAL_PHASES == {"complete", "aborted"}

MissionPhase == {LINEAR[i] : i \in 1 .. Len(LINEAR)} \cup {"aborted"}

NoPhase == "null"

\* The next phase of the nominal pipeline, NoPhase at its end and off it.
nominalNextPhase(from) ==
    LET at == {i \in 1 .. Len(LINEAR) - 1 : LINEAR[i] = from}
    IN  IF at = {} THEN NoPhase ELSE LINEAR[(CHOOSE i \in at : TRUE) + 1]

\* What may be committed after `from`: one step on, one step back from search,
\* or an abort; nothing after a terminal phase.
validVertexNextPhases(from) ==
    IF from \in TERMINAL_PHASES THEN {}
    ELSE ({nominalNextPhase(from)} \ {NoPhase})
         \cup (IF from = "search" THEN {"discovery"} ELSE {})
         \cup {"aborted"}

\* Lattice readiness for entering `phase`: somebody to do the work, and a
\* carrier for the extraction.
latticePhaseReadiness(phase, peerCount, hasCarrier) ==
    \/ phase \in {"init", "aborted", "complete"}
    \/ peerCount >= 1 /\ (phase = "extraction" => hasCarrier)
===============================================================================
