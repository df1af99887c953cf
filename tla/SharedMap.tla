------------------------------- MODULE SharedMap -------------------------------
(***************************************************************************)
(* MonotonicSharedMap and MapDeltaCoordinator                              *)
(* (src/backend/shared/tashi-mission-map-machine.ts) on several nodes.     *)
(*                                                                         *)
(* Every node has its own copy of the map, marks cells as it observes      *)
(* them, and hands deltas of dirty cells and whole snapshots to the        *)
(* network (the commit adapter, external).  The network may lose, repeat,  *)
(* delay and reorder them, so a message once sent stays deliverable.       *)
(*                                                                         *)
(* Data: cost never changes and is left out; metadata is the set of its    *)
(* keys (confirmedBy, joined the same way, is among them); wall clocks of  *)
(* different nodes are not related, so a mark may carry any time.          *)
(***************************************************************************)
EXTENDS Integers, FiniteSets, FiniteSetsExt

CONSTANTS
    Replicas,    \* the nodes with a copy of the map
    Cells,       \* the cell ids
    Marks,       \* the states nodes mark cells with
    Times,       \* lastSeenMs values
    MaxCells,    \* bound of delta(maxCells)
    MaxVersion,  \* bound on the version of a cell that is changed again
    MaxSent      \* bound on the messages sent

CellState == {"unknown", "frontier", "seen", "searched", "blocked", "target", "safe"}

NoOwner == "none"

ASSUME SharedMapAssumption ==
    /\ Times \subseteq Nat
    /\ Marks \subseteq CellState \ {"unknown"}
    /\ NoOwner \notin Replicas
    /\ MaxCells \in Nat /\ MaxVersion \in Nat /\ MaxSent \in Nat

VARIABLES
    cells,     \* per node, its map: a function on the cells it knows
    dirty,     \* per node, the cells changed since they were last in a delta
    version,   \* per node, the version of its map
    sent       \* the deltas and snapshots handed to the network

vars == <<cells, dirty, version, sent>>

\* Confidences in percent, with the defaults of the mark functions.
MapCell ==
    [state : CellState, confidence : Nat, owner : Replicas \cup {NoOwner},
     lastSeenMs : Nat, version : Nat, metadata : SUBSET CellState]

stateRank(state) ==
    CASE state = "unknown" -> 0
      [] state = "frontier" -> 1
      [] state = "seen" -> 2
      [] state = "searched" -> 3
      [] state = "safe" -> 4
      [] state = "target" -> 5
      [] state = "blocked" -> 6

\* Fault: the newer observation replaces the older one.
mergeStateNewest(current, incoming) == incoming

mergeState(current, incoming) ==
    IF \/ stateRank(incoming) >= stateRank(current)
       \/ incoming = "target" /\ current # "blocked"
       \/ incoming = "blocked" /\ current # "target"
    THEN incoming
    ELSE current

Larger(a, b) == IF a >= b THEN a ELSE b

\* The cell before its version is bumped.
merged(current, incoming) ==
    [state |-> IF \/ incoming.version > current.version
                  \/ /\ incoming.version = current.version
                     /\ incoming.lastSeenMs >= current.lastSeenMs
               THEN mergeState(current.state, incoming.state)
               ELSE current.state,
     confidence |-> Larger(current.confidence, incoming.confidence),
     owner |-> IF incoming.owner # NoOwner THEN incoming.owner ELSE current.owner,
     lastSeenMs |-> Larger(current.lastSeenMs, incoming.lastSeenMs),
     version |-> Larger(current.version, incoming.version),
     metadata |-> current.metadata \cup incoming.metadata]

\* Fault: what is merged is not marked as newer than both.
resolveWithoutBump(current, incoming) ==
    IF incoming.version > current.version THEN merged(current, incoming) ELSE current

\* An incoming cell that changes anything gives a new version of the cell.
resolve(current, incoming) ==
    LET m == merged(current, incoming)
    IN  IF m = current THEN current ELSE [m EXCEPT !.version = @ + 1]

confidenceOf(mark) ==
    CASE mark = "frontier" -> 35
      [] mark = "seen" -> 60
      [] mark = "safe" -> 75
      [] mark = "searched" -> 90
      [] OTHER -> 100

\* markSeen is the only one that leaves no key of its own.
keysOf(mark) == IF mark = "seen" THEN {} ELSE {mark}

Created ==
    [state |-> "unknown", confidence |-> 0, owner |-> NoOwner, lastSeenMs |-> 0,
     version |-> 0, metadata |-> {}]

\* Fault: a mark leaves the version of the cell as it is.
markedInPlace(current, mark, owner, t) ==
    [state |-> mergeState(current.state, mark),
     confidence |-> Larger(current.confidence, confidenceOf(mark)),
     owner |-> owner,
     lastSeenMs |-> t,
     version |-> current.version,
     metadata |-> current.metadata \cup keysOf(mark)]

marked(current, mark, owner, t) ==
    [state |-> mergeState(current.state, mark),
     confidence |-> Larger(current.confidence, confidenceOf(mark)),
     owner |-> owner,
     lastSeenMs |-> t,
     version |-> current.version + 1,
     metadata |-> current.metadata \cup keysOf(mark)]

Known(r) == DOMAIN cells[r]

\* The map of r with cell c set.
With(r, c, cell) == [d \in Known(r) \cup {c} |-> IF d = c THEN cell ELSE cells[r][d]]

Init ==
    /\ cells = [r \in Replicas |-> [c \in {} |-> Created]]
    /\ dirty = [r \in Replicas |-> {}]
    /\ version = [r \in Replicas |-> 0]
    /\ sent = {}
-------------------------------------------------------------------------------
\* currentOrCreate, then the mark.
Mark(r, c, mark, t) ==
    LET current == IF c \in Known(r) THEN cells[r][c] ELSE Created
    IN  /\ current.version < MaxVersion
        /\ cells' = [cells EXCEPT ![r] = With(r, c, marked(current, mark, r, t))]
        /\ dirty' = [dirty EXCEPT ![r] = @ \cup {c}]
        /\ version' = [version EXCEPT ![r] = @ + 1]

\* stageSeen, stageFrontier, stageSearched, stageBlocked; markSafe.
Stage(r, c, mark, t) ==
    /\ mark # "target"
    /\ Mark(r, c, mark, t)
    /\ UNCHANGED sent

Message(r, content, v) == [from |-> r, cells |-> content, version |-> v]

\* stageTarget: a target is flushed at once, with a delta and a snapshot.  The
\* delta takes up to MaxCells of the dirty cells; which ones come first is left open.
StageTarget(r, c, t) ==
    /\ Cardinality(sent) + 2 <= MaxSent
    /\ LET current == IF c \in Known(r) THEN cells[r][c] ELSE Created
           after == With(r, c, marked(current, "target", r, t))
       IN  /\ current.version < MaxVersion
           /\ \E batch \in SUBSET (dirty[r] \cup {c}) :
                /\ Cardinality(batch) = Min({MaxCells, Cardinality(dirty[r] \cup {c})})
                /\ dirty' = [dirty EXCEPT ![r] = (@ \cup {c}) \ batch]
                /\ sent' = sent \cup {Message(r, [d \in batch |-> after[d]], version[r] + 1),
                                      Message(r, after, version[r] + 1)}
           /\ cells' = [cells EXCEPT ![r] = after]
           /\ version' = [version EXCEPT ![r] = @ + 1]

\* Fault: a flush clears the whole dirty set.
StillDirtyNone(r, batch) == {}

\* What delta leaves dirty.
StillDirty(r, batch) == dirty[r] \ batch

\* flushDelta
FlushDelta(r) ==
    /\ dirty[r] # {}
    /\ Cardinality(sent) < MaxSent
    /\ \E batch \in SUBSET dirty[r] :
         /\ Cardinality(batch) = Min({MaxCells, Cardinality(dirty[r])})
         /\ dirty' = [dirty EXCEPT ![r] = StillDirty(r, batch)]
         /\ sent' = sent \cup {Message(r, [d \in batch |-> cells[r][d]], version[r])}
    /\ UNCHANGED <<cells, version>>

\* snapshot(), committed by whoever asks for it.
Snapshot(r) ==
    /\ Known(r) # {}
    /\ Cardinality(sent) < MaxSent
    /\ sent' = sent \cup {Message(r, cells[r], version[r])}
    /\ UNCHANGED <<cells, dirty, version>>

Incoming(r, content) ==
    [c \in Known(r) \cup DOMAIN content |->
        IF c \notin Known(r) THEN content[c]
        ELSE IF c \notin DOMAIN content THEN cells[r][c]
        ELSE resolve(cells[r][c], content[c])]

Changed(r, content) ==
    {c \in DOMAIN content : c \notin Known(r) \/ Incoming(r, content)[c] # cells[r][c]}

\* Fault: what was merged counts as already synchronised.
DirtyAfterMergeNone(r, content) == dirty[r]

DirtyAfterMerge(r, content) == dirty[r] \cup Changed(r, content)

\* Fault: the map takes over the version of its source, and no more.
VersionAfterMergeSource(r, m) == Larger(version[r], m.version)

VersionAfterMerge(r, m) ==
    Larger(version[r], m.version) + (IF Changed(r, m.cells) # {} THEN 1 ELSE 0)

MergeInto(r, m) ==
    /\ m.from # r
    /\ \A c \in DOMAIN m.cells : Incoming(r, m.cells)[c].version <= MaxVersion
    /\ cells' = [cells EXCEPT ![r] = Incoming(r, m.cells)]
    /\ dirty' = [dirty EXCEPT ![r] = DirtyAfterMerge(r, m.cells)]
    /\ version' = [version EXCEPT ![r] = VersionAfterMerge(r, m)]

\* merge and mergeSnapshot.
Merge(r, m) == MergeInto(r, m) /\ UNCHANGED sent

\* mergeRemote and replaceFromSnapshot: the result is committed as a snapshot.
MergeRemote(r, m) ==
    /\ Cardinality(sent) < MaxSent
    /\ MergeInto(r, m)
    /\ sent' = sent \cup {Message(r, Incoming(r, m.cells), VersionAfterMerge(r, m))}

\* upsert of a cell obtained from another node: like merge, but it always
\* counts as a change of the map.
Upsert(r, c, cell) ==
    LET after == IF c \in Known(r) THEN resolve(cells[r][c], cell) ELSE cell
    IN  /\ version[r] < MaxVersion
        /\ after.version <= MaxVersion
        /\ cells' = [cells EXCEPT ![r] = With(r, c, after)]
        /\ dirty' = [dirty EXCEPT ![r] = @ \cup {c}]
        /\ version' = [version EXCEPT ![r] = @ + 1]
        /\ UNCHANGED sent

Next ==
    \/ \E r \in Replicas, c \in Cells, mark \in Marks, t \in Times : Stage(r, c, mark, t)
    \/ \E r \in Replicas, c \in Cells, t \in Times :
          "target" \in Marks /\ StageTarget(r, c, t)
    \/ \E r \in Replicas : FlushDelta(r)
    \/ \E r \in Replicas : Snapshot(r)
    \/ \E r \in Replicas, m \in sent : Merge(r, m) \/ MergeRemote(r, m)
    \/ \E r \in Replicas, m \in sent : \E c \in DOMAIN m.cells : Upsert(r, c, m.cells[c])

Spec == Init /\ [][Next]_vars
-------------------------------------------------------------------------------
Messages(m) ==
    /\ m.from \in Replicas
    /\ DOMAIN m.cells \subseteq Cells
    /\ \A c \in DOMAIN m.cells : m.cells[c] \in MapCell
    /\ m.version \in Nat

\* Maps hold well-formed cells with a version of at least 1, and only known cells are dirty.
TypeOK ==
    /\ DOMAIN cells = Replicas
    /\ \A r \in Replicas :
         /\ Known(r) \subseteq Cells
         /\ \A c \in Known(r) : cells[r][c] \in MapCell /\ cells[r][c].version > 0
    /\ dirty \in [Replicas -> SUBSET Cells]
    /\ \A r \in Replicas : dirty[r] \subseteq Known(r)
    /\ version \in [Replicas -> Nat]
    /\ \A m \in sent : Messages(m)

\* Whatever arrives, however late or often, no node's knowledge of a cell goes
\* back: its rank, confidence, keys and version only grow.
CellGrows(old, new) ==
    /\ stateRank(new.state) >= stateRank(old.state)
    /\ new.confidence >= old.confidence
    /\ old.metadata \subseteq new.metadata
    /\ new.version >= old.version

KnowledgeGrows ==
    [][\A r \in Replicas : \A c \in Known(r) :
          c \in DOMAIN cells'[r] /\ CellGrows(cells[r][c], cells'[r][c])]_vars

\* The stronger of two observations.
Join(s, t) == IF stateRank(s) >= stateRank(t) THEN s ELSE t

\* One merge may leave the weaker state in place (an older version with a
\* stronger state loses), but whatever two nodes hold, three exchanges bring both
\* to the stronger of the two states.
ThreeExchangesConverge ==
    \A r, q \in Replicas : \A c \in Known(r) \cap Known(q) :
        LET a == resolve(cells[r][c], cells[q][c])
            b == resolve(cells[q][c], a)
        IN  /\ b.state = Join(cells[r][c].state, cells[q][c].state)
            /\ resolve(a, b).state = b.state

\* A cell that is not dirty has gone out as it is: marks and merges made while
\* a batch is cut, and cells beyond the batch limit, are never forgotten.
CleanMeansSent ==
    \A r \in Replicas : \A c \in Known(r) \ dirty[r] :
        \E m \in sent : m.from = r /\ c \in DOMAIN m.cells /\ m.cells[c] = cells[r][c]

\* A map version names one content of a node's map (checkpoints compare nothing
\* but this version): when cells change, the version grows.
VersionNamesContent ==
    [][\A r \in Replicas :
          /\ version'[r] >= version[r]
          /\ cells'[r] # cells[r] => version'[r] > version[r]]_vars
===============================================================================
