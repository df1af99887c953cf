---------------------------- MODULE MapMerge_proofs ----------------------------
(***************************************************************************)
(* Theorems about the monotonic shared map, for any number of nodes and    *)
(* cells, any clocks and any bounds.                                       *)
(*                                                                         *)
(* The first lemmas are about one cell: what a mark and a merge do to it.  *)
(* The invariant MapInv adds to the type invariant that every cell on the  *)
(* network has been marked at least once (a map takes over a cell it does  *)
(* not know as it is), and that a clean cell went out as it stands.        *)
(*                                                                         *)
(* The last part is about the cell join of the live map (FoxMapMerge).     *)
(***************************************************************************)
EXTENDS SharedMap, FoxMapMerge, TLAPS

\* Every cell on the network has been marked or merged at least once.
SentCellsMarked ==
    \A m \in sent : \A c \in DOMAIN m.cells : m.cells[c].version > 0

\* A map is determined by the cells it knows and their contents.
MapsAreFunctions ==
    /\ cells = [r \in Replicas |-> cells[r]]
    /\ \A r \in Replicas : cells[r] = [c \in Known(r) |-> cells[r][c]]

MapInv ==
    /\ TypeOK
    /\ SentCellsMarked
    /\ MapsAreFunctions
    /\ CleanMeansSent

\* incoming is taken for the more recent of the two.
Newer(incoming, current) ==
    \/ incoming.version > current.version
    \/ incoming.version = current.version /\ incoming.lastSeenMs >= current.lastSeenMs

\* after is a map that node r may go over to: well formed, and all it knew has grown.
Successor(r, after) ==
    /\ after = [c \in DOMAIN after |-> after[c]]
    /\ Known(r) \subseteq DOMAIN after
    /\ DOMAIN after \subseteq Cells
    /\ \A c \in DOMAIN after : after[c] \in MapCell /\ after[c].version > 0
    /\ \A c \in Known(r) : CellGrows(cells[r][c], after[c])

\* m is a message of node r with well-formed cells.
Sendable(r, m) ==
    /\ m.from = r
    /\ DOMAIN m.cells \subseteq Cells
    /\ \A c \in DOMAIN m.cells : m.cells[c] \in MapCell /\ m.cells[c].version > 0
    /\ m.version \in Nat

\* What every step has in common: it is a step of one node, whose map, dirty set
\* and version are replaced and whose messages are added.
StepOf(r) ==
    /\ cells' = [cells EXCEPT ![r] = cells'[r]]
    /\ dirty' = [dirty EXCEPT ![r] = dirty'[r]]
    /\ version' = [version EXCEPT ![r] = version'[r]]
    /\ Successor(r, cells'[r])
    /\ dirty'[r] \subseteq DOMAIN cells'[r]
    /\ version'[r] \in Nat /\ version'[r] >= version[r]
    /\ cells'[r] # cells[r] => version'[r] > version[r]
    /\ sent \subseteq sent'
    /\ \A m \in sent' \ sent : Sendable(r, m)
    /\ \A c \in DOMAIN cells'[r] \ dirty'[r] :
         \/ c \in Known(r) \ dirty[r] /\ cells'[r][c] = cells[r][c]
         \/ \E m \in sent' : m.from = r /\ c \in DOMAIN m.cells /\ m.cells[c] = cells'[r][c]
-------------------------------------------------------------------------------
\* Ranks are numbers, and no two states share one.
LEMMA RankOfState ==
    ASSUME NEW s \in CellState, NEW t \in CellState
    PROVE  /\ stateRank(s) \in 0..6
           /\ stateRank(s) = stateRank(t) => s = t
BY DEF CellState, stateRank

\* mergeState keeps the state of the higher rank: its special cases for targets and
\* obstacles never decide against the rank.
LEMMA MergeStateIsJoin ==
    ASSUME NEW s \in CellState, NEW t \in CellState
    PROVE  /\ mergeState(s, t) = Join(s, t)
           /\ mergeState(s, t) = Join(t, s)
           /\ mergeState(s, t) \in CellState
           /\ stateRank(mergeState(s, t)) >= stateRank(s)
BY DEF CellState, stateRank, mergeState, Join

\* What merging does to a cell, before its version is bumped.
LEMMA MergedCell ==
    ASSUME NEW a \in MapCell, NEW b \in MapCell
    PROVE  /\ merged(a, b) \in MapCell
           /\ merged(a, b).state = IF Newer(b, a) THEN mergeState(a.state, b.state) ELSE a.state
           /\ merged(a, b).confidence >= a.confidence
           /\ a.metadata \subseteq merged(a, b).metadata
           /\ merged(a, b).version >= a.version
           /\ merged(a, b).version >= b.version
           /\ merged(a, b).version = a.version \/ merged(a, b).version = b.version
           /\ merged(a, b).lastSeenMs >= b.lastSeenMs
           /\ merged(a, b).lastSeenMs \in Nat
<1>1. a.state \in CellState /\ b.state \in CellState
  BY DEF MapCell
<1>2. mergeState(a.state, b.state) \in CellState
  BY <1>1, MergeStateIsJoin
<1> QED
  BY <1>1, <1>2 DEF MapCell, merged, Larger, Newer

\* Resolving a conflict gives a cell that has grown, and a new version unless
\* nothing changed.
LEMMA ResolvedCell ==
    ASSUME NEW a \in MapCell, NEW b \in MapCell
    PROVE  /\ resolve(a, b) \in MapCell
           /\ CellGrows(a, resolve(a, b))
           /\ resolve(a, b).state = merged(a, b).state
           /\ \/ resolve(a, b) = a /\ merged(a, b) = a
              \/ /\ resolve(a, b).version > a.version
                 /\ resolve(a, b).version > b.version
<1> DEFINE m == merged(a, b)
<1>1. /\ m \in MapCell
      /\ m.state = IF Newer(b, a) THEN mergeState(a.state, b.state) ELSE a.state
      /\ m.confidence >= a.confidence
      /\ a.metadata \subseteq m.metadata
      /\ m.version >= a.version
      /\ m.version >= b.version
  BY MergedCell
<1>2. a.state \in CellState /\ b.state \in CellState /\ a.version \in Nat /\ b.version \in Nat
      /\ a.confidence \in Nat
  BY DEF MapCell
<1>3. stateRank(m.state) >= stateRank(a.state)
  BY <1>1, <1>2, RankOfState, MergeStateIsJoin
<1> HIDE DEF m
<1>4. [m EXCEPT !.version = @ + 1] \in MapCell
  BY <1>1 DEF MapCell
<1>5. resolve(a, b) = IF m = a THEN a ELSE [m EXCEPT !.version = @ + 1]
  BY DEF resolve, m
<1>6. CASE m = a
  BY <1>1, <1>2, <1>3, <1>5, <1>6 DEF CellGrows, m
<1>7. CASE m # a
  <2> DEFINE n == [m EXCEPT !.version = @ + 1]
  <2>1. /\ n.state = m.state /\ n.confidence = m.confidence /\ n.metadata = m.metadata
        /\ n.version = m.version + 1
    BY <1>1 DEF MapCell
  <2>2. m.version \in Nat
    BY <1>1 DEF MapCell
  <2> HIDE DEF n
  <2>3. resolve(a, b) = n /\ n \in MapCell
    BY <1>4, <1>5, <1>7 DEF n
  <2>4. CellGrows(a, n) /\ n.version > a.version /\ n.version > b.version
    BY <1>1, <1>2, <1>3, <2>1, <2>2 DEF CellGrows
  <2> QED
    BY <2>1, <2>3, <2>4 DEF m
<1> QED
  BY <1>6, <1>7

\* A mark gives a cell that has grown, in a new version.
LEMMA MarkedCell ==
    ASSUME NEW a \in MapCell, NEW mark \in CellState, NEW o \in Replicas, NEW t \in Nat
    PROVE  /\ marked(a, mark, o, t) \in MapCell
           /\ CellGrows(a, marked(a, mark, o, t))
           /\ marked(a, mark, o, t).version > 0
<1>1. a.state \in CellState /\ a.version \in Nat /\ a.confidence \in Nat
  BY DEF MapCell
<1>2. /\ mergeState(a.state, mark) \in CellState
      /\ stateRank(mergeState(a.state, mark)) >= stateRank(a.state)
  BY <1>1, MergeStateIsJoin
<1>3. confidenceOf(mark) \in Nat /\ keysOf(mark) \subseteq CellState
  BY DEF confidenceOf, keysOf, CellState
<1> QED
  BY <1>1, <1>2, <1>3 DEF MapCell, marked, Larger, CellGrows

\* currentOrCreate starts from a cell of no knowledge.
LEMMA CreatedCell == Created \in MapCell
BY DEF Created, MapCell, CellState

\* Nothing arriving leaves a cell as it is.
LEMMA CellGrowsReflexive ==
    ASSUME NEW a \in MapCell
    PROVE  CellGrows(a, a)
<1>1. a.state \in CellState
  BY DEF MapCell
<1>2. stateRank(a.state) \in 0..6
  BY <1>1, RankOfState
<1> QED
  BY <1>2 DEF MapCell, CellGrows
-------------------------------------------------------------------------------
\* Whatever two nodes hold of a cell, three exchanges (q's cell to r, the result to
\* q, that result to r) bring both to the stronger of the two states.
LEMMA ThreeExchanges ==
    ASSUME NEW x \in MapCell, NEW y \in MapCell
    PROVE  LET a == resolve(x, y)
               b == resolve(y, a)
           IN  /\ b.state = Join(x.state, y.state)
               /\ resolve(a, b).state = b.state
<1> DEFINE a == resolve(x, y)
           b == resolve(y, a)
           j == Join(x.state, y.state)
<1> SUFFICES b.state = j /\ resolve(a, b).state = b.state
  OBVIOUS
<1>1. /\ a \in MapCell /\ a.state = merged(x, y).state
      /\ \/ a = x /\ merged(x, y) = x
         \/ a.version > x.version /\ a.version > y.version
  BY ResolvedCell
<1>2. /\ b \in MapCell /\ b.state = merged(y, a).state
      /\ \/ b = y /\ merged(y, a) = y
         \/ b.version > y.version /\ b.version > a.version
  BY <1>1, ResolvedCell
<1>3. resolve(a, b).state = merged(a, b).state
  BY <1>1, <1>2, ResolvedCell
<1> HIDE DEF a, b
<1>4. /\ x.state \in CellState /\ y.state \in CellState /\ a.state \in CellState
      /\ b.state \in CellState
      /\ x.version \in Nat /\ y.version \in Nat /\ a.version \in Nat /\ b.version \in Nat
      /\ x.lastSeenMs \in Nat /\ y.lastSeenMs \in Nat
      /\ a.lastSeenMs \in Nat /\ b.lastSeenMs \in Nat
  BY <1>1, <1>2 DEF MapCell
<1>5. a.state = x.state \/ a.state = j
  BY <1>1, <1>4, MergedCell, MergeStateIsJoin
<1>6. Newer(a, y)
  <2>1. CASE a.version > y.version
    BY <2>1 DEF Newer
  <2>2. CASE a = x /\ merged(x, y) = x
    BY <2>2, <1>4, MergedCell DEF Newer
  <2> QED
    BY <1>1, <2>1, <2>2
<1>7. b.state = j
  <2>1. b.state = mergeState(y.state, a.state)
    BY <1>1, <1>2, <1>6, MergedCell
  <2>2. b.state = Join(a.state, y.state)
    BY <1>4, <2>1, MergeStateIsJoin
  <2>3. Join(j, y.state) = j
    BY <1>4, RankOfState DEF Join
  <2> QED
    BY <1>5, <2>2, <2>3
<1>8. Newer(b, a)
  <2>1. CASE b.version > a.version
    BY <2>1 DEF Newer
  <2>2. CASE b = y /\ merged(y, a) = y
    BY <1>1, <2>2, <1>4, MergedCell DEF Newer
  <2> QED
    BY <1>2, <2>1, <2>2
<1>9. merged(a, b).state = Join(a.state, b.state)
  BY <1>1, <1>2, <1>4, <1>8, MergedCell, MergeStateIsJoin
<1>10. Join(a.state, j) = j
  BY <1>4, <1>5, RankOfState DEF Join
<1> QED
  BY <1>3, <1>7, <1>9, <1>10
-------------------------------------------------------------------------------
\* Setting one cell to one that has grown gives a successor of the map.
LEMMA WithIsSuccessor ==
    ASSUME TypeOK, MapsAreFunctions, NEW r \in Replicas, NEW c \in Cells,
           NEW cell \in MapCell, cell.version > 0,
           c \in Known(r) => CellGrows(cells[r][c], cell)
    PROVE  /\ Successor(r, With(r, c, cell))
           /\ DOMAIN With(r, c, cell) = Known(r) \cup {c}
           /\ With(r, c, cell)[c] = cell
           /\ \A d \in Known(r) : d # c => With(r, c, cell)[d] = cells[r][d]
<1> DEFINE after == With(r, c, cell)
<1>1. after = [d \in Known(r) \cup {c} |-> IF d = c THEN cell ELSE cells[r][d]]
  BY DEF With
<1> HIDE DEF after
<1>2. /\ DOMAIN after = Known(r) \cup {c}
      /\ after = [d \in DOMAIN after |-> after[d]]
      /\ after[c] = cell
      /\ \A d \in Known(r) : d # c => after[d] = cells[r][d]
  BY <1>1
<1>3. /\ Known(r) \subseteq Cells
      /\ \A d \in Known(r) : cells[r][d] \in MapCell /\ cells[r][d].version > 0
  BY DEF TypeOK
<1>4. \A d \in Known(r) : CellGrows(cells[r][d], after[d])
  BY <1>2, <1>3, CellGrowsReflexive
<1>5. \A d \in DOMAIN after : after[d] \in MapCell /\ after[d].version > 0
  BY <1>2, <1>3
<1> QED
  BY <1>2, <1>3, <1>4, <1>5 DEF Successor, after

\* Merging well-formed content gives a successor of the map.
LEMMA IncomingIsSuccessor ==
    ASSUME TypeOK, MapsAreFunctions, NEW r \in Replicas, NEW content,
           DOMAIN content \subseteq Cells,
           \A c \in DOMAIN content : content[c] \in MapCell /\ content[c].version > 0
    PROVE  /\ Successor(r, Incoming(r, content))
           /\ DOMAIN Incoming(r, content) = Known(r) \cup DOMAIN content
           /\ \A c \in (Known(r) \cup DOMAIN content) \ Changed(r, content) :
                c \in Known(r) /\ Incoming(r, content)[c] = cells[r][c]
           /\ Incoming(r, content) # cells[r] => Changed(r, content) # {}
<1> DEFINE after == Incoming(r, content)
<1>1. after = [c \in Known(r) \cup DOMAIN content |->
                 IF c \notin Known(r) THEN content[c]
                 ELSE IF c \notin DOMAIN content THEN cells[r][c]
                 ELSE resolve(cells[r][c], content[c])]
  BY DEF Incoming
<1>2. Changed(r, content) = {c \in DOMAIN content : c \notin Known(r) \/ after[c] # cells[r][c]}
  BY DEF Changed
<1> HIDE DEF after
<1>3. /\ DOMAIN after = Known(r) \cup DOMAIN content
      /\ after = [c \in DOMAIN after |-> after[c]]
      /\ \A c \in DOMAIN content : c \notin Known(r) => after[c] = content[c]
      /\ \A c \in Known(r) : c \notin DOMAIN content => after[c] = cells[r][c]
      /\ \A c \in Known(r) \cap DOMAIN content : after[c] = resolve(cells[r][c], content[c])
  BY <1>1
<1>4. /\ Known(r) \subseteq Cells
      /\ \A c \in Known(r) : cells[r][c] \in MapCell /\ cells[r][c].version > 0
  BY DEF TypeOK
<1>5. \A c \in Known(r) : /\ after[c] \in MapCell
                          /\ CellGrows(cells[r][c], after[c])
  <2> TAKE c \in Known(r)
  <2>1. CASE c \in DOMAIN content
    BY <1>3, <1>4, <2>1, ResolvedCell
  <2>2. CASE c \notin DOMAIN content
    BY <1>3, <1>4, <2>2, CellGrowsReflexive
  <2> QED
    BY <2>1, <2>2
<1>6. \A c \in DOMAIN after : after[c] \in MapCell /\ after[c].version > 0
  <2> TAKE c \in DOMAIN after
  <2>1. CASE c \in Known(r)
    BY <1>4, <1>5, <2>1 DEF CellGrows, MapCell
  <2>2. CASE c \notin Known(r)
    BY <1>3, <2>2
  <2> QED
    BY <2>1, <2>2
<1>7. \A c \in (Known(r) \cup DOMAIN content) \ Changed(r, content) :
         c \in Known(r) /\ after[c] = cells[r][c]
  BY <1>2, <1>3
<1>8. Changed(r, content) = {} => after = cells[r]
  <2> SUFFICES ASSUME Changed(r, content) = {} PROVE after = cells[r]
    OBVIOUS
  <2>1. DOMAIN after = Known(r) /\ \A c \in Known(r) : after[c] = cells[r][c]
    BY <1>3, <1>7
  <2>2. cells[r] = [c \in Known(r) |-> cells[r][c]]
    BY DEF MapsAreFunctions
  <2> QED
    BY <1>3, <2>1, <2>2
<1> QED
  BY <1>3, <1>4, <1>5, <1>6, <1>7, <1>8 DEF Successor, after

\* A mark of any kind gives a successor of the map.
LEMMA MarkIsSuccessor ==
    ASSUME TypeOK, MapsAreFunctions, NEW r \in Replicas, NEW c \in Cells,
           NEW mark \in CellState, NEW t \in Nat
    PROVE  LET current == IF c \in Known(r) THEN cells[r][c] ELSE Created
               after == With(r, c, marked(current, mark, r, t))
           IN  /\ Successor(r, after)
               /\ DOMAIN after = Known(r) \cup {c}
               /\ \A d \in Known(r) : d # c => after[d] = cells[r][d]
<1> DEFINE current == IF c \in Known(r) THEN cells[r][c] ELSE Created
<1>1. current \in MapCell
  BY CreatedCell DEF TypeOK
<1>2. c \in Known(r) => current = cells[r][c]
  OBVIOUS
<1> HIDE DEF current
<1> DEFINE cell == marked(current, mark, r, t)
<1>3. cell \in MapCell /\ CellGrows(current, cell) /\ cell.version > 0
  BY <1>1, MarkedCell
<1> HIDE DEF cell
<1>4. /\ Successor(r, With(r, c, cell))
      /\ DOMAIN With(r, c, cell) = Known(r) \cup {c}
      /\ \A d \in Known(r) : d # c => With(r, c, cell)[d] = cells[r][d]
  BY <1>2, <1>3, WithIsSuccessor
<1> QED
  BY <1>4 DEF cell, current

\* Any part of a well-formed map can be sent.
LEMMA PartIsSendable ==
    ASSUME NEW r \in Replicas, NEW after, NEW batch, batch \subseteq DOMAIN after,
           Successor(r, after), NEW v \in Nat
    PROVE  /\ Sendable(r, Message(r, [d \in batch |-> after[d]], v))
           /\ Sendable(r, Message(r, after, v))
BY DEF Sendable, Message, Successor
-------------------------------------------------------------------------------
\* stageSeen and its siblings are steps of the node that marks.
LEMMA StageStep ==
    ASSUME MapInv, NEW r \in Replicas, NEW c \in Cells, NEW mark \in Marks, NEW t \in Times,
           Stage(r, c, mark, t)
    PROVE  StepOf(r)
<1> DEFINE current == IF c \in Known(r) THEN cells[r][c] ELSE Created
           after == With(r, c, marked(current, mark, r, t))
<1>1. mark \in CellState /\ t \in Nat
  BY SharedMapAssumption
<1>2. TypeOK /\ MapsAreFunctions
  BY DEF MapInv
<1>3. /\ Successor(r, after)
      /\ DOMAIN after = Known(r) \cup {c}
      /\ \A d \in Known(r) : d # c => after[d] = cells[r][d]
  BY <1>1, <1>2, MarkIsSuccessor
<1>4. /\ cells' = [cells EXCEPT ![r] = after]
      /\ dirty' = [dirty EXCEPT ![r] = @ \cup {c}]
      /\ version' = [version EXCEPT ![r] = @ + 1]
      /\ sent' = sent
  BY DEF Stage, Mark
<1> HIDE DEF after
<1>5. /\ DOMAIN cells = Replicas /\ dirty \in [Replicas -> SUBSET Cells]
      /\ version \in [Replicas -> Nat] /\ dirty[r] \subseteq Known(r)
  BY <1>2 DEF TypeOK
<1>6. cells'[r] = after /\ dirty'[r] = dirty[r] \cup {c} /\ version'[r] = version[r] + 1
  BY <1>4, <1>5
<1> QED
  BY <1>3, <1>4, <1>5, <1>6 DEF StepOf

\* stageTarget is a step of the node that marks, and sends what it marked.
LEMMA StageTargetStep ==
    ASSUME MapInv, NEW r \in Replicas, NEW c \in Cells, NEW t \in Times, StageTarget(r, c, t)
    PROVE  StepOf(r)
<1> DEFINE current == IF c \in Known(r) THEN cells[r][c] ELSE Created
           after == With(r, c, marked(current, "target", r, t))
<1>1. "target" \in CellState /\ t \in Nat
  BY SharedMapAssumption DEF CellState
<1>2. TypeOK /\ MapsAreFunctions
  BY DEF MapInv
<1>3. /\ Successor(r, after)
      /\ DOMAIN after = Known(r) \cup {c}
      /\ \A d \in Known(r) : d # c => after[d] = cells[r][d]
  BY <1>1, <1>2, MarkIsSuccessor
<1>4. PICK batch \in SUBSET (dirty[r] \cup {c}) :
        /\ dirty' = [dirty EXCEPT ![r] = (@ \cup {c}) \ batch]
        /\ sent' = sent \cup {Message(r, [d \in batch |-> after[d]], version[r] + 1),
                              Message(r, after, version[r] + 1)}
        /\ cells' = [cells EXCEPT ![r] = after]
        /\ version' = [version EXCEPT ![r] = @ + 1]
  BY DEF StageTarget
<1> HIDE DEF after
<1>5. /\ DOMAIN cells = Replicas /\ dirty \in [Replicas -> SUBSET Cells]
      /\ version \in [Replicas -> Nat] /\ dirty[r] \subseteq Known(r)
  BY <1>2 DEF TypeOK
<1>6. /\ cells'[r] = after /\ dirty'[r] = (dirty[r] \cup {c}) \ batch
      /\ version'[r] = version[r] + 1
  BY <1>4, <1>5
<1> DEFINE delta == Message(r, [d \in batch |-> after[d]], version[r] + 1)
           whole == Message(r, after, version[r] + 1)
<1>7. Sendable(r, delta) /\ Sendable(r, whole)
  <2>1. batch \subseteq DOMAIN after /\ version[r] + 1 \in Nat
    BY <1>3, <1>5
  <2> QED
    BY <1>3, <2>1, PartIsSendable
<1>8. whole.from = r /\ whole.cells = after
  BY DEF Message
<1> HIDE DEF delta, whole
<1>9. sent' = sent \cup {delta, whole}
  BY <1>4 DEF delta, whole
<1>10. \A m \in sent' \ sent : Sendable(r, m)
  BY <1>7, <1>9
<1>11. \A d \in DOMAIN cells'[r] :
         \E m \in sent' : m.from = r /\ d \in DOMAIN m.cells /\ m.cells[d] = cells'[r][d]
  BY <1>6, <1>8, <1>9
<1>12. /\ cells' = [cells EXCEPT ![r] = cells'[r]]
       /\ dirty' = [dirty EXCEPT ![r] = dirty'[r]]
       /\ version' = [version EXCEPT ![r] = version'[r]]
  BY <1>4, <1>5, <1>6
<1>13. /\ dirty'[r] \subseteq DOMAIN cells'[r]
       /\ version'[r] \in Nat /\ version'[r] > version[r]
       /\ sent \subseteq sent'
  BY <1>3, <1>5, <1>6, <1>9
<1> QED
  BY <1>3, <1>5, <1>6, <1>10, <1>11, <1>12, <1>13 DEF StepOf

\* flushDelta sends the batch that it takes out of the dirty set.
LEMMA FlushDeltaStep ==
    ASSUME MapInv, NEW r \in Replicas, FlushDelta(r)
    PROVE  StepOf(r)
<1>1. TypeOK /\ MapsAreFunctions
  BY DEF MapInv
<1>2. PICK batch \in SUBSET dirty[r] :
        /\ dirty' = [dirty EXCEPT ![r] = dirty[r] \ batch]
        /\ sent' = sent \cup {Message(r, [d \in batch |-> cells[r][d]], version[r])}
        /\ cells' = cells /\ version' = version
  BY DEF FlushDelta, StillDirty
<1>3. /\ DOMAIN cells = Replicas /\ dirty \in [Replicas -> SUBSET Cells]
      /\ version \in [Replicas -> Nat] /\ dirty[r] \subseteq Known(r)
      /\ cells = [q \in Replicas |-> cells[q]]
  BY <1>1 DEF TypeOK, MapsAreFunctions
<1>4. Successor(r, cells[r])
  BY <1>1, CellGrowsReflexive DEF Successor, TypeOK, MapsAreFunctions, Known
<1> DEFINE delta == Message(r, [d \in batch |-> cells[r][d]], version[r])
<1>5. /\ Sendable(r, delta) /\ delta.from = r /\ DOMAIN delta.cells = batch
      /\ \A d \in batch : delta.cells[d] = cells[r][d]
  BY <1>3, <1>4, PartIsSendable DEF Message, Known
<1> HIDE DEF delta
<1>6. sent' = sent \cup {delta}
  BY <1>2 DEF delta
<1>7. dirty'[r] = dirty[r] \ batch
  BY <1>2, <1>3
<1>8. \A c \in Known(r) \ dirty'[r] :
         \/ c \in Known(r) \ dirty[r]
         \/ \E m \in sent' : m.from = r /\ c \in DOMAIN m.cells /\ m.cells[c] = cells[r][c]
  BY <1>5, <1>6, <1>7
<1> QED
  BY <1>2, <1>3, <1>4, <1>5, <1>6, <1>7, <1>8 DEF StepOf, Known

\* A snapshot sends the whole map and changes nothing.
LEMMA SnapshotStep ==
    ASSUME MapInv, NEW r \in Replicas, Snapshot(r)
    PROVE  StepOf(r)
<1>1. TypeOK /\ MapsAreFunctions
  BY DEF MapInv
<1>2. /\ sent' = sent \cup {Message(r, cells[r], version[r])}
      /\ cells' = cells /\ version' = version /\ dirty' = dirty
  BY DEF Snapshot
<1>3. /\ DOMAIN cells = Replicas /\ dirty \in [Replicas -> SUBSET Cells]
      /\ version \in [Replicas -> Nat] /\ dirty[r] \subseteq Known(r)
      /\ cells = [q \in Replicas |-> cells[q]]
  BY <1>1 DEF TypeOK, MapsAreFunctions
<1>4. Successor(r, cells[r])
  BY <1>1, CellGrowsReflexive DEF Successor, TypeOK, MapsAreFunctions, Known
<1>5. Sendable(r, Message(r, cells[r], version[r]))
  BY <1>3, <1>4, PartIsSendable DEF Known
<1> QED
  BY <1>2, <1>3, <1>4, <1>5 DEF StepOf, Known

\* merge, mergeSnapshot, mergeRemote and replaceFromSnapshot: what changed is dirty,
\* and the version grows with it.
LEMMA MergeStep ==
    ASSUME MapInv, NEW r \in Replicas, NEW m \in sent, Merge(r, m) \/ MergeRemote(r, m)
    PROVE  StepOf(r)
<1> DEFINE after == Incoming(r, m.cells)
           v == VersionAfterMerge(r, m)
<1>1. TypeOK /\ MapsAreFunctions
  BY DEF MapInv
<1>2. /\ DOMAIN m.cells \subseteq Cells /\ m.version \in Nat
      /\ \A c \in DOMAIN m.cells : m.cells[c] \in MapCell /\ m.cells[c].version > 0
  BY DEF MapInv, TypeOK, Messages, SentCellsMarked
<1>3. /\ Successor(r, after)
      /\ DOMAIN after = Known(r) \cup DOMAIN m.cells
      /\ \A c \in (Known(r) \cup DOMAIN m.cells) \ Changed(r, m.cells) :
           c \in Known(r) /\ after[c] = cells[r][c]
      /\ after # cells[r] => Changed(r, m.cells) # {}
  BY <1>1, <1>2, IncomingIsSuccessor
<1>4. /\ DOMAIN cells = Replicas /\ dirty \in [Replicas -> SUBSET Cells]
      /\ version \in [Replicas -> Nat] /\ dirty[r] \subseteq Known(r)
  BY <1>1 DEF TypeOK
<1>5. /\ v \in Nat /\ v >= version[r]
      /\ Changed(r, m.cells) # {} => v > version[r]
  BY <1>2, <1>4 DEF VersionAfterMerge, Larger
<1>6. /\ cells' = [cells EXCEPT ![r] = after]
      /\ dirty' = [dirty EXCEPT ![r] = dirty[r] \cup Changed(r, m.cells)]
      /\ version' = [version EXCEPT ![r] = v]
      /\ sent' = sent \/ sent' = sent \cup {Message(r, after, v)}
  BY DEF Merge, MergeRemote, MergeInto, DirtyAfterMerge
<1>7. Sendable(r, Message(r, after, v))
  <2> HIDE DEF after, v
  <2> QED
    BY <1>3, <1>5, PartIsSendable
<1>8. Changed(r, m.cells) \subseteq DOMAIN m.cells
  BY DEF Changed
<1> HIDE DEF after, v
<1>9. /\ cells'[r] = after /\ dirty'[r] = dirty[r] \cup Changed(r, m.cells)
      /\ version'[r] = v
  BY <1>4, <1>6
<1>10. \A c \in DOMAIN after \ dirty'[r] :
         c \in Known(r) \ dirty[r] /\ after[c] = cells[r][c]
  BY <1>3, <1>9
<1> QED
  BY <1>3, <1>4, <1>5, <1>6, <1>7, <1>8, <1>9, <1>10 DEF StepOf

\* upsert of a cell another node sent.
LEMMA UpsertStep ==
    ASSUME MapInv, NEW r \in Replicas, NEW m \in sent, NEW c \in DOMAIN m.cells,
           Upsert(r, c, m.cells[c])
    PROVE  StepOf(r)
<1> DEFINE after == IF c \in Known(r) THEN resolve(cells[r][c], m.cells[c]) ELSE m.cells[c]
<1>1. TypeOK /\ MapsAreFunctions
  BY DEF MapInv
<1>2. c \in Cells /\ m.cells[c] \in MapCell /\ m.cells[c].version > 0
  BY DEF MapInv, TypeOK, Messages, SentCellsMarked
<1>3. /\ after \in MapCell /\ after.version > 0
      /\ c \in Known(r) => CellGrows(cells[r][c], after)
  <2>1. CASE c \in Known(r)
    <3>1. cells[r][c] \in MapCell /\ cells[r][c].version > 0
      BY <1>1, <2>1 DEF TypeOK
    <3>2. /\ resolve(cells[r][c], m.cells[c]) \in MapCell
          /\ CellGrows(cells[r][c], resolve(cells[r][c], m.cells[c]))
      BY <1>2, <3>1, ResolvedCell
    <3> QED
      BY <2>1, <3>1, <3>2 DEF CellGrows, MapCell
  <2>2. CASE c \notin Known(r)
    BY <1>2, <2>2
  <2> QED
    BY <2>1, <2>2
<1>4. /\ cells' = [cells EXCEPT ![r] = With(r, c, after)]
      /\ dirty' = [dirty EXCEPT ![r] = @ \cup {c}]
      /\ version' = [version EXCEPT ![r] = @ + 1]
      /\ sent' = sent
  BY DEF Upsert
<1> HIDE DEF after
<1>5. /\ Successor(r, With(r, c, after))
      /\ DOMAIN With(r, c, after) = Known(r) \cup {c}
      /\ \A d \in Known(r) : d # c => With(r, c, after)[d] = cells[r][d]
  BY <1>1, <1>2, <1>3, WithIsSuccessor
<1>6. /\ DOMAIN cells = Replicas /\ dirty \in [Replicas -> SUBSET Cells]
      /\ version \in [Replicas -> Nat] /\ dirty[r] \subseteq Known(r)
  BY <1>1 DEF TypeOK
<1>7. /\ cells'[r] = With(r, c, after) /\ dirty'[r] = dirty[r] \cup {c}
      /\ version'[r] = version[r] + 1
  BY <1>4, <1>6
<1> QED
  BY <1>4, <1>5, <1>6, <1>7 DEF StepOf
-------------------------------------------------------------------------------
\* Every step of the map is a step of one node.
LEMMA EveryStep ==
    ASSUME MapInv, Next
    PROVE  \E r \in Replicas : StepOf(r)
BY StageStep, StageTargetStep, FlushDeltaStep, SnapshotStep, MergeStep, UpsertStep DEF Next

\* Empty maps satisfy the invariant.
LEMMA MapInvInit == Init => MapInv
<1> SUFFICES ASSUME Init PROVE MapInv
  OBVIOUS
<1>1. /\ cells = [r \in Replicas |-> cells[r]]
      /\ \A r \in Replicas : cells[r] = [c \in {} |-> Created] /\ Known(r) = {}
      /\ dirty = [r \in Replicas |-> {}] /\ version = [r \in Replicas |-> 0] /\ sent = {}
  BY DEF Init, Known
<1>2. MapsAreFunctions
  BY <1>1 DEF MapsAreFunctions
<1> QED
  BY <1>1, <1>2 DEF MapInv, TypeOK, SentCellsMarked, CleanMeansSent

\* A step of one node preserves the invariant.
LEMMA MapInvStep ==
    ASSUME MapInv, NEW r \in Replicas, StepOf(r)
    PROVE  MapInv'
<1>1. /\ DOMAIN cells = Replicas
      /\ \A q \in Replicas :
           /\ Known(q) \subseteq Cells
           /\ \A c \in Known(q) : cells[q][c] \in MapCell /\ cells[q][c].version > 0
           /\ dirty[q] \subseteq Known(q)
           /\ cells[q] = [c \in Known(q) |-> cells[q][c]]
      /\ dirty \in [Replicas -> SUBSET Cells]
      /\ version \in [Replicas -> Nat]
  BY DEF MapInv, TypeOK, MapsAreFunctions
<1>2. \A q \in Replicas : q # r =>
        cells'[q] = cells[q] /\ dirty'[q] = dirty[q] /\ version'[q] = version[q]
  BY <1>1 DEF StepOf
<1>3. /\ Successor(r, cells'[r]) /\ dirty'[r] \subseteq DOMAIN cells'[r]
      /\ version'[r] \in Nat /\ sent \subseteq sent'
      /\ \A m \in sent' \ sent : Sendable(r, m)
  BY DEF StepOf
<1>4. /\ cells' = [q \in Replicas |-> cells'[q]]
      /\ DOMAIN cells' = Replicas
      /\ dirty' \in [Replicas -> SUBSET Cells]
      /\ version' \in [Replicas -> Nat]
  <2>1. /\ cells' = [q \in Replicas |-> IF q = r THEN cells'[r] ELSE cells[q]]
        /\ dirty' = [q \in Replicas |-> IF q = r THEN dirty'[r] ELSE dirty[q]]
        /\ version' = [q \in Replicas |-> IF q = r THEN version'[r] ELSE version[q]]
    BY <1>1 DEF StepOf
  <2>2. dirty'[r] \in SUBSET Cells
    BY <1>3 DEF Successor
  <2> QED
    BY <1>1, <1>3, <2>1, <2>2
<1>5. \A q \in Replicas :
        /\ DOMAIN cells'[q] \subseteq Cells
        /\ \A c \in DOMAIN cells'[q] : cells'[q][c] \in MapCell /\ cells'[q][c].version > 0
        /\ dirty'[q] \subseteq DOMAIN cells'[q]
        /\ cells'[q] = [c \in DOMAIN cells'[q] |-> cells'[q][c]]
  <2> TAKE q \in Replicas
  <2>1. CASE q = r
    BY <1>3, <2>1 DEF Successor
  <2>2. CASE q # r
    BY <1>1, <1>2, <2>2 DEF Known
  <2> QED
    BY <2>1, <2>2
<1>6. \A m \in sent' :
        /\ Messages(m)
        /\ \A c \in DOMAIN m.cells : m.cells[c].version > 0
  <2> TAKE m \in sent'
  <2>1. CASE m \in sent
    BY <2>1 DEF MapInv, TypeOK, SentCellsMarked
  <2>2. CASE m \notin sent
    BY <1>3, <2>2 DEF Sendable, Messages
  <2> QED
    BY <2>1, <2>2
<1>7. TypeOK'
  BY <1>4, <1>5, <1>6 DEF TypeOK, Known
<1>8. SentCellsMarked' /\ MapsAreFunctions'
  BY <1>4, <1>5, <1>6 DEF SentCellsMarked, MapsAreFunctions, Known
<1>9. CleanMeansSent'
  <2> SUFFICES ASSUME NEW q \in Replicas, NEW c \in DOMAIN cells'[q] \ dirty'[q]
               PROVE  \E m \in sent' :
                        m.from = q /\ c \in DOMAIN m.cells /\ m.cells[c] = cells'[q][c]
    BY DEF CleanMeansSent, Known
  <2>1. CASE /\ c \in Known(q) \ dirty[q] /\ cells'[q][c] = cells[q][c]
    BY <1>3, <2>1 DEF MapInv, CleanMeansSent
  <2>2. CASE q # r
    BY <1>2, <2>1, <2>2 DEF Known
  <2>3. CASE q = r
    BY <2>1, <2>3 DEF StepOf
  <2> QED
    BY <2>2, <2>3
<1> QED
  BY <1>7, <1>8, <1>9 DEF MapInv

\* MapInv holds in every reachable state.
THEOREM MapInvariance == Spec => []MapInv
<1>1. MapInv /\ [Next]_vars => MapInv'
  <2> SUFFICES ASSUME MapInv, [Next]_vars PROVE MapInv'
    OBVIOUS
  <2>1. CASE Next
    BY <2>1, EveryStep, MapInvStep
  <2>2. CASE UNCHANGED vars
    BY <2>2 DEF vars, MapInv, TypeOK, SentCellsMarked, MapsAreFunctions, CleanMeansSent, Known
  <2> QED
    BY <2>1, <2>2
<1> QED
  BY MapInvInit, <1>1, PTL DEF Spec

\* Maps and messages are well formed, and only known cells are dirty.
THEOREM MapTypes == Spec => []TypeOK
<1>1. MapInv => TypeOK
  BY DEF MapInv
<1> QED
  BY MapInvariance, <1>1, PTL

\* A cell that is not dirty has gone out as it is: delta never drops a cell that a
\* mark or a merge touched meanwhile, nor one beyond maxCells.
THEOREM NothingForgotten == Spec => []CleanMeansSent
<1>1. MapInv => CleanMeansSent
  BY DEF MapInv
<1> QED
  BY MapInvariance, <1>1, PTL

\* Whatever two nodes hold, three exchanges bring a cell of both to the stronger state.
THEOREM Convergence == Spec => []ThreeExchangesConverge
<1>1. MapInv => ThreeExchangesConverge
  <2> SUFFICES ASSUME MapInv, NEW r \in Replicas, NEW q \in Replicas,
                      NEW c \in Known(r) \cap Known(q)
               PROVE  LET a == resolve(cells[r][c], cells[q][c])
                          b == resolve(cells[q][c], a)
                      IN  /\ b.state = Join(cells[r][c].state, cells[q][c].state)
                          /\ resolve(a, b).state = b.state
    BY DEF ThreeExchangesConverge
  <2>1. cells[r][c] \in MapCell /\ cells[q][c] \in MapCell
    BY DEF MapInv, TypeOK
  <2> QED
    BY <2>1, ThreeExchanges
<1> QED
  BY MapInvariance, <1>1, PTL

\* Whatever arrives, however late or often, no node's knowledge of a cell goes back.
THEOREM KnowledgeNeverShrinks == Spec => KnowledgeGrows
<1> DEFINE Grows == \A r \in Replicas : \A c \in Known(r) :
                      c \in DOMAIN cells'[r] /\ CellGrows(cells[r][c], cells'[r][c])
<1>1. MapInv /\ [Next]_vars => [Grows]_vars
  <2> SUFFICES ASSUME MapInv, Next PROVE Grows
    OBVIOUS
  <2>1. PICK r \in Replicas : StepOf(r)
    BY EveryStep
  <2> SUFFICES ASSUME NEW q \in Replicas, NEW c \in Known(q)
               PROVE  c \in DOMAIN cells'[q] /\ CellGrows(cells[q][c], cells'[q][c])
    OBVIOUS
  <2>2. DOMAIN cells = Replicas /\ cells[q][c] \in MapCell
    BY DEF MapInv, TypeOK
  <2>3. CASE q = r
    BY <2>1, <2>3 DEF StepOf, Successor
  <2>4. CASE q # r
    <3>1. cells'[q] = cells[q]
      BY <2>1, <2>2, <2>4 DEF StepOf
    <3> QED
      BY <2>2, <3>1, CellGrowsReflexive DEF Known
  <2> QED
    BY <2>3, <2>4
<1> QED
  BY MapInvariance, <1>1, PTL DEF Spec, KnowledgeGrows

\* The version of a node's map never falls, and grows whenever its content changes.
THEOREM VersionIsIdentity == Spec => VersionNamesContent
<1> DEFINE Named == \A r \in Replicas :
                      /\ version'[r] >= version[r]
                      /\ cells'[r] # cells[r] => version'[r] > version[r]
<1>1. MapInv /\ [Next]_vars => [Named]_vars
  <2> SUFFICES ASSUME MapInv, Next PROVE Named
    OBVIOUS
  <2>1. PICK r \in Replicas : StepOf(r)
    BY EveryStep
  <2> SUFFICES ASSUME NEW q \in Replicas
               PROVE  /\ version'[q] >= version[q]
                      /\ cells'[q] # cells[q] => version'[q] > version[q]
    OBVIOUS
  <2>2. DOMAIN cells = Replicas /\ version \in [Replicas -> Nat]
    BY DEF MapInv, TypeOK
  <2>3. CASE q = r
    BY <2>1, <2>3 DEF StepOf
  <2>4. CASE q # r
    BY <2>1, <2>2, <2>4 DEF StepOf
  <2> QED
    BY <2>3, <2>4
<1> QED
  BY MapInvariance, <1>1, PTL DEF Spec, VersionNamesContent
-------------------------------------------------------------------------------
(* The join of FoxMapMerge. *)

\* The order in which the records of a cell supersede each other.
AtMost(a, b) ==
    \/ a.rank < b.rank
    \/ a.rank = b.rank /\ a.version < b.version
    \/ a.rank = b.rank /\ a.version = b.version /\ a.time <= b.time

\* The same rank, version and time.
SameKey(a, b) == a.rank = b.rank /\ a.version = b.version /\ a.time = b.time

\* A merge gives a cell.
LEMMA MergeIsCell ==
    ASSUME NEW l \in Cell, NEW r \in Cell
    PROVE  mergeMapCellMeta(l, r) \in Cell
BY DEF Cell, mergeMapCellMeta, Higher

\* The merge of two records supersedes both and has the key of one of them.
LEMMA MergeIsUpperBound ==
    ASSUME NEW l \in Cell, NEW r \in Cell
    PROVE  LET m == mergeMapCellMeta(l, r)
           IN  /\ AtMost(l, m) /\ AtMost(r, m)
               /\ SameKey(m, l) \/ SameKey(m, r)
BY DEF Cell, mergeMapCellMeta, Higher, AtMost, SameKey

\* Stale evidence cannot erase knowledge: whatever arrives, the rank of a cell
\* never falls, and within a rank neither its version nor its confidence does.
THEOREM KnowledgeIsKept ==
    ASSUME NEW l \in Cell, NEW r \in Cell
    PROVE  LET m == mergeMapCellMeta(l, r)
           IN  /\ m.rank >= l.rank
               /\ m.rank = l.rank => m.version >= l.version /\ m.confidence >= l.confidence
BY DEF Cell, mergeMapCellMeta, Higher

\* A delta delivered again changes nothing.
THEOREM RedeliveryIsHarmless ==
    ASSUME NEW l \in Cell, NEW r \in Cell
    PROVE  LET m == mergeMapCellMeta(l, r)
           IN  mergeMapCellMeta(m, r) = m
<1> DEFINE m == mergeMapCellMeta(l, r)
<1> SUFFICES mergeMapCellMeta(m, r) = m
  OBVIOUS
<1>1. m \in Cell
  BY MergeIsCell
<1>2. AtMost(r, m)
  BY MergeIsUpperBound
<1>3. SameKey(r, m) => m.confidence >= r.confidence /\ m.trust >= r.trust
  BY DEF Cell, SameKey, mergeMapCellMeta, Higher
<1> HIDE DEF m
<1>4. CASE ~SameKey(r, m)
  BY <1>1, <1>2, <1>4 DEF Cell, AtMost, SameKey, mergeMapCellMeta
<1>5. CASE SameKey(r, m)
  <2>1. [m EXCEPT !.trust = Higher(m.trust, r.trust)] = m
    BY <1>1, <1>3, <1>5 DEF Cell, Higher
  <2>2. mergeMapCellMeta(m, r) = [m EXCEPT !.trust = Higher(m.trust, r.trust)]
    BY <1>1, <1>3, <1>5 DEF Cell, SameKey, mergeMapCellMeta
  <2> QED
    BY <2>1, <2>2
<1> QED
  BY <1>4, <1>5

\* Two nodes that start from the same record and receive the same two deltas in
\* opposite orders agree on rank, version and time.
THEOREM OrderDoesNotMatter ==
    ASSUME NEW l \in Cell, NEW a \in Cell, NEW b \in Cell
    PROVE  SameKey(mergeMapCellMeta(mergeMapCellMeta(l, a), b),
                   mergeMapCellMeta(mergeMapCellMeta(l, b), a))
<1> DEFINE la == mergeMapCellMeta(l, a)
           lb == mergeMapCellMeta(l, b)
           lab == mergeMapCellMeta(la, b)
           lba == mergeMapCellMeta(lb, a)
<1>1. la \in Cell /\ lb \in Cell
  BY MergeIsCell
<1>2. lab \in Cell /\ lba \in Cell
  BY <1>1, MergeIsCell
<1>3. /\ AtMost(l, la) /\ AtMost(a, la) /\ (SameKey(la, l) \/ SameKey(la, a))
      /\ AtMost(l, lb) /\ AtMost(b, lb) /\ (SameKey(lb, l) \/ SameKey(lb, b))
  BY MergeIsUpperBound
<1>4. /\ AtMost(la, lab) /\ AtMost(b, lab) /\ (SameKey(lab, la) \/ SameKey(lab, b))
      /\ AtMost(lb, lba) /\ AtMost(a, lba) /\ (SameKey(lba, lb) \/ SameKey(lba, a))
  BY <1>1, MergeIsUpperBound
<1> HIDE DEF la, lb, lab, lba
<1>5. AtMost(lab, lba) /\ AtMost(lba, lab)
  BY <1>1, <1>2, <1>3, <1>4 DEF Cell, AtMost, SameKey
<1>6. SameKey(lab, lba)
  BY <1>2, <1>5 DEF Cell, AtMost, SameKey
<1> QED
  BY <1>6 DEF la, lb, lab, lba
===============================================================================
