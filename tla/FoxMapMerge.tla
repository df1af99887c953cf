------------------------------ MODULE FoxMapMerge ------------------------------
(***************************************************************************)
(* mergeMapCellMeta (src/foxmq/mapMerge.ts): the join of two records of    *)
(* one map cell, used for every delta of the live fleet map.               *)
(*                                                                         *)
(* Deltas arrive late, again, and in any order (those of a partition come  *)
(* from a buffer when it heals), so what matters is that joining is        *)
(* insensitive to all three.  A cell nobody knows yet is just taken over.  *)
(* Otherwise a cell is the rank of its state, its version, time,           *)
(* confidence and trust; the lineage (a log of the merges) and the dirty   *)
(* flag are left out, and so are the node names that travel along.         *)
(***************************************************************************)
EXTENDS Integers

Cell == [rank : Nat, version : Nat, time : Nat, confidence : Nat, trust : Nat]

Higher(a, b) == IF a >= b THEN a ELSE b

\* Rank decides, then the version, then the time; at a full tie confidence and trust
\* are raised one at a time.
mergeMapCellMeta(local, remote) ==
    IF remote.rank > local.rank THEN remote
    ELSE IF remote.rank < local.rank THEN local
    ELSE IF remote.version > local.version
      THEN [remote EXCEPT !.confidence = Higher(local.confidence, remote.confidence)]
    ELSE IF remote.version < local.version THEN local
    ELSE IF remote.time > local.time
      THEN [remote EXCEPT !.confidence = Higher(local.confidence, remote.confidence),
                          !.trust = Higher(local.trust, remote.trust)]
    ELSE IF remote.time < local.time THEN local
    ELSE IF remote.confidence > local.confidence
      THEN [local EXCEPT !.confidence = remote.confidence,
                         !.trust = Higher(local.trust, remote.trust)]
    ELSE [local EXCEPT !.trust = Higher(local.trust, remote.trust)]
===============================================================================
