--------------------------- MODULE MCVersionStore ---------------------------
(***************************************************************************)
(* Small instances of VersionStore: two segments whose id ranges are       *)
(* adjacent, at most two tombstones, every combination of the retention    *)
(* rules up to keep_last = 2, four versions.                               *)
(***************************************************************************)
EXTENDS VersionStore

MCSegmentRefs == {[id |-> 0, lo |-> 0, hi |-> 1], [id |-> 1, lo |-> 2, hi |-> 2]}
MCTombstones  == {{}, {0}}

MCAllRules ==
  [keep_last : {None, 0, 1, 2}, keep_tagged : BOOLEAN, keep_branch_heads : BOOLEAN]
=============================================================================
