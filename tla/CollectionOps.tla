---------------------------- MODULE CollectionOps ----------------------------
(***************************************************************************)
(* The in-memory collection (collection.rs) as a value and its operations  *)
(* as functions from value to value.  A collection value is a record       *)
(*    app       global ids in the appendable segment                       *)
(*    working   the live segment set; a segment is [id, rows], held by     *)
(*              Arc, so it keeps its rows whatever the registry says       *)
(*    segments  the master registry all_segments: id -> rows               *)
(*    dels      the live tombstones                                        *)
(*    payloads  global ids that have a payload                             *)
(*    vs        the version store (VersionOps)                             *)
(*    nextId, nextSeg   the two allocators                                 *)
(* A row is its global id: ids are never reused, so an id stands for one   *)
(* vector.  Each operator is one call made with no other call running.     *)
(***************************************************************************)
EXTENDS VersionOps, FiniteSetsExt

Segment(id, rows) == [id |-> id, rows |-> rows]

EmptyCollection ==
  [app |-> {}, working |-> {}, segments |-> [i \in {} |-> {}], dels |-> {},
   payloads |-> {}, vs |-> EmptyStore, nextId |-> 0, nextSeg |-> 0]

WorkingIds(m)  == {s.id : s \in m.working}
WorkingRows(m) == UNION {s.rows : s \in m.working}
Live(m)        == (m.app \cup WorkingRows(m)) \ m.dels

(* len(): a count of rows minus a count of tombstones, not of live rows.   *)
LenOf(m) ==
  MapThenSumSet(LAMBDA s : Cardinality(s.rows), m.working)
    + Cardinality(m.app) - Cardinality(m.dels)

(* search_at / scroll(at): the manifest's segments, looked up by id in the *)
(* registry (a missing one is skipped), minus the frozen tombstones.       *)
LiveAt(m, v) ==
  LET manifest == m.vs.commits[v]
  IN  (UNION {m.segments[i] : i \in SegmentIds(manifest) \cap DOMAIN m.segments})
        \ manifest.deletions

Insert(m, ids) ==
  [m EXCEPT !.app = @ \cup ids, !.payloads = @ \cup ids,
            !.nextId = Max({@} \cup {i + 1 : i \in ids})]

Delete(m, ids) ==
  [m EXCEPT !.dels = @ \cup (ids \cap (m.app \cup WorkingRows(m)))]

(* The segment reference a manifest keeps: global_id_range().              *)
Reference(s) == [id |-> s.id, lo |-> Min(s.rows), hi |-> Max(s.rows)]

(* all_segments.insert: an entry with the same id is replaced.             *)
Register(m, s) ==
  [i \in DOMAIN m.segments \cup {s.id} |-> IF i = s.id THEN s.rows ELSE m.segments[i]]

Seal(m) ==
  IF m.app = {} THEN m
  ELSE LET sealed == Segment(m.nextSeg, m.app)
       IN  [m EXCEPT !.app = {}, !.nextSeg = @ + 1,
                     !.segments = Register(m, sealed),
                     !.working = @ \cup {sealed}]

(* Faulty variants: the manifest lists the segments as they were before    *)
(* the seal; the tombstones are not frozen into it.                        *)
CommitBeforeSeal(m, tag) ==
  [Seal(m) EXCEPT !.vs = CommitTo(@, {Reference(s) : s \in m.working}, m.dels, tag)]

CommitWithoutTombstones(m, tag) ==
  LET sealed == Seal(m)
  IN  [sealed EXCEPT !.vs =
         CommitTo(@, {Reference(s) : s \in sealed.working}, {}, tag)]

CommitWorking(m, tag) ==
  LET sealed == Seal(m)
  IN  [sealed EXCEPT !.vs =
         CommitTo(@, {Reference(s) : s \in sealed.working}, sealed.dels, tag)]

(* restore(): the working set, the tombstones and the appendable are       *)
(* replaced, then a commit is made on top of HEAD.                         *)
RestoreTo(m, v) ==
  LET manifest == m.vs.commits[v]
      present  == SegmentIds(manifest) \cap DOMAIN m.segments
  IN  CommitWorking([m EXCEPT !.working = {Segment(i, m.segments[i]) : i \in present},
                              !.dels = manifest.deletions,
                              !.app = {}], None)

CanCompact(m) == Cardinality(m.working) > 1

(* compact(): every working row, tombstoned or not, goes to one new        *)
(* segment; the appendable is left alone.                                  *)
CompactWorking(m) ==
  LET merged == Segment(m.nextSeg, WorkingRows(m))
  IN  [m EXCEPT !.nextSeg = @ + 1, !.segments = Register(m, merged),
                !.working = {merged}]

(* gc(): the orphans of the version store that are registered and not in   *)
(* the working set.                                                        *)
DroppedSegments(m, rules) ==
  (OrphanSegments(m.vs, rules) \ WorkingIds(m)) \cap DOMAIN m.segments

CollectGarbage(m, rules) ==
  LET dropped == DroppedSegments(m, rules)
  IN  [m EXCEPT !.vs = Collect(@, rules),
                !.segments = [i \in DOMAIN m.segments \ dropped |-> m.segments[i]]]

SegmentIdsToPersist(m) == WorkingIds(m) \cup AllReferenced(m.vs)
=============================================================================
