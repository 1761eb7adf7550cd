------------------------------- MODULE Search -------------------------------
(***************************************************************************)
(* How a collection answers a read: the bounded top-k every scan collects  *)
(* into, the filter that keeps dead and unwanted rows out, a segment's     *)
(* search with its exact fallback, the merge of the segments, pages,       *)
(* recommendation by example, the rescoring of quantized candidates and    *)
(* the fusion of rankings.  A vector is its score against the query.       *)
(* Scores are ordered as total_cmp orders them, so that negation reverses  *)
(* the order.                                                              *)
(***************************************************************************)
EXTENDS Integers, Sequences, FiniteSets, SequencesExt, FiniteSetsExt

CONSTANT None

-----------------------------------------------------------------------------
(***************************************************************************)
(* Top-k.  A key is <<badness, id>>; a smaller key is a better result.  A  *)
(* heap is the sequence of the keys it holds, its root the last.           *)
(***************************************************************************)
Key(score, id, higher) == <<IF higher THEN -score ELSE score, id>>

Before(a, b) == a[1] < b[1] \/ (a[1] = b[1] /\ a[2] < b[2])

Sorted(keys) == SortSeq(keys, Before)

Offer(heap, k, key) ==
  IF k = 0 THEN heap
  ELSE IF Len(heap) < k THEN Sorted(Append(heap, key))
  ELSE IF Before(key, Last(heap)) THEN Sorted(Append(Front(heap), key))
  ELSE heap

TopK(keys, k) == FoldLeft(LAMBDA heap, key : Offer(heap, k, key), <<>>, keys)

(* The best k of a segment's rows that are admitted; ids are local.        *)
ScanTopK(rows, score, higher, k, admitted) ==
  TopK(SelectSeq([l \in DOMAIN rows |-> Key(score[rows[l]], l, higher)],
                 LAMBDA key : key[2] \in admitted), k)

-----------------------------------------------------------------------------
(***************************************************************************)
(* Filters.  A payload is a partial map from field to value; a value is a  *)
(* number or something else.                                               *)
(***************************************************************************)
InRange(range, n) ==
  /\ range.gt # None => n > range.gt
  /\ range.gte # None => n >= range.gte
  /\ range.lt # None => n < range.lt
  /\ range.lte # None => n <= range.lte

Field(payload, key) ==
  IF payload = None \/ key \notin DOMAIN payload THEN None ELSE payload[key]

Holds(c, payload) ==
  LET value == Field(payload, c.key) IN
  /\ c.match # None => value = c.match
  /\ c.range # None => value # None /\ value.number /\ InRange(c.range, value.is)

Passes(filter, payload) ==
  /\ \A c \in filter.must : Holds(c, payload)
  /\ \A c \in filter.must_not : ~Holds(c, payload)
  /\ filter.should # {} => \E c \in filter.should : Holds(c, payload)

(* What a collection holds, and from which version or now it is read.      *)
(* "payloads" are never versioned.                                         *)
Live(c, global) == global \notin c.deletions

Admits(c, filter, global) ==
  Live(c, global) /\ (filter # None => Passes(filter, c.payloads[global]))

-----------------------------------------------------------------------------
(* A segment's graph may not reach all of its rows.                        *)
GraphSearch(c, seg, k, filter) ==
  ScanTopK(seg.rows, c.score, c.higher, k,
           {l \in seg.reached : Admits(c, filter, seg.rows[l])})

ToGlobal(rows, keys, higher) ==
  [i \in DOMAIN keys |-> [id |-> rows[keys[i][2]],
                          score |-> IF higher THEN -keys[i][1] ELSE keys[i][1]]]

(* Faulty variant: what the graph leaves short stays short.                *)
SealedSearchNoScan(c, seg, k, filter) ==
  ToGlobal(seg.rows, GraphSearch(c, seg, k, filter), c.higher)

(* What the graph leaves short is scanned, if there is a filter.           *)
SealedSearch(c, seg, k, filter) ==
  LET found == GraphSearch(c, seg, k, filter) IN
  ToGlobal(seg.rows,
           IF filter # None /\ Len(found) < k
           THEN ScanTopK(seg.rows, c.score, c.higher, k,
                         {l \in DOMAIN seg.rows : Admits(c, filter, seg.rows[l])})
           ELSE found, c.higher)

AppendableSearch(c, k, filter) ==
  ToGlobal(c.appendable,
           ScanTopK(c.appendable, c.score, c.higher, k,
                    {l \in DOMAIN c.appendable : Admits(c, filter, c.appendable[l])}), c.higher)

(* An id found twice is kept once.                                         *)
MergeFinalize(keys) ==
  LET First(i) == \A j \in 1 .. i - 1 : keys[j][2] # keys[i][2]
      kept == SelectSeq([i \in DOMAIN keys |-> i], First) IN
  [i \in DOMAIN kept |-> keys[kept[i]][2]]

Merge(c, results, k) ==
  MergeFinalize(TopK([i \in DOMAIN results |->
                        Key(results[i].score, results[i].id, c.higher)], k))

(* search reads the segments, then the appendable rows; search_at reads    *)
(* a version's segments and has none.                                      *)
SearchCollection(c, k, filter) ==
  Merge(c, FlattenSeq([s \in DOMAIN c.segments |->
                         SealedSearch(c, c.segments[s], k, filter)])
           \o AppendableSearch(c, k, filter), k)

-----------------------------------------------------------------------------
SegmentRows(c) == FlattenSeq([s \in DOMAIN c.segments |-> c.segments[s].rows])

(* Every row in the order of the reads: segments, then appendable.         *)
AllRows(c) == SegmentRows(c) \o c.appendable

LiveRows(c) == SortSeq(SelectSeq(AllRows(c), LAMBDA g : Live(c, g)), <)

Page(rows, offset, limit) ==
  SubSeq(rows, offset + 1, IF offset + limit < Len(rows) THEN offset + limit
                           ELSE Len(rows))

Scroll(c, offset, limit) ==
  [page |-> Page(LiveRows(c), offset, limit), total |-> Len(LiveRows(c))]

(* A deleted row still has its vector.                                     *)
HasVector(c, global) == global \in ToSet(AllRows(c))

GetPoint(c, global) == Live(c, global) /\ HasVector(c, global)

(* Faulty variant: no more is fetched than is asked for.                   *)
RecommendNarrow(c, positive, negative, k, filter) ==
  IF \A g \in positive \cup negative : ~HasVector(c, g) THEN None
  ELSE SelectSeq(SearchCollection(c, k, filter), LAMBDA g : g \notin positive)

(* More is fetched, so that the positive examples can be left out.         *)
Recommend(c, positive, negative, k, filter) ==
  IF \A g \in positive \cup negative : ~HasVector(c, g) THEN None
  ELSE LET found == SelectSeq(SearchCollection(c, k + Cardinality(positive), filter),
                              LAMBDA g : g \notin positive) IN
       Page(found, 0, k)

AsOneSegment(c, rows) ==
  [c EXCEPT !.segments = <<[rows |-> rows, reached |-> DOMAIN rows]>>]

(* Faulty variant: the segments' rows follow each other as they are.       *)
CompactedUnsorted(c) ==
  IF Len(c.segments) <= 1 THEN c ELSE AsOneSegment(c, SegmentRows(c))

(* Compaction writes all rows, dead ones too, to one segment in order.     *)
Compacted(c) ==
  IF Len(c.segments) <= 1 THEN c ELSE AsOneSegment(c, SortSeq(SegmentRows(c), <))

-----------------------------------------------------------------------------
(***************************************************************************)
(* Quantized candidates are ranked by coarse distances and fetched in      *)
(* excess; the exact scores decide.  Ids are 1 .. n.                       *)
(***************************************************************************)
(* Faulty variant: no more is fetched than is returned.                    *)
FetchNarrow(k, oversample, n) == IF k < n THEN k ELSE n

Fetch(k, oversample, n) ==
  LET fetch == k * (IF oversample = 0 THEN 1 ELSE oversample) IN
  IF fetch < n THEN fetch ELSE n

QuantizedRescore(coarse, score, higher, k, oversample) ==
  IF k = 0 \/ coarse = <<>> THEN <<>>
  ELSE LET ranked == Sorted([i \in DOMAIN coarse |-> <<coarse[i], i>>])
           fetched == SubSeq(ranked, 1, Fetch(k, oversample, Len(coarse)))
           rescored == Sorted([i \in DOMAIN fetched |->
                                 Key(score[fetched[i][2]], fetched[i][2], higher)]) IN
       [i \in DOMAIN Page(rescored, 0, k) |-> rescored[i][2]]

(***************************************************************************)
(* Reciprocal rank fusion of lists of ids, best first; the share of a rank *)
(* is Unit / (damping + rank), a whole number for the ranks in use.        *)
(***************************************************************************)
Unit == 60

Share(list, id, damping) ==
  IF Contains(list, id) THEN Unit \div (damping + SelectInSeq(list, LAMBDA x : x = id))
  ELSE 0

FusedScore(lists, id, damping) ==
  FoldLeft(LAMBDA sum, list : sum + Share(list, id, damping), 0, lists)

Fuse(lists, damping, top) ==
  LET ids == UNION {ToSet(lists[i]) : i \in DOMAIN lists}
      keys == SetToSortSeq({Key(FusedScore(lists, id, damping), id, TRUE) : id \in ids},
                           Before) IN
  [i \in DOMAIN Page(keys, 0, top) |-> keys[i][2]]
=============================================================================
