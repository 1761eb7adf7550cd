---------------------------- MODULE MCAlgorithms ----------------------------
(***************************************************************************)
(* The read path's algorithms over bounded inputs, the visited lists, the  *)
(* locks of a collection and the front ends, one of them at a time.        *)
(***************************************************************************)
EXTENDS Search, Visited, FrontEnds, Locks

VARIABLES
  part,    \* what is being looked at
  input    \* of an algorithm, or None

vars == <<part, input, visitedVars, collections, lockVars>>

Symmetry == Permutations(Threads)

Init ==
  /\ part \in {"search", "rank", "visited", "frontends", "locks"}
  /\ input = None
  /\ IF part = "frontends" THEN FrontEndsInit ELSE collections = <<>>
  /\ VisitedInit /\ LocksInit

-----------------------------------------------------------------------------
Globals == 1 .. 4
Number(n) == [number |-> TRUE, is |-> n]
Text      == [number |-> FALSE, is |-> "text"]

(* Point 1 has no payload, point 2 no number in its field.                 *)
Payloads == [g \in Globals |-> CASE g = 1 -> None
                                 [] g = 2 -> [field |-> Text]
                                 [] OTHER -> [field |-> Number(g)]]

Above(n)   == [key |-> "field", match |-> None,
               range |-> [gt |-> n, gte |-> None, lt |-> None, lte |-> None]]
Exactly(v) == [key |-> "field", match |-> v, range |-> None]
Filter(must, should, must_not) ==
  [must |-> must, should |-> should, must_not |-> must_not]

Filters == {None, Filter({}, {}, {}), Filter({Above(3)}, {}, {}),
            Filter({}, {}, {Above(2)}), Filter({}, {Exactly(Text), Above(3)}, {}),
            Filter({}, {Exactly(Number(3))}, {Exactly(Text)})}

Graph(rows, missed) == [rows |-> rows, reached |-> DOMAIN rows \ missed]

Layouts ==
  {[segments |-> <<>>, appendable |-> <<1, 2, 3, 4>>]}
    \cup {[segments |-> <<Graph(<<1, 3>>, missed), Graph(<<2>>, {})>>,
           appendable |-> <<4>>] : missed \in {{}, {1}, {1, 2}}}
    \cup {[segments |-> <<Graph(<<1, 2, 3>>, missed)>>, appendable |-> <<4>>] :
            missed \in {{}, {2}}}

Collection(layout, score, higher, deletions) ==
  [segments |-> layout.segments, appendable |-> layout.appendable, score |-> score,
   higher |-> higher, deletions |-> deletions, payloads |-> Payloads]

AskSearch ==
  /\ part = "search" /\ input = None
  /\ \E layout \in Layouts, score \in [Globals -> 0 .. 1], higher \in BOOLEAN,
        deletions \in {{}, {1}, {2, 3}, {4}}, filter \in Filters, k \in 0 .. 3 :
       input' = [of |-> Collection(layout, score, higher, deletions),
                 filter |-> filter, k |-> k]
  /\ UNCHANGED <<part, visitedVars, collections, lockVars>>

Lists == {<<>>, <<1>>, <<2, 1>>, <<1, 2>>, <<1, 3>>, <<3, 2, 1>>, <<2, 3>>}

AskRank ==
  /\ part = "rank" /\ input = None
  /\ \/ \E n \in 0 .. 4 : \E coarse \in [1 .. n -> 0 .. 3], higher \in BOOLEAN,
           k \in 0 .. 2, oversample \in 0 .. 2, stretch \in 1 .. 2 :
          input' = [kind |-> "rescore", coarse |-> coarse, higher |-> higher, k |-> k,
                    oversample |-> oversample,
                    exact |-> [i \in 1 .. n |-> (IF higher THEN -1 ELSE 1)
                               * (stretch * coarse[i] + (IF i = 2 THEN 1 ELSE 0))]]
     \/ \E a \in Lists, b \in Lists, c \in Lists, top \in 1 .. 3 :
          input' = [kind |-> "fuse", lists |-> <<a, b, c>>, top |-> top]
  /\ UNCHANGED <<part, visitedVars, collections, lockVars>>

Next ==
  \/ AskSearch
  \/ AskRank
  \/ part = "visited" /\ VisitedNext /\ UNCHANGED <<part, input, collections, lockVars>>
  \/ part = "frontends" /\ FrontEndsNext /\ UNCHANGED <<part, input, visitedVars, lockVars>>
  \/ part = "locks" /\ LocksNext /\ UNCHANGED <<part, input, visitedVars, collections>>

Spec == Init /\ [][Next]_vars

-----------------------------------------------------------------------------
Searched == part = "search" /\ input # None

Limit(k, n) == IF k < n THEN k ELSE n

(* The ids of a set, best first.                                           *)
BestFirst(c, ids) ==
  SetToSortSeq(ids, LAMBDA a, b : Before(Key(c.score[a], a, c.higher),
                                         Key(c.score[b], b, c.higher)))

Wanted(c, filter) == {g \in Globals : Admits(c, filter, g)}

AllReached(c) == \A s \in DOMAIN c.segments :
                   c.segments[s].reached = DOMAIN c.segments[s].rows

(* A search answers with live points that pass the filter, each once, best *)
(* first; with a filter it answers with as many as there are, however      *)
(* little of its graphs it reaches; and what it misses, a graph missed.    *)
SearchSound ==
  Searched =>
    LET c == input.of
        found == SearchCollection(c, input.k, input.filter)
        wanted == Wanted(c, input.filter) IN
    /\ found = BestFirst(c, ToSet(found))
    /\ ToSet(found) \subseteq wanted
    /\ input.filter # None => Len(found) = Limit(input.k, Cardinality(wanted))
    /\ AllReached(c) =>
         found = SubSeq(BestFirst(c, wanted), 1, Limit(input.k, Cardinality(wanted)))

(* Compaction changes no answer, given graphs that reach everything.       *)
CompactionInvisible ==
  Searched /\ AllReached(input.of) =>
    /\ SearchCollection(Compacted(input.of), input.k, input.filter)
         = SearchCollection(input.of, input.k, input.filter)
    /\ LiveRows(Compacted(input.of)) = LiveRows(input.of)

(* Pages of any size, one after the other, are the live points in order,   *)
(* the ones that can be read one by one.                                   *)
ScrollComplete ==
  Searched /\ input.k > 0 =>
    LET c == input.of
        pages == [p \in 1 .. 5 |-> Scroll(c, (p - 1) * input.k, input.k).page] IN
    /\ FlattenSeq(pages) = SetToSortSeq({g \in Globals : GetPoint(c, g)}, <)
    /\ Scroll(c, 0, input.k).total = Cardinality({g \in Globals : GetPoint(c, g)})

(* A recommendation is the best of the points that are not the examples,   *)
(* as many as asked for if there are as many; deleted examples count.      *)
RecommendFull ==
  Searched /\ AllReached(input.of) =>
    \A positive \in {{1}, {2, 3}, {1, 9}} :
      LET c == input.of
          wanted == Wanted(c, input.filter) \ positive IN
      Recommend(c, positive, {}, input.k, input.filter)
        = SubSeq(BestFirst(c, wanted), 1, Limit(input.k, Cardinality(wanted)))

(* Every read that returns rows returns all it should: pages as well as    *)
(* recommendations.                                                        *)
ReadsComplete == ScrollComplete /\ RecommendFull

Ranked(kind) == part = "rank" /\ input # None /\ input.kind = kind

(* When enough is fetched for every point that coarsely ties with or beats *)
(* one of the true best, the answer is the exact one.                      *)
RescoreExact ==
  Ranked("rescore") =>
    LET n == Len(input.coarse)
        found == QuantizedRescore(input.coarse, input.exact, input.higher, input.k,
                                  input.oversample)
        best == SubSeq(Sorted([i \in 1 .. n |-> Key(input.exact[i], i, input.higher)]), 1,
                       Limit(input.k, n))
        rivals == {i \in 1 .. n : \E b \in DOMAIN best :
                     input.coarse[i] <= input.coarse[best[b][2]]} IN
    /\ Len(found) = Len(best)
    /\ Cardinality(rivals) <= input.k * input.oversample =>
         found = [b \in DOMAIN best |-> best[b][2]]

(* An id that every list ranks before another, if it ranks that other at   *)
(* all, comes before it.                                                   *)
FusionRespectsLists ==
  Ranked("fuse") =>
    LET lists == input.lists
        fused == Fuse(lists, 1, input.top)
        Rank(l, id) == SelectInSeq(lists[l], LAMBDA x : x = id) IN
    \A a, b \in 1 .. 3 :
      /\ \A l \in 1 .. 3 : Rank(l, b) > 0 => Rank(l, a) > 0 /\ Rank(l, a) < Rank(l, b)
      /\ Contains(fused, b) /\ a # b
      => /\ Contains(fused, a)
         /\ SelectInSeq(fused, LAMBDA x : x = a) < SelectInSeq(fused, LAMBDA x : x = b)

(* Ranking a second time, by exact scores or over several lists, keeps     *)
(* what is best first.                                                     *)
RankingsKept == RescoreExact /\ FusionRespectsLists
=============================================================================
