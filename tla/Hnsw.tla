-------------------------------- MODULE Hnsw --------------------------------
(***************************************************************************)
(* The HNSW graph of a sealed segment: built by several threads at once    *)
(* (index/hnsw/parallel.rs), then searched.  Locks are held for one list   *)
(* at a time, so a step is one locked section: reading a node's            *)
(* neighbours, linking a point, linking back, raising the entry.  Badness  *)
(* is any symmetric function of two points.  With one thread this is       *)
(* builder.rs.                                                             *)
(***************************************************************************)
EXTENDS Integers, Sequences, SequencesExt, FiniteSets, FiniteSetsExt

CONSTANTS
  None,
  Points,           \* of the segment, 0 .. n - 1
  Distances,        \* choices of the badness between points
  Levels,           \* choices of the points' levels, level_for(id, seed)
  Queries,          \* [exact, rank, k, ef, admitted]
  M, MMax0, EfConstruction, KeepPruned, RescoreOversample,
  Workers           \* threads of the pool

ASSUME HnswAssumption ==
  /\ Points \subseteq Nat /\ 0 \in Points
  /\ {M, MMax0, RescoreOversample, Workers} \subseteq Nat \ {0}
  /\ EfConstruction \in Nat \ {0, 1}
  /\ KeepPruned \in BOOLEAN
  /\ None \notin Points

VARIABLES
  distance, levels,
  links,       \* point -> layer -> its neighbours
  entry,       \* [point, level]
  insertion,   \* where the insertion of each point is
  answer,      \* a query and what it got
  pruned       \* history: the links enforce_bound has taken away

vars == <<distance, levels, links, entry, insertion, answer, pruned>>

MaxConn(layer) == IF layer = 0 THEN MMax0 ELSE M

(* By badness, then by id.                                                 *)
Nearer(dist, p, q) == dist[p] < dist[q] \/ (dist[p] = dist[q] /\ p < q)

Best(dist, points)  == CHOOSE p \in points : \A q \in points \ {p} : Nearer(dist, p, q)
Worst(dist, points) == CHOOSE p \in points : \A q \in points \ {p} : Nearer(dist, q, p)

RECURSIVE Sorted(_, _)
Sorted(dist, points) ==
  IF points = {} THEN <<>>
  ELSE LET best == Best(dist, points) IN <<best>> \o Sorted(dist, points \ {best})

Truncate(seq, n) == SubSeq(seq, 1, Min({n, Len(seq)}))

-----------------------------------------------------------------------------
(***************************************************************************)
(* search_layer, one popped candidate at a time.                           *)
(***************************************************************************)
Evict(dist, ef, results) ==
  IF Cardinality(results) > ef THEN results \ {Worst(dist, results)} ELSE results

StartSearch(dist, admitted, ef, starts) ==
  [candidates |-> starts, visited |-> starts,
   results |-> ToSet(Truncate(Sorted(dist, starts \cap admitted), ef))]

Finished(dist, ef, s) ==
  \/ s.candidates = {}
  \/ /\ s.candidates # {} /\ s.results # {} /\ Cardinality(s.results) >= ef
     /\ dist[Best(dist, s.candidates)] > dist[Worst(dist, s.results)]

(* Faulty variant: points that are not admitted are not walked through.    *)
SeeOnlyAdmitted(dist, admitted, ef, s, n) ==
  LET explore == n \in admitted /\
        (s.results = {} \/ Cardinality(s.results) < ef
           \/ dist[n] < dist[Worst(dist, s.results)])
  IN [candidates |-> IF explore THEN s.candidates \cup {n} ELSE s.candidates,
      visited |-> s.visited \cup {n},
      results |-> IF explore THEN Evict(dist, ef, s.results \cup {n}) ELSE s.results]

See(dist, admitted, ef, s, n) ==
  LET explore == s.results = {} \/ Cardinality(s.results) < ef
                   \/ dist[n] < dist[Worst(dist, s.results)]
  IN [candidates |-> IF explore THEN s.candidates \cup {n} ELSE s.candidates,
      visited |-> s.visited \cup {n},
      results |-> IF explore /\ n \in admitted
                  THEN Evict(dist, ef, s.results \cup {n}) ELSE s.results]

(* c has been popped and its neighbours read.                              *)
RECURSIVE SeeAll(_, _, _, _, _)
SeeAll(dist, admitted, ef, s, list) ==
  IF list = <<>> THEN s
  ELSE LET t == IF Head(list) \in s.visited THEN s
                ELSE See(dist, admitted, ef, s, Head(list))
       IN SeeAll(dist, admitted, ef, t, Tail(list))

Expand(dist, admitted, ef, s, c, neighbours) ==
  SeeAll(dist, admitted, ef, [s EXCEPT !.candidates = @ \ {c}], neighbours)

NeighboursIn(graph, p, layer) == IF layer \in DOMAIN graph[p] THEN graph[p][layer] ELSE <<>>

RECURSIVE RunSearch(_, _, _, _, _, _)
RunSearch(graph, layer, dist, admitted, ef, s) ==
  IF Finished(dist, ef, s) THEN s.results
  ELSE LET c == Best(dist, s.candidates) IN
       RunSearch(graph, layer, dist, admitted, ef,
                 Expand(dist, admitted, ef, s, c, NeighboursIn(graph, c, layer)))

SearchLayer(graph, layer, starts, ef, dist, admitted) ==
  RunSearch(graph, layer, dist, admitted, ef, StartSearch(dist, admitted, ef, starts))

(***************************************************************************)
(* select_neighbors: Algorithm 4 of Malkov and Yashunin.                   *)
(***************************************************************************)
RECURSIVE Diversify(_, _, _, _, _)
Diversify(base, m, chosen, discarded, sorted) ==
  IF sorted = <<>> \/ Len(chosen) >= m
  THEN Truncate(chosen \o (IF KeepPruned THEN discarded ELSE <<>>), m)
  ELSE LET e == Head(sorted) IN
       IF \A i \in DOMAIN chosen : distance[e][chosen[i]] >= distance[base][e]
       THEN Diversify(base, m, Append(chosen, e), discarded, Tail(sorted))
       ELSE Diversify(base, m, chosen, Append(discarded, e), Tail(sorted))

Select(base, candidates, m) ==
  Diversify(base, m, <<>>, <<>>, Sorted(distance[base], candidates \ {base}))

(* Faulty variant: a list may be one too long.                             *)
EnforceBoundLate(base, layer, list) ==
  IF Len(list) > MaxConn(layer) + 1 THEN Select(base, ToSet(list), MaxConn(layer)) ELSE list

EnforceBound(base, layer, list) ==
  IF Len(list) > MaxConn(layer) THEN Select(base, ToSet(list), MaxConn(layer)) ELSE list

PushNew(list, p) == IF p \in ToSet(list) THEN list ELSE Append(list, p)

-----------------------------------------------------------------------------
(***************************************************************************)
(* Building.  Point 0 is the entry; the others are inserted in any order.  *)
(***************************************************************************)
Waiting == [at |-> "waiting"]
Done    == [at |-> "done"]

Init ==
  /\ distance \in Distances
  /\ levels \in Levels
  /\ links = [p \in Points |-> [layer \in 0 .. levels[p] |-> <<>>]]
  /\ entry = [point |-> 0, level |-> levels[0]]
  /\ insertion = [p \in Points |-> IF p = 0 THEN Done ELSE Waiting]
  /\ answer = None
  /\ pruned = {}

Ef(p, layer) == IF layer > levels[p] THEN 1 ELSE EfConstruction

Searching(p, start, layer, starts) ==
  [at |-> "search", start |-> start, layer |-> layer,
   search |-> StartSearch(distance[p], Points, Ef(p, layer), starts)]

Goto(p, step) == insertion' = [insertion EXCEPT ![p] = step]

(* Once a layer is wired, what was found there starts the layer below.     *)
Below(p, i, found) ==
  IF i.layer > 0 THEN Searching(p, i.start, i.layer - 1, found)
  ELSE IF levels[p] > i.start THEN [at |-> "raise"]
  ELSE Done

Begin(p) ==
  /\ insertion[p] = Waiting
  /\ Cardinality({q \in Points : insertion[q] \notin {Waiting, Done}}) < Workers
  /\ Goto(p, Searching(p, entry.level, entry.level, {entry.point}))
  /\ UNCHANGED <<distance, levels, links, entry, answer, pruned>>

Found(p) == /\ insertion[p].at = "search"
            /\ Finished(distance[p], Ef(p, insertion[p].layer), insertion[p].search)

ReadNeighbours(p) ==
  LET i == insertion[p]
      c == Best(distance[p], i.search.candidates)
  IN /\ i.at = "search" /\ ~Found(p)
     /\ Goto(p, [i EXCEPT !.search =
          Expand(distance[p], Points, Ef(p, i.layer), @, c, NeighboursIn(links, c, i.layer))])
     /\ UNCHANGED <<distance, levels, links, entry, answer, pruned>>

Descend(p) ==
  LET i == insertion[p] IN
  /\ Found(p) /\ i.layer > levels[p]
  /\ Goto(p, Searching(p, i.start, i.layer - 1, {Best(distance[p], i.search.results)}))
  /\ UNCHANGED <<distance, levels, links, entry, answer, pruned>>

Relink(p, layer, list, bounded) ==
  /\ links' = [links EXCEPT ![p][layer] = bounded]
  /\ pruned' = pruned \cup {<<layer, p, q>> : q \in ToSet(list) \ ToSet(bounded)}
  /\ UNCHANGED <<distance, levels, entry, answer>>

WireBack(p, i, selected) ==
  IF selected = <<>> THEN Below(p, i, i.search.results)
  ELSE [at |-> "back", start |-> i.start, layer |-> i.layer,
        todo |-> selected, found |-> i.search.results]

(* Faulty variant: what others have linked meanwhile is overwritten.       *)
LinkOwnOverwriting(p) ==
  LET i        == insertion[p]
      selected == Select(p, i.search.results, MaxConn(i.layer))
  IN /\ Found(p) /\ i.layer <= levels[p]
     /\ Relink(p, i.layer, selected, selected)
     /\ Goto(p, WireBack(p, i, selected))

(* Merged with what others have linked meanwhile.                          *)
LinkOwn(p) ==
  LET i        == insertion[p]
      selected == Select(p, i.search.results, MaxConn(i.layer))
      own      == links[p][i.layer]
      merged   == own \o SelectSeq(selected, LAMBDA q : q \notin ToSet(own))
  IN /\ Found(p) /\ i.layer <= levels[p]
     /\ Relink(p, i.layer, merged, EnforceBound(p, i.layer, merged))
     /\ Goto(p, WireBack(p, i, selected))

LinkBack(p) ==
  LET i    == insertion[p]
      nb   == Head(i.todo)
      list == PushNew(links[nb][i.layer], p)
  IN /\ i.at = "back"
     /\ Relink(nb, i.layer, list, EnforceBound(nb, i.layer, list))
     /\ Goto(p, IF Len(i.todo) > 1 THEN [i EXCEPT !.todo = Tail(@)] ELSE Below(p, i, i.found))

(* Faulty variant: the level is not compared again under the lock.         *)
RaiseUnchecked(p) ==
  /\ insertion[p].at = "raise"
  /\ entry' = [point |-> p, level |-> levels[p]]
  /\ Goto(p, Done)
  /\ UNCHANGED <<distance, levels, links, answer, pruned>>

Raise(p) ==
  /\ insertion[p].at = "raise"
  /\ entry' = IF levels[p] > entry.level THEN [point |-> p, level |-> levels[p]] ELSE entry
  /\ Goto(p, Done)
  /\ UNCHANGED <<distance, levels, links, answer, pruned>>

-----------------------------------------------------------------------------
(***************************************************************************)
(* Searching the sealed graph: HnswIndex::search.  rank is the quantized   *)
(* badness to the query, exact the one the candidates are rescored with.   *)
(***************************************************************************)
Built == \A p \in Points : insertion[p] = Done

RECURSIVE StartFrom(_, _, _)
StartFrom(dist, layer, start) ==
  IF layer = 0 THEN start
  ELSE StartFrom(dist, layer - 1,
                 Best(dist, SearchLayer(links, layer, {start}, 1, dist, Points)))

Fetch(q) == q.k * RescoreOversample

SearchIds(q) ==
  LET start == StartFrom(q.rank, entry.level, entry.point)
      found == SearchLayer(links, 0, {start}, Max({q.ef, q.k, Fetch(q)}), q.rank, q.admitted)
  IN ToSet(Truncate(Sorted(q.rank, found), Fetch(q)))

Rescore(q, candidates) == Truncate(Sorted(q.exact, candidates), q.k)

Search(q) ==
  /\ Built /\ answer = None
  /\ answer' = [query |-> q, got |-> Rescore(q, SearchIds(q))]
  /\ UNCHANGED <<distance, levels, links, entry, insertion, pruned>>

Insert(p) == Begin(p) \/ ReadNeighbours(p) \/ Descend(p) \/ LinkOwn(p) \/ LinkBack(p) \/ Raise(p)

(* The only place to stop: TLC's check for deadlock shows that the build   *)
(* always gets there.                                                      *)
Answered == answer # None /\ UNCHANGED vars

Next == (\E p \in Points : Insert(p)) \/ (\E q \in Queries : Search(q)) \/ Answered

Spec == Init /\ [][Next]_vars

-----------------------------------------------------------------------------

(* Every list is within its bound and has no repetition, no link to its    *)
(* own point and none to a point below its layer, which LinkBack would     *)
(* index out of range (parallel.rs:297-303).                               *)
WellFormed ==
  \A p \in Points : \A layer \in DOMAIN links[p] : LET list == links[p][layer] IN
    /\ Len(list) <= MaxConn(layer)
    /\ Cardinality(ToSet(list)) = Len(list)
    /\ \A q \in ToSet(list) : q # p /\ layer <= levels[q]

(* The search starts from the top: two threads that both found themselves  *)
(* above the entry leave the higher one (parallel.rs:309-316).             *)
EntryIsTop ==
  /\ entry.level = levels[entry.point]
  /\ Built => \A p \in Points : levels[p] <= entry.level

RECURSIVE Reach(_, _)
Reach(edges, points) ==
  LET more == points \cup {e[2] : e \in {f \in edges : f[1] \in points}} IN
  IF more = points THEN points ELSE Reach(edges, more)

BaseLinks == UNION {{<<p, q>> : q \in ToSet(links[p][0])} : p \in Points}

(* "Merging (not overwriting) is what makes the parallel build lose no     *)
(* edges": only Algorithm 4 takes links away, and but for those every      *)
(* point could be reached from every other.                                *)
LosesNoEdge == Built =>
  LET kept == BaseLinks \cup {<<e[2], e[3]>> : e \in {f \in pruned : f[1] = 0}}
  IN \A p \in Points : Reach(kept, {p}) = Points

(* A filter or tombstones never cost results: a search returns k of the    *)
(* admitted points it can reach, or all of them, in the order of their     *)
(* exact badness, and the best k if it fetched them all.                   *)
SearchFills == answer # None =>
  LET q    == answer.query
      can  == q.admitted \cap Reach(BaseLinks, {StartFrom(q.rank, entry.level, entry.point)})
      best == Sorted(q.exact, can)
  IN /\ ToSet(answer.got) \subseteq can
     /\ Len(answer.got) = Min({q.k, Cardinality(can)})
     /\ \A i \in 1 .. Len(answer.got) - 1 : Nearer(q.exact, answer.got[i], answer.got[i + 1])
     /\ Cardinality(can) <= Fetch(q) => answer.got = SubSeq(best, 1, Len(answer.got))
=============================================================================
