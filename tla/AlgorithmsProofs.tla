-------------------------- MODULE AlgorithmsProofs --------------------------
(***************************************************************************)
(* Theorems about Visited, for any number of searches and rows and for a   *)
(* counter of any width; about Locks, for any number of threads, an        *)
(* infinite one included; and about FrontEnds, for any collections.        *)
(***************************************************************************)
EXTENDS Visited, Locks, FrontEnds, SequenceTheorems, TLAPS

(***************************************************************************)
(* The inductive invariant: VisitedExact speaks of the lists in use, but   *)
(* whether it survives the next Get depends on what the lists in the pool  *)
(* carry.  No list has a stamp from its own future.                        *)
(***************************************************************************)
Lists == [generation : Generations, stamps : [Rows -> Generations]]

NoFutureStamp(list) ==
  list.generation > 0 /\ \A r \in Rows : list.stamps[r] <= list.generation

VisitedTypes ==
  /\ free \in Seq(Lists)
  /\ held \in [Searches -> Lists \cup {NoList}]
  /\ marked \in [Searches -> SUBSET Rows]

StampsInv ==
  /\ \A i \in 1 .. Len(free) : NoFutureStamp(free[i])
  /\ \A s \in Searches : held[s] # NoList => NoFutureStamp(held[s])

VisitedInv == VisitedTypes /\ StampsInv /\ VisitedExact

(* A list that is handed out carries no mark, be it new, one generation    *)
(* older or wrapped.                                                       *)
Unmarked(list) ==
  /\ list \in Lists /\ NoFutureStamp(list)
  /\ \A r \in Rows : list.stamps[r] # list.generation

LEMMA NewListUnmarked == Unmarked(NewList)
  BY VisitedAssumption DEF Unmarked, NewList, Lists, Generations, NoFutureStamp

LEMMA ClearedUnmarked ==
  ASSUME NEW list \in Lists, NoFutureStamp(list)
  PROVE  Unmarked(Cleared(list))
<1> DEFINE g == list.generation
<1>1. g \in Generations /\ list.stamps \in [Rows -> Generations]
  BY DEF Lists
<1>2. Advance(list) = [generation |-> (g + 1) % GenerationCount, stamps |-> list.stamps]
  BY DEF Advance, Lists
<1>3. CASE g + 1 = GenerationCount
  <2>1. (g + 1) % GenerationCount = 0
    BY <1>3, VisitedAssumption
  <2> QED
    BY <1>2, <2>1, NewListUnmarked DEF Cleared
<1>4. CASE g + 1 # GenerationCount
  <2>1. g \in Nat /\ g + 1 < GenerationCount
    BY <1>1, <1>4, VisitedAssumption DEF Generations
  <2>2. (g + 1) % GenerationCount = g + 1
    BY <2>1, VisitedAssumption
  <2>3. Cleared(list) = [generation |-> g + 1, stamps |-> list.stamps]
    BY <1>2, <2>1, <2>2 DEF Cleared
  <2> QED
    BY <1>1, <2>1, <2>3, VisitedAssumption
    DEF Unmarked, Lists, Generations, NoFutureStamp
<1> QED
  BY <1>3, <1>4

-----------------------------------------------------------------------------
(***************************************************************************)
(* One lemma per operation of the pool.                                    *)
(***************************************************************************)
(* Search s is handed an unmarked list, whatever happens to the pool.      *)
LEMMA Handed ==
  ASSUME VisitedInv, NEW s \in Searches, NEW list, Unmarked(list),
         held' = [held EXCEPT ![s] = list],
         marked' = [marked EXCEPT ![s] = {}],
         free' \in Seq(Lists),
         \A i \in 1 .. Len(free') : NoFutureStamp(free'[i])
  PROVE  VisitedInv'
<1>1. VisitedTypes'
  BY DEF VisitedInv, VisitedTypes, Unmarked
<1>2. /\ held'[s] = list /\ marked'[s] = {}
      /\ \A t \in Searches : t # s => held'[t] = held[t] /\ marked'[t] = marked[t]
  BY DEF VisitedInv, VisitedTypes
<1>3. StampsInv'
  BY <1>2 DEF VisitedInv, StampsInv, Unmarked
<1>4. VisitedExact'
  BY <1>2 DEF VisitedInv, VisitedExact, Unmarked
<1> QED
  BY <1>1, <1>3, <1>4 DEF VisitedInv

LEMMA GetStep ==
  ASSUME VisitedInv, NEW s \in Searches, Get(s)
  PROVE  VisitedInv'
<1>0. /\ free \in Seq(Lists)
      /\ \A i \in 1 .. Len(free) : NoFutureStamp(free[i])
      /\ marked' = [marked EXCEPT ![s] = {}]
  BY DEF VisitedInv, VisitedTypes, StampsInv, Get
<1>1. CASE free = <<>>
  <2>1. held' = [held EXCEPT ![s] = NewList] /\ free' = free
    BY <1>1 DEF Get
  <2> QED
    BY <1>0, <2>1, NewListUnmarked, Handed
<1>2. CASE free # <<>>
  <2>1. /\ held' = [held EXCEPT ![s] = Cleared(Last(free))]
        /\ free' = Front(free)
    BY <1>2 DEF Get
  <2>2. Len(free) \in Nat /\ Len(free) > 0
    BY <1>0, <1>2
  <2>3. Last(free) \in Lists /\ NoFutureStamp(Last(free))
    BY <1>0, <2>2 DEF Last
  <2>4. /\ Front(free) \in Seq(Lists)
        /\ Len(Front(free)) = Len(free) - 1
        /\ \A i \in 1 .. Len(free) - 1 : Front(free)[i] = free[i]
    <3>1. PICK n \in Nat : n = Len(free) - 1
      BY <2>2
    <3>2. Front(free) = SubSeq(free, 1, n)
      BY <3>1 DEF Front
    <3>3. \A i \in 1 .. n : free[i] \in Lists
      BY <1>0, <2>2, <3>1
    <3>4. /\ SubSeq(free, 1, n) \in Seq(Lists)
          /\ Len(SubSeq(free, 1, n)) = IF 1 <= n THEN n - 1 + 1 ELSE 0
          /\ \A i \in 1 .. n - 1 + 1 : SubSeq(free, 1, n)[i] = free[1 + i - 1]
      BY <3>3, SubSeqProperties
    <3> QED
      BY <3>1, <3>2, <3>4
  <2>5. ASSUME NEW i \in 1 .. Len(free')
        PROVE  NoFutureStamp(free'[i])
    <3>1. free' = Front(free) /\ Len(free') = Len(free) - 1
      BY <2>1, <2>4
    <3>2. i \in 1 .. Len(free) - 1 /\ i \in 1 .. Len(free)
      BY <2>2, <3>1
    <3>3. free'[i] = free[i]
      BY <2>4, <3>1, <3>2
    <3> QED
      BY <1>0, <3>2, <3>3
  <2>6. Unmarked(Cleared(Last(free)))
    BY <2>3, ClearedUnmarked
  <2> QED
    BY <1>0, <2>1, <2>4, <2>5, <2>6, Handed
<1> QED
  BY <1>1, <1>2

(* Marking a row puts the list's own generation on it, which no other list *)
(* sees.                                                                   *)
LEMMA VisitStep ==
  ASSUME VisitedInv, NEW s \in Searches, NEW r \in Rows, Visit(s, r)
  PROVE  VisitedInv'
<1> DEFINE list == held[s]
           stamped == [list EXCEPT !.stamps = [list.stamps EXCEPT ![r] = list.generation]]
<1>1. /\ list \in Lists /\ NoFutureStamp(list)
      /\ {q \in Rows : list.stamps[q] = list.generation} = marked[s]
  BY DEF VisitedInv, VisitedTypes, StampsInv, VisitedExact, Visit
<1>2. /\ stamped \in Lists
      /\ stamped.generation = list.generation
      /\ stamped.stamps[r] = list.generation
      /\ \A q \in Rows : q # r => stamped.stamps[q] = list.stamps[q]
  BY <1>1 DEF Lists
<1>3. held' = [held EXCEPT ![s] = stamped]
  BY DEF Visit
<1> HIDE DEF stamped
<1>4. /\ held'[s] = stamped /\ marked'[s] = marked[s] \cup {r} /\ free' = free
      /\ \A t \in Searches : t # s => held'[t] = held[t] /\ marked'[t] = marked[t]
  BY <1>3 DEF VisitedInv, VisitedTypes, Visit
<1>5. VisitedTypes'
  BY <1>2, <1>3 DEF VisitedInv, VisitedTypes, Visit
<1>6. NoFutureStamp(stamped)
  BY <1>1, <1>2, VisitedAssumption DEF NoFutureStamp, Lists, Generations
<1>7. StampsInv'
  BY <1>4, <1>6 DEF VisitedInv, StampsInv
<1>8. {q \in Rows : stamped.stamps[q] = stamped.generation} = marked[s] \cup {r}
  BY <1>1, <1>2
<1>9. VisitedExact'
  BY <1>4, <1>8 DEF VisitedInv, VisitedExact
<1> QED
  BY <1>5, <1>7, <1>9 DEF VisitedInv

LEMMA PutStep ==
  ASSUME VisitedInv, NEW s \in Searches, Put(s)
  PROVE  VisitedInv'
<1>1. /\ held[s] \in Lists /\ NoFutureStamp(held[s])
      /\ free \in Seq(Lists)
      /\ free' = Append(free, held[s])
  BY DEF VisitedInv, VisitedTypes, StampsInv, Put
<1>2. /\ held'[s] = NoList /\ marked' = marked
      /\ \A t \in Searches : t # s => held'[t] = held[t]
  BY DEF VisitedInv, VisitedTypes, Put
<1>3. VisitedTypes'
  BY <1>1 DEF VisitedInv, VisitedTypes, Put
<1>4. \A i \in 1 .. Len(free') : NoFutureStamp(free'[i])
  <2>1. /\ Len(free') = Len(free) + 1 /\ Len(free) \in Nat
        /\ free'[Len(free) + 1] = held[s]
        /\ \A i \in 1 .. Len(free) : free'[i] = free[i]
    BY <1>1
  <2> QED
    BY <1>1, <2>1 DEF VisitedInv, StampsInv
<1>5. StampsInv'
  BY <1>2, <1>4 DEF VisitedInv, StampsInv
<1>6. VisitedExact'
  BY <1>2 DEF VisitedInv, VisitedExact
<1> QED
  BY <1>3, <1>5, <1>6 DEF VisitedInv

-----------------------------------------------------------------------------
(* However often a list has been taken, marked and put back, and however   *)
(* often its counter has wrapped, it says of a row that it was visited     *)
(* exactly when the search that holds it has visited it (hnsw/visited.rs). *)
THEOREM ListsAreExact == VisitedSpec => []VisitedExact
<1>1. VisitedInit => VisitedInv
  BY DEF VisitedInit, VisitedInv, VisitedTypes, StampsInv, VisitedExact
<1>2. VisitedInv /\ [VisitedNext]_visitedVars => VisitedInv'
  <2>1. ASSUME VisitedInv, VisitedNext
        PROVE  VisitedInv'
    BY <2>1, GetStep, PutStep, VisitStep DEF VisitedNext
  <2>2. ASSUME VisitedInv, UNCHANGED visitedVars
        PROVE  VisitedInv'
    BY <2>2 DEF visitedVars, VisitedInv, VisitedTypes, StampsInv, VisitedExact
  <2> QED
    BY <2>1, <2>2
<1>3. VisitedInv => VisitedExact
  BY DEF VisitedInv
<1> QED
  BY <1>1, <1>2, <1>3, PTL DEF VisitedSpec
-----------------------------------------------------------------------------
LockNames == {"wal", "payloads", "appendable", "all_segments", "versions"}
Modes     == {"read", "write"}

(* What the calls but the searches and the scroll ask for, under the log   *)
(* or not: locks they give back at once.                                   *)
PlainRequests == [lock : LockNames \ {"wal"}, mode : Modes, until : {0}]
PlainCalls    == {s \in Seq(PlainRequests) : Len(s) > 0}

(* The locks have ranks, and a call that keeps one asks for higher ones.   *)
Ranks == [LockNames -> 0 .. 3]

Ordered(requests, rank) ==
  \A i, j \in 1 .. Len(requests) :
    i < j /\ requests[i].until >= j =>
      rank[requests[i].lock] < rank[requests[j].lock]

(* An order for all calls but search_at, and one for all but scroll_at.    *)
PayloadsFirst ==
  [l \in LockNames |-> CASE l = "wal" -> 0 [] l = "payloads" -> 1 [] OTHER -> 2]
SegmentsFirst ==
  [l \in LockNames |-> CASE l = "wal" -> 0 [] l = "all_segments" -> 1
                         [] l = "payloads" -> 2 [] OTHER -> 3]

(* Sequences of well-formed requests.                                      *)
AllRequests == [lock : LockNames, mode : Modes, until : Nat]

LEMMA RanksOrder ==
  /\ PayloadsFirst \in Ranks /\ SegmentsFirst \in Ranks
  /\ \A l \in LockNames \ {"wal"} :
       PayloadsFirst["wal"] < PayloadsFirst[l] /\ SegmentsFirst["wal"] < SegmentsFirst[l]
  BY DEF PayloadsFirst, SegmentsFirst, Ranks, LockNames

LEMMA PlainOnes ==
  ASSUME NEW l \in LockNames \ {"wal"}
  PROVE  Reads(l) \in PlainCalls /\ Writes(l) \in PlainCalls
  BY DEF Reads, Writes, Ask, PlainRequests, PlainCalls, Modes

LEMMA PlainTogether ==
  ASSUME NEW s1 \in PlainCalls, NEW s2 \in PlainCalls
  PROVE  s1 \o s2 \in PlainCalls
<1>1. s1 \in Seq(PlainRequests) /\ s2 \in Seq(PlainRequests)
  BY DEF PlainCalls
<1>2. s1 \o s2 \in Seq(PlainRequests) /\ Len(s1 \o s2) = Len(s1) + Len(s2)
  BY <1>1, ConcatProperties
<1>3. Len(s1 \o s2) > 0
  BY <1>1, <1>2 DEF PlainCalls
<1> QED
  BY <1>2, <1>3 DEF PlainCalls

LEMMA PlainOrdered ==
  ASSUME NEW s \in Seq(PlainRequests), NEW rank
  PROVE  s \in Seq(AllRequests) /\ Ordered(s, rank)
<1>1. \A i \in 1 .. Len(s) : s[i] \in PlainRequests
  BY ElementOfSeq
<1>2. PlainRequests \subseteq AllRequests
  BY DEF PlainRequests, AllRequests
<1>3. s \in Seq(AllRequests)
  BY <1>2
<1>4. ASSUME NEW i \in 1 .. Len(s), NEW j \in 1 .. Len(s), i < j
      PROVE  ~(s[i].until >= j)
  BY <1>1, <1>4 DEF PlainRequests
<1> QED
  BY <1>3, <1>4 DEF Ordered

LEMMA UnderLogOrdered ==
  ASSUME NEW s \in Seq(PlainRequests)
  PROVE  /\ UnderLog(s) \in Seq(AllRequests) /\ Len(UnderLog(s)) > 0
         /\ Ordered(UnderLog(s), PayloadsFirst) /\ Ordered(UnderLog(s), SegmentsFirst)
<1> DEFINE log == Ask("wal", "write", 1 + Len(s))
           all == <<log>> \o s
<1>1. log \in AllRequests /\ log.lock = "wal"
  BY DEF Ask, AllRequests, LockNames, Modes
<1>2. s \in Seq(AllRequests) /\ <<log>> \in Seq(AllRequests)
  BY <1>1, PlainOrdered
<1>3. /\ all \in Seq(AllRequests) /\ Len(all) = 1 + Len(s)
      /\ \A i \in 1 .. 1 + Len(s) : all[i] = IF i <= 1 THEN log ELSE s[i - 1]
  <2>1. Len(<<log>>) = 1 /\ <<log>>[1] = log
    OBVIOUS
  <2> HIDE DEF log
  <2> QED
    BY <1>2, <2>1, ConcatProperties
<1>4. \A i \in 2 .. Len(all) : all[i] \in PlainRequests
  <2> TAKE i \in 2 .. Len(all)
  <2>1. all[i] = s[i - 1] /\ i - 1 \in 1 .. Len(s)
    BY <1>3
  <2> QED
    BY <2>1, ElementOfSeq
<1>5. ASSUME NEW i \in 1 .. Len(all), NEW j \in 1 .. Len(all), i < j,
             all[i].until >= j
      PROVE  all[i].lock = "wal" /\ all[j].lock \in LockNames \ {"wal"}
  <2>1. j \in 2 .. Len(all)
    BY <1>3, <1>5
  <2>2. i \notin 2 .. Len(all)
    BY <1>4, <1>5 DEF PlainRequests
  <2>3. i = 1
    BY <2>2, <1>3
  <2> QED
    BY <2>1, <2>3, <1>1, <1>3, <1>4 DEF PlainRequests
<1>6. Ordered(all, PayloadsFirst) /\ Ordered(all, SegmentsFirst)
  BY <1>5, RanksOrder DEF Ordered
<1> QED
  BY <1>3, <1>6 DEF UnderLog

LEMMA ShortConcats ==
  ASSUME NEW a, NEW b, NEW c
  PROVE  <<a>> \o <<b>> = <<a, b>> /\ <<a>> \o <<b>> \o <<c>> = <<a, b, c>>
<1> DEFINE S == {a, b, c}
<1>1. <<a>> \in Seq(S) /\ <<b>> \in Seq(S) /\ <<c>> \in Seq(S)
      /\ <<a, b>> \in Seq(S) /\ <<a, b, c>> \in Seq(S)
  OBVIOUS
<1>2. <<a>> \o <<b>> = <<a, b>>
  <2>1. /\ <<a>> \o <<b>> \in Seq(S) /\ Len(<<a>> \o <<b>>) = 2
        /\ \A i \in 1 .. 2 : (<<a>> \o <<b>>)[i] = <<a, b>>[i]
    BY <1>1, ConcatProperties
  <2> QED
    BY <1>1, <2>1, SeqEqual
<1>3. <<a, b>> \o <<c>> = <<a, b, c>>
  <2>1. /\ <<a, b>> \o <<c>> \in Seq(S) /\ Len(<<a, b>> \o <<c>>) = 3
        /\ \A i \in 1 .. 3 : (<<a, b>> \o <<c>>)[i] = <<a, b, c>>[i]
    BY <1>1, ConcatProperties
  <2> QED
    BY <1>1, <2>1, SeqEqual
<1> QED
  BY <1>2, <1>3

LEMMA SearchesOrdered ==
  /\ SearchNow \in Seq(AllRequests) /\ Len(SearchNow) = 2
  /\ Ordered(SearchNow, PayloadsFirst) /\ Ordered(SearchNow, SegmentsFirst)
  /\ SearchAt \in Seq(AllRequests) /\ Len(SearchAt) = 3 /\ Ordered(SearchAt, SegmentsFirst)
  /\ ScrollAt \in Seq(AllRequests) /\ Len(ScrollAt) = 3 /\ Ordered(ScrollAt, PayloadsFirst)
<1>1. SearchNow = <<Ask("payloads", "read", 2), Ask("appendable", "read", 0)>>
  BY ShortConcats, Zenon DEF SearchNow, Reads
<1>2. SearchAt = <<Ask("versions", "write", 0), Ask("all_segments", "read", 3),
                   Ask("payloads", "read", 0)>>
  BY ShortConcats, Zenon DEF SearchAt, Reads, Writes
<1>3. ScrollAt = <<Ask("payloads", "read", 3), Ask("versions", "write", 0),
                   Ask("all_segments", "read", 0)>>
  BY ShortConcats, Zenon DEF ScrollAt, Reads, Writes
<1>4. \A l \in LockNames, m \in Modes, u \in Nat : Ask(l, m, u) \in AllRequests
  BY DEF Ask, AllRequests
<1>5. SearchNow \in Seq(AllRequests)
  BY <1>1, <1>4 DEF LockNames, Modes
<1>6. SearchAt \in Seq(AllRequests) /\ ScrollAt \in Seq(AllRequests)
  BY <1>2, <1>3, <1>4 DEF LockNames, Modes
<1>7. Ordered(SearchNow, PayloadsFirst) /\ Ordered(SearchNow, SegmentsFirst)
  BY <1>1 DEF Ordered, PayloadsFirst, SegmentsFirst, LockNames, Ask
<1>8. Ordered(SearchAt, SegmentsFirst)
  BY <1>2 DEF Ordered, SegmentsFirst, LockNames, Ask
<1>9. Ordered(ScrollAt, PayloadsFirst)
  BY <1>3 DEF Ordered, PayloadsFirst, LockNames, Ask
<1> QED
  BY <1>1, <1>2, <1>3, <1>5, <1>6, <1>7, <1>8, <1>9

(* Every call asks in one of the two orders, and all but the search and    *)
(* the scroll of a version in both.                                        *)
LEMMA RequestsOrdered ==
  ASSUME NEW op \in Calls
  PROVE  /\ Requests(op) \in Seq(AllRequests)
         /\ Len(Requests(op)) > 0
         /\ op # "search_at" => Ordered(Requests(op), PayloadsFirst)
         /\ op # "scroll_at" => Ordered(Requests(op), SegmentsFirst)
<1> DEFINE Good(s) == /\ s \in Seq(AllRequests) /\ Len(s) > 0
                      /\ Ordered(s, PayloadsFirst) /\ Ordered(s, SegmentsFirst)
<1>1. ASSUME NEW s \in PlainCalls
      PROVE  Good(s) /\ Good(UnderLog(s))
  <2>1. s \in Seq(PlainRequests)
    BY DEF PlainCalls
  <2>2. Good(s)
    BY <2>1, PlainOrdered DEF PlainCalls
  <2>3. Good(UnderLog(s))
    BY <2>1, UnderLogOrdered
  <2> QED
    BY <2>2, <2>3
<1>2. /\ Reads("payloads") \in PlainCalls /\ Writes("payloads") \in PlainCalls
      /\ Reads("appendable") \in PlainCalls /\ Writes("appendable") \in PlainCalls
      /\ Reads("all_segments") \in PlainCalls /\ Writes("all_segments") \in PlainCalls
      /\ Writes("versions") \in PlainCalls
  BY PlainOnes DEF LockNames
<1>3. \A a, b \in PlainCalls : a \o b \in PlainCalls
  BY PlainTogether
<1>4. Seal \in PlainCalls /\ Apply \in PlainCalls
  BY <1>2, <1>3, Zenon DEF Seal, Apply
<1>5. Commit \in PlainCalls /\ Persist \in PlainCalls
  BY <1>2, <1>3, <1>4, Zenon DEF Commit, Persist
<1> HIDE DEF Good
<1>6. CASE op \in {"write", "batch", "checkpoint"}
  <2>1. Apply \o Commit \o Persist \in PlainCalls
    BY <1>3, <1>4, <1>5, Zenon
  <2>2. Seal \o Writes("versions") \o Reads("all_segments") \o Reads("payloads")
          \in PlainCalls
    BY <1>2, <1>3, <1>4, Zenon
  <2>3. PICK s \in PlainCalls : Requests(op) = UnderLog(s)
    BY <1>4, <1>6, <2>1, <2>2 DEF Requests, Checkpoint
  <2> QED
    BY <1>1, <2>3 DEF Good
<1>7. CASE op \in {"compact", "commit", "restore", "gc", "get_point"}
  <2>1. Commit \o Persist \in PlainCalls
    BY <1>3, <1>5, Zenon
  <2>2. ReadPoint \in PlainCalls
        /\ Writes("versions") \o Writes("all_segments") \in PlainCalls
    BY <1>2, <1>3, Zenon DEF ReadPoint
  <2>3. Restore \in PlainCalls
    BY <1>2, <1>3, <1>5, Zenon DEF Restore
  <2>4. Requests(op) \in PlainCalls
    BY <1>2, <1>7, <2>1, <2>2, <2>3 DEF Requests
  <2> QED
    BY <1>1, <2>4 DEF Good
<1>8. CASE op \in {"search", "search_at", "scroll_at"}
  <2>1. \/ op = "search" /\ Requests(op) = SearchNow
        \/ op = "search_at" /\ Requests(op) = SearchAt
        \/ op = "scroll_at" /\ Requests(op) = ScrollAt
    BY <1>8 DEF Requests
  <2> QED
    BY <2>1, SearchesOrdered
<1> QED
  BY <1>6, <1>7, <1>8 DEF Calls

-----------------------------------------------------------------------------
(* A waiting thread has begun a call, and "at" points at a request of it.  *)
CallsInv ==
  /\ call \in [Threads -> Calls \cup {Idle}]
  /\ at \in [Threads -> Nat] /\ waits \in [Threads -> BOOLEAN]
  /\ \A t \in Threads :
       IF call[t] = Idle THEN at[t] = 1 /\ ~waits[t]
       ELSE at[t] \in 1 .. Len(Requests(call[t]))

LEMMA CallsStep ==
  ASSUME CallsInv, [LocksNext]_lockVars
  PROVE  CallsInv'
<1>0. \A op \in Calls : Requests(op) \in Seq(AllRequests) /\ Len(Requests(op)) \in Nat
                         /\ Len(Requests(op)) > 0
  BY RequestsOrdered
<1>1. CASE UNCHANGED lockVars
  BY <1>1 DEF CallsInv, lockVars
<1>2. ASSUME NEW t \in Threads, Begin(t)
      PROVE  CallsInv'
  <2>1. PICK op \in Calls : call' = [call EXCEPT ![t] = op]
    BY <1>2 DEF Begin
  <2> QED
    BY <1>0, <1>2, <2>1, IdleAssumption DEF Begin, CallsInv
<1>3. ASSUME NEW t \in Threads, Grant(t)
      PROVE  CallsInv'
  BY <1>3 DEF Grant, CallsInv
<1>4. ASSUME NEW t \in Threads, GoOn(t)
      PROVE  CallsInv'
  BY <1>0, <1>4 DEF GoOn, CallsInv
<1>5. ASSUME NEW t \in Threads, Return(t)
      PROVE  CallsInv'
  BY <1>5 DEF Return, CallsInv
<1> QED
  BY <1>1, <1>2, <1>3, <1>4, <1>5 DEF LocksNext

(***************************************************************************)
(* Of the threads of a circle, one waits for the highest lock.  Whoever it *)
(* waits for, or the one that one waits for, has that lock and waits for a *)
(* higher one.                                                             *)
(***************************************************************************)
LEMMA NoCircleInOrder ==
  ASSUME CallsInv, NEW rank \in Ranks, NEW ts \in SUBSET Threads,
         \A t \in ts : call[t] # Idle => Ordered(Requests(call[t]), rank)
  PROVE  ~Circle(ts)
<1> SUFFICES ASSUME Circle(ts) PROVE FALSE
  OBVIOUS
<1> DEFINE Wants(t) == rank[Request(t).lock]
<1>1. \A t \in ts : \E u \in ts : WaitsFor(t, u)
  BY DEF Circle
<1>2. ASSUME NEW t \in ts
      PROVE  /\ waits[t] /\ call[t] \in Calls /\ at[t] \in 1 .. Len(Requests(call[t]))
             /\ Request(t) \in AllRequests
  <2>1. waits[t]
    BY <1>1 DEF WaitsFor
  <2>2. call[t] \in Calls /\ at[t] \in 1 .. Len(Requests(call[t]))
    BY <2>1 DEF CallsInv
  <2> QED
    BY <2>1, <2>2, RequestsOrdered, ElementOfSeq DEF Request
<1>3. ASSUME NEW t \in ts, NEW r \in Kept(t)
      PROVE  rank[r.lock] < Wants(t)
  <2>1. PICK i \in 1 .. at[t] - 1 : r = Requests(call[t])[i] /\ r.until >= at[t]
    BY <1>2, IdleAssumption DEF Kept
  <2>2. Ordered(Requests(call[t]), rank)
    BY <1>2, IdleAssumption
  <2>3. i \in 1 .. Len(Requests(call[t])) /\ i < at[t]
    BY <1>2, <2>1
  <2> QED
    BY <1>2, <2>1, <2>2, <2>3 DEF Ordered, Request
<1>4. \A t \in ts : Wants(t) \in 0 .. 3
  BY <1>2 DEF Ranks, AllRequests
<1>5. PICK t \in ts : \A u \in ts : Wants(u) <= Wants(t)
  <2>1. \E u \in ts : TRUE
    BY DEF Circle
  <2> HIDE DEF Wants
  <2> QED
    BY <1>4, <2>1
<1>6. PICK u \in ts : WaitsFor(t, u)
  BY <1>1
<1>7. CASE \E r \in Kept(u) : r.lock = Request(t).lock
  <2>1. Wants(t) < Wants(u)
    BY <1>3, <1>7
  <2> QED
    BY <1>4, <1>5, <2>1
<1>8. CASE Request(u).lock = Request(t).lock /\ Request(u).mode = "write"
  <2>1. PICK v \in ts : WaitsFor(u, v)
    BY <1>1
  <2>2. \E r \in Kept(v) : r.lock = Request(u).lock
    BY <1>8, <2>1 DEF WaitsFor
  <2>3. Wants(t) < Wants(v)
    BY <1>3, <1>8, <2>2
  <2> QED
    BY <1>4, <1>5, <2>3
<1> QED
  BY <1>6, <1>7, <1>8 DEF WaitsFor

LEMMA CirclesNeedBoth ==
  ASSUME CallsInv
  PROVE  OneInversion
<1> SUFFICES ASSUME NEW ts \in SUBSET Threads, Circle(ts)
             PROVE  {"search_at", "scroll_at"} \subseteq {call[t] : t \in ts}
  BY DEF OneInversion
<1>1. ASSUME \A t \in ts : call[t] # "search_at"
      PROVE  FALSE
  <2>1. \A t \in ts : call[t] # Idle => Ordered(Requests(call[t]), PayloadsFirst)
    BY <1>1, RequestsOrdered DEF CallsInv
  <2> QED
    BY <2>1, NoCircleInOrder, RanksOrder
<1>2. ASSUME \A t \in ts : call[t] # "scroll_at"
      PROVE  FALSE
  <2>1. \A t \in ts : call[t] # Idle => Ordered(Requests(call[t]), SegmentsFirst)
    BY <1>2, RequestsOrdered DEF CallsInv
  <2> QED
    BY <2>1, NoCircleInOrder, RanksOrder
<1> QED
  BY <1>1, <1>2

(***************************************************************************)
(* Whatever any number of threads call on a collection, those that wait    *)
(* for one another in a circle (parking_lot lets no reader past a waiting  *)
(* writer) include a search_at and a scroll of a version; every other mix  *)
(* of calls goes on.                                                       *)
(***************************************************************************)
THEOREM LocksInOrder == LocksSpec => []OneInversion
<1>1. LocksInit => CallsInv
  BY DEF LocksInit, CallsInv
<1>2. CallsInv /\ [LocksNext]_lockVars => CallsInv'
  BY CallsStep
<1>3. CallsInv => OneInversion
  BY CirclesNeedBoth
<1> QED
  BY <1>1, <1>2, <1>3, PTL DEF LocksSpec

-----------------------------------------------------------------------------
(***************************************************************************)
(* Front ends.                                                             *)
(***************************************************************************)
Outcomes == {"ok", "NotFound", "Version", "AlreadyExists", "DimensionMismatch"}

BothOps == {"create", "batch", "query", "recommend", "commit", "restore", "tag",
            "branch", "diff", "versions"}

LEMMA FailsOrGives ==
  /\ \A c, why : Fails(c, why).outcome = why
  /\ \A d, data : Gives(d, data).outcome = "ok"
  BY DEF Fails, Gives

LEMMA ReadOutcome ==
  ASSUME NEW c, NEW sel
  PROVE  ReadAt(c, sel).outcome \in Outcomes
<1>1. \/ ReadAt(c, sel) = Fails(c, "Version")
      \/ \E data : ReadAt(c, sel) = Gives(c, data)
  BY DEF ReadAt
<1>2. QED
  BY <1>1, FailsOrGives DEF Outcomes

(* Each operation that both offer, on a collection that exists.            *)
LEMMA ExistingOutcome ==
  ASSUME NEW c, NEW ask, ask.op \in BothOps
  PROVE  ServeExisting(c, ask).outcome \in Outcomes
<1> DEFINE a == ServeExisting(c, ask)
<1>1. CASE ask.op = "create"
  <2>1. a = Fails(c, "AlreadyExists")
    BY <1>1 DEF ServeExisting
  <2>2. QED
    BY <2>1, FailsOrGives DEF Outcomes
<1>2. CASE ask.op = "batch"
  <2>1. a = WriteBatch(c, ask)
    BY <1>2 DEF ServeExisting
  <2>2. a = Fails(c, "DimensionMismatch") \/ \E d, data : a = Gives(d, data)
    BY <2>1 DEF WriteBatch
  <2>3. QED
    BY <2>2, FailsOrGives DEF Outcomes
<1>3. CASE ask.op \in {"commit", "versions"}
  <2>1. CASE ask.op = "commit"
    <3>1. \E d, data : a = Gives(d, data)
      BY <2>1 DEF ServeExisting
    <3>2. QED
      BY <3>1, FailsOrGives DEF Outcomes
  <2>2. CASE ask.op = "versions"
    <3>1. \E d, data : a = Gives(d, data)
      BY <2>2 DEF ServeExisting
    <3>2. QED
      BY <3>1, FailsOrGives DEF Outcomes
  <2>3. QED
    BY <1>3, <2>1, <2>2
<1>4. CASE ask.op = "query"
  <2>1. a = Fails(c, "DimensionMismatch") \/ a = ReadAt(c, ask.at)
    BY <1>4 DEF ServeExisting
  <2>2. PICK sel : sel = ask.at
    OBVIOUS
  <2>3. ReadAt(c, sel).outcome \in Outcomes
    BY ReadOutcome
  <2>4. QED
    BY <2>1, <2>2, <2>3, FailsOrGives DEF Outcomes
<1>5. CASE ask.op \in {"recommend", "restore", "tag", "branch", "diff"}
  <2>1. a = Fails(c, "Version") \/ \E d, data : a = Gives(d, data)
    <3>1. CASE ask.op = "recommend"
      BY <3>1 DEF ServeExisting
    <3>2. CASE ask.op = "restore"
      BY <3>2 DEF ServeExisting
    <3>3. CASE ask.op = "tag"
      BY <3>3 DEF ServeExisting
    <3>4. CASE ask.op = "branch"
      BY <3>4 DEF ServeExisting
    <3>5. CASE ask.op = "diff"
      BY <3>5 DEF ServeExisting
    <3>6. QED
      BY <1>5, <3>1, <3>2, <3>3, <3>4, <3>5
  <2>2. QED
    BY <2>1, FailsOrGives DEF Outcomes
<1>6. QED
  BY <1>1, <1>2, <1>3, <1>4, <1>5 DEF BothOps

LEMMA ServeOutcome ==
  ASSUME NEW c, NEW ask, ask.op \in BothOps
  PROVE  Serve(c, ask).outcome \in Outcomes
<1>1. CASE ask.op = "create" /\ ask.dim = 0
  <2>1. Serve(c, ask) = Fails(c, "DimensionMismatch")
    BY <1>1 DEF Serve
  <2>2. QED
    BY <2>1, FailsOrGives DEF Outcomes
<1>2. CASE ~(ask.op = "create" /\ ask.dim = 0) /\ c # Nil
  <2>1. Serve(c, ask) = ServeExisting(c, ask)
    BY <1>2 DEF Serve
  <2>2. QED
    BY <2>1, ExistingOutcome
<1>3. CASE ~(ask.op = "create" /\ ask.dim = 0) /\ c = Nil
  <2>1. \/ Serve(c, ask) = Gives(NewCollection(ask.dim), Nil)
        \/ Serve(c, ask) = Fails(c, "NotFound")
    BY <1>3 DEF Serve
  <2>2. QED
    BY <2>1, FailsOrGives DEF Outcomes
<1>4. QED
  BY <1>1, <1>2, <1>3

(* The fields of a request name what the selector named.                   *)
LEMMA SelectorKept ==
  ASSUME NEW sel \in Ats
  PROVE  RestSelector(AtFields(sel)) = sel
<1> DEFINE fields == AtFields(sel)
<1>1. \A kind \in {"version", "tag", "branch"} :
        fields[kind] = IF sel # Nil /\ sel.kind = kind THEN sel.of ELSE Nil
  BY DEF AtFields
<1> HIDE DEF fields
<1>2. CASE sel = Nil
  <2>1. fields["version"] = Nil /\ fields["tag"] = Nil /\ fields["branch"] = Nil
    BY <1>1, <1>2
  <2>2. QED
    BY <1>2, <2>1 DEF RestSelector, fields
<1>3. CASE sel # Nil
  <2>1. /\ sel.kind \in {"version", "tag", "branch"} /\ sel.of # Nil
        /\ sel = [kind |-> sel.kind, of |-> sel.of]
    <3>1. CASE sel \in [kind : {"version"}, of : VersionIds]
      BY <3>1, FrontEndsAssumption DEF VersionIds
    <3>2. CASE sel \in [kind : {"tag", "branch"}, of : Labels]
      BY <3>2, FrontEndsAssumption
    <3>3. QED
      BY <1>3, <3>1, <3>2 DEF Ats
  <2>2. CASE sel.kind = "version"
    <3>1. fields["version"] = sel.of
      BY <1>1, <1>3, <2>2
    <3>2. QED
      BY <2>1, <2>2, <3>1 DEF RestSelector, fields
  <2>3. CASE sel.kind = "tag"
    <3>1. fields["version"] = Nil /\ fields["tag"] = sel.of
      BY <1>1, <1>3, <2>3
    <3>2. QED
      BY <2>1, <2>3, <3>1 DEF RestSelector, fields
  <2>4. CASE sel.kind = "branch"
    <3>1. fields["version"] = Nil /\ fields["tag"] = Nil /\ fields["branch"] = sel.of
      BY <1>1, <1>3, <2>4
    <3>2. QED
      BY <2>1, <2>4, <3>1 DEF RestSelector, fields
  <2>5. QED
    BY <2>1, <2>2, <2>3, <2>4
<1>4. QED
  BY <1>2, <1>3

LEMMA WantsKnown ==
  ASSUME NEW want \in BothWants
  PROVE  want.op \in (BothOps \ {"batch"}) \cup {"upsert"}
  BY DEF BothWants, BothOps

LEMMA CallsAgree ==
  ASSUME NEW want \in BothWants
  PROVE  RestCall(want) = GrpcCall(want)
<1>1. CASE want.op = "upsert"
  BY <1>1 DEF RestCall, GrpcCall
<1>2. CASE want.op = "query"
  <2>1. want \in [op : {"query"}, dim : {1, 2}, at : Ats, parses : BOOLEAN]
    BY <1>2 DEF BothWants
  <2>2. PICK sel \in Ats : sel = want.at
    BY <2>1
  <2>3. RestSelector(AtFields(want.at)) = want.at
    BY <2>2, SelectorKept
  <2>4. [want EXCEPT !.at = want.at] = want
    BY <2>1
  <2>5. RestCall(want) = [want EXCEPT !.at = RestSelector(AtFields(want.at))]
    BY <1>2 DEF RestCall
  <2>6. QED
    BY <1>2, <2>3, <2>4, <2>5 DEF GrpcCall
<1>3. CASE want.op \notin {"upsert", "query"}
  <2>1. want.op # "scroll"
    BY WantsKnown DEF BothOps
  <2>2. QED
    BY <1>3, <2>1 DEF RestCall, GrpcCall
<1>4. QED
  BY <1>1, <1>2, <1>3

(* The two front ends over one collection, whatever is in it.              *)
LEMMA SameAnswers ==
  ASSUME NEW c, NEW want \in BothWants, want.op = "upsert" => want.messages # <<>>
  PROVE  /\ Rest(c, want).collection = Grpc(c, want).collection
         /\ Rest(c, want).data = Grpc(c, want).data
         /\ <<Rest(c, want).status, Grpc(c, want).status>> \in Parallel
<1> DEFINE ask == GrpcCall(want)
           answer == Serve(c, ask)
<1>1. RestCall(want) = ask
  BY CallsAgree
<1>2. want.op \in (BothOps \ {"batch"}) \cup {"upsert"}
  BY WantsKnown
<1>3. ask.op \in BothOps
  BY <1>2 DEF GrpcCall, Batch, BothOps
<1>4. PICK o \in Outcomes : o = answer.outcome
  <2>1. PICK k : k = ask
    OBVIOUS
  <2>2. QED
    BY <1>3, <2>1, ServeOutcome
<1>5. <<RestStatus(o), GrpcStatus(o)>> \in Parallel
  BY DEF RestStatus, GrpcStatus, Parallel, Outcomes
<1>6. CASE UnknownMetric(want)
  <2>1. Rest(c, want) = Refused(c, 400) /\ Grpc(c, want) = Refused(c, "invalid_argument")
    BY <1>6 DEF Rest, Grpc
  <2>2. QED
    BY <2>1 DEF Refused, Parallel
<1>7. CASE ~UnknownMetric(want) /\ ~want.parses
  <2>1. Rest(c, want) = Refused(c, 422) /\ Grpc(c, want) = Refused(c, "invalid_argument")
    BY <1>7 DEF Rest, Grpc
  <2>2. QED
    BY <2>1 DEF Refused, Parallel
<1>8. CASE ~UnknownMetric(want) /\ want.parses
  <2>1. Rest(c, want) = Told(answer, RestStatus(answer.outcome))
    BY <1>1, <1>8 DEF Rest
  <2>2. CASE want.op = "create" /\ want.dim = 0
    <3>1. Grpc(c, want) = Refused(c, "invalid_argument")
      BY <2>2 DEF Grpc
    <3>2. ask = want
      BY <2>2 DEF GrpcCall
    <3>3. answer = Fails(c, "DimensionMismatch")
      BY <2>2, <3>2 DEF Serve
    <3>4. Rest(c, want) = Refused(c, 400)
      BY <2>1, <3>3 DEF Fails, Told, Refused, RestStatus
    <3>5. QED
      BY <3>1, <3>4 DEF Refused, Parallel
  <2>3. CASE ~(want.op = "create" /\ want.dim = 0)
    <3>1. Grpc(c, want) = Told(answer, GrpcStatus(answer.outcome))
      BY <1>8, <2>3 DEF Grpc
    <3>2. <<RestStatus(answer.outcome), GrpcStatus(answer.outcome)>> \in Parallel
      BY <1>4, <1>5
    <3>3. QED
      BY <2>1, <3>1, <3>2 DEF Told
  <2>4. QED
    BY <2>2, <2>3
<1>9. QED
  BY <1>6, <1>7, <1>8

(* REST and gRPC do the same for the same request and tell the same, with  *)
(* parallel statuses, for every content the collections can have.          *)
THEOREM FrontEndsAgree ==
  FrontEndsSpec => [](DOMAIN collections = Names /\ OneService)
<1>1. OneService
  <2> SUFFICES ASSUME NEW n \in DOMAIN collections, NEW want \in BothWants,
                      want.op = "upsert" => want.messages # <<>>
               PROVE  /\ Rest(collections[n], want).collection
                           = Grpc(collections[n], want).collection
                      /\ Rest(collections[n], want).data = Grpc(collections[n], want).data
                      /\ <<Rest(collections[n], want).status,
                           Grpc(collections[n], want).status>> \in Parallel
    BY DEF OneService
  <2>1. PICK c : c = collections[n]
    OBVIOUS
  <2>2. QED
    BY <2>1, SameAnswers
<1>2. FrontEndsInit => DOMAIN collections = Names
  BY DEF FrontEndsInit
<1>3. DOMAIN collections = Names /\ [FrontEndsNext]_collections
        => (DOMAIN collections = Names)'
  BY DEF FrontEndsNext, ByRest, ByGrpc, ByCli, Becomes
<1>4. QED
  BY <1>1, <1>2, <1>3, PTL DEF FrontEndsSpec

=============================================================================
