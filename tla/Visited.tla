------------------------------ MODULE Visited ------------------------------
(***************************************************************************)
(* The pool of visited lists the searches of a graph share.  A list is     *)
(* cleared by moving to its next generation: a row is marked when its      *)
(* stamp is the list's generation.  The counter is a u32: in the code there *)
(* are 2^32 generations before it wraps.                                   *)
(***************************************************************************)
EXTENDS Integers, Sequences, SequencesExt

CONSTANTS Searches, Rows, GenerationCount, NoList

ASSUME VisitedAssumption == GenerationCount \in Nat /\ GenerationCount > 1

VARIABLES
  free,     \* the pool's lists, the one returned last at the end
  held,     \* search -> the list it has, or NoList
  marked    \* search -> the rows it has marked since it took its list

visitedVars == <<free, held, marked>>

Generations == 0 .. GenerationCount - 1

ASSUME NoListAssumption ==
  NoList \notin [generation : Generations, stamps : [Rows -> Generations]]

VisitedInit ==
  /\ free = <<>>
  /\ held = [s \in Searches |-> NoList]
  /\ marked = [s \in Searches |-> {}]

NewList == [generation |-> 1, stamps |-> [r \in Rows |-> 0]]

Advance(list) == [list EXCEPT !.generation = (@ + 1) % GenerationCount]

(* Faulty variant: a wrapped generation keeps the stamps.                  *)
ClearedKeepingStamps(list) ==
  LET next == Advance(list) IN
  IF next.generation # 0 THEN next ELSE [next EXCEPT !.generation = 1]

(* When the counter wraps, the stamps are really cleared.                  *)
Cleared(list) == IF Advance(list).generation # 0 THEN Advance(list) ELSE NewList

Get(s) ==
  /\ held[s] = NoList
  /\ IF free = <<>> THEN held' = [held EXCEPT ![s] = NewList] /\ UNCHANGED free
     ELSE held' = [held EXCEPT ![s] = Cleared(Last(free))] /\ free' = Front(free)
  /\ marked' = [marked EXCEPT ![s] = {}]

(* A row is expanded only if it was not marked before.                     *)
Visit(s, r) ==
  /\ held[s] # NoList
  /\ held[s].stamps[r] # held[s].generation
  /\ held' = [held EXCEPT ![s].stamps[r] = held[s].generation]
  /\ marked' = [marked EXCEPT ![s] = @ \cup {r}]
  /\ UNCHANGED free

Put(s) ==
  /\ held[s] # NoList
  /\ free' = Append(free, held[s])
  /\ held' = [held EXCEPT ![s] = NoList]
  /\ UNCHANGED marked

VisitedNext ==
  \E s \in Searches : Get(s) \/ Put(s) \/ \E r \in Rows : Visit(s, r)

VisitedSpec == VisitedInit /\ [][VisitedNext]_visitedVars

(* A list says of a row that it was visited exactly when the search that   *)
(* holds it has visited it, however often the list has been used.          *)
VisitedExact ==
  \A s \in Searches : held[s] # NoList =>
    {r \in Rows : held[s].stamps[r] = held[s].generation} = marked[s]
=============================================================================
