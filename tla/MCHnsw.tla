------------------------------- MODULE MCHnsw -------------------------------
(***************************************************************************)
(* Small instances of Hnsw: points on a line in order and folded, and points *)
(* compared by dot product, for which one is nearest to all.               *)
(***************************************************************************)
EXTENDS Hnsw

OnLine(at) == [p \in Points |-> [q \in Points |-> IF at[p] > at[q] THEN at[p] - at[q]
                                                  ELSE at[q] - at[p]]]

MCDistances == {OnLine([p \in Points |-> p]), OnLine([p \in Points |-> (2 * p) % 5]),
                [p \in Points |-> [q \in Points |-> -p * q]]}

(* Nobody above the base, everybody by turns, and three that race to       *)
(* become the entry.                                                       *)
MCLevels == {[p \in Points |-> 0], [p \in Points |-> p % 2],
             [p \in Points |-> IF p \in 1 .. 3 THEN (p % 3) + 1 ELSE 0]}

MCQueries ==
  [exact : {[p \in Points |-> p]}, rank : {[p \in Points |-> p], [p \in Points |-> p \div 2]},
   k : {1, 2}, ef : {1}, admitted : {Points, {0, 3}, {2}}]
=============================================================================
