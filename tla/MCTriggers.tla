------------------------------ MODULE MCTriggers ------------------------------
(***************************************************************************)
(* Small instances of Triggers.                                            *)
(***************************************************************************)
EXTENDS Triggers

MCCommitPolicies ==
  {[every_n_writes |-> 0, interval |-> None],
   [every_n_writes |-> 2, interval |-> None],
   [every_n_writes |-> None, interval |-> 1],
   [every_n_writes |-> 3, interval |-> 1]}

MCCompactionPolicies ==
  {[max_segments |-> 3, interval |-> None], [max_segments |-> None, interval |-> 1]}
=============================================================================
