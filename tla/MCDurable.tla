------------------------------ MODULE MCDurable ------------------------------
(***************************************************************************)
(* Small instances of Durable.                                             *)
(***************************************************************************)
EXTENDS Durable

MCRules ==
  {[keep_last |-> 1, keep_tagged |-> TRUE, keep_branch_heads |-> TRUE],
   [keep_last |-> 0, keep_tagged |-> FALSE, keep_branch_heads |-> TRUE]}
=============================================================================
