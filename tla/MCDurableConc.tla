---------------------------- MODULE MCDurableConc ----------------------------
(***************************************************************************)
(* Small instances of DurableConc: the clients are interchangeable.        *)
(***************************************************************************)
EXTENDS DurableConc, TLC

ClientSymmetry == Permutations(Clients)
=============================================================================
