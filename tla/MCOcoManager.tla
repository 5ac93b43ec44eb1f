---------------------------- MODULE MCOcoManager ----------------------------
(* A small instance of OcoManager on its own, for the violation run.       *)
EXTENDS OcoManager, TLC

Symmetry == Permutations(Groups) \cup Permutations(Creators)
=============================================================================
