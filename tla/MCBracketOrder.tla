--------------------------- MODULE MCBracketOrder ---------------------------
(* Small instances of BracketOrder for TLC.                                *)
EXTENDS BracketOrder, TLC

Symmetry == Permutations(Threads)
=============================================================================
