--------------------------- MODULE MCOrderManager ---------------------------
(* Small instances of OrderManager for TLC.                                *)
EXTENDS OrderManager, TLC

Symmetry ==
  Permutations(Orders) \cup Permutations(ExchangeIds) \cup Permutations(Tasks)
=============================================================================
