------------------------- MODULE MCOmsStateMachine --------------------------
(* Small instances of OmsStateMachine for TLC.                             *)
EXTENDS OmsStateMachine, TLC

\* Orders and threads are interchangeable (safety runs only).
Symmetry == Permutations(Orders) \cup Permutations(Threads)
=============================================================================
