------------------------------ MODULE MCGuards ------------------------------
(***************************************************************************)
(* Small instances for TLC of the two guards of the trading core: the OCO  *)
(* manager, and beside it the circuit breaker.  They share no state, so a  *)
(* step of one changes nothing the other sees, and exploring one of them   *)
(* at a time loses no behaviour: subject says which.                       *)
(***************************************************************************)
EXTENDS OcoManager, CircuitBreaker, TLC

VARIABLE subject

InitGuards ==
  /\ subject \in {"oco", "breaker"}
  /\ Init /\ InitBreaker

NextGuards ==
  /\ UNCHANGED subject
  /\ \/ subject = "oco" /\ Next /\ UNCHANGED breakerVars
     \/ subject = "breaker" /\ NextBreaker /\ UNCHANGED vars

SpecGuards == InitGuards /\ [][NextGuards]_<<subject, vars, breakerVars>>

\* The type of each variable of the two.
TypesOK == TypeOK /\ TypeOKBreaker

Symmetry ==
  Permutations(Groups) \cup Permutations(Creators) \cup Permutations(Threads)
=============================================================================
