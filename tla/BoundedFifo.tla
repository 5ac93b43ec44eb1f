------------------------------ MODULE BoundedFifo ------------------------------
(***************************************************************************)
(* What a ring buffer promises: items come out in the order they went in,  *)
(* each once, and no more than Bound are inside.                           *)
(***************************************************************************)
EXTENDS Integers, Sequences

CONSTANTS Data, Bound

VARIABLES
  sent,      \* the items accepted so far
  received   \* the items handed out so far

Init == sent = <<>> /\ received = <<>>

Accept(d) ==
  /\ Len(sent) - Len(received) < Bound
  /\ sent' = Append(sent, d)
  /\ UNCHANGED received

HandOut ==
  /\ Len(received) < Len(sent)
  /\ received' = Append(received, sent[Len(received) + 1])
  /\ UNCHANGED sent

Next == HandOut \/ \E d \in Data : Accept(d)

Spec == Init /\ [][Next]_<<sent, received>>
=============================================================================
