--------------------------- MODULE OrderLifecycle ---------------------------
(***************************************************************************)
(* What the order state machine promises, whatever its locks, flags and    *)
(* event table are: an order is created Pending, and from then on makes    *)
(* only the moves that the enumeration StateTransition declares, never one *)
(* out of a terminal state.  OmsStateMachine is shown to implement this.   *)
(***************************************************************************)
EXTENDS OmsOrderStates

CONSTANT Orders

VARIABLES
  known,    \* the orders created so far
  state     \* the state of each order

vars == <<known, state>>

\* StateTransition: the moves declared one by one.
NamedMoves ==
  {<<"Pending", "Submitted">>, <<"Submitted", "Acknowledged">>,
   <<"Submitted", "Rejected">>, <<"Acknowledged", "Working">>,
   <<"Acknowledged", "Rejected">>, <<"Working", "PartiallyFilled">>,
   <<"Working", "Filled">>, <<"Working", "Cancelled">>,
   <<"Working", "Expired">>, <<"PartiallyFilled", "Filled">>,
   <<"PartiallyFilled", "Cancelled">>, <<"Pending", "Triggered">>,
   <<"Triggered", "Working">>, <<"Triggered", "Cancelled">>,
   <<"Working", "Replaced">>, <<"PartiallyFilled", "Replaced">>}

\* AnyToInFlight, InFlightToAny.  "Any" is bounded by the rule of
\* is_valid_transition that a terminal state is never left.
AnyToInFlight == (OrderState \ Terminal) \X {"InFlight"}
InFlightToAny == {"InFlight"} \X OrderState

Declared == NamedMoves \cup AnyToInFlight \cup InFlightToAny

Init ==
  /\ known = {}
  /\ state = [o \in Orders |-> "Pending"]

Create(o) ==
  /\ o \notin known
  /\ known' = known \cup {o}
  /\ UNCHANGED state

Move(o, s) ==
  /\ o \in known
  /\ <<state[o], s>> \in Declared
  /\ state' = [state EXCEPT ![o] = s]
  /\ UNCHANGED known

Next == \E o \in Orders : Create(o) \/ \E s \in OrderState : Move(o, s)

Spec == Init /\ [][Next]_vars
=============================================================================
