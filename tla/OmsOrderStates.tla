--------------------------- MODULE OmsOrderStates ---------------------------
(***************************************************************************)
(* The vocabulary of oms/state_machine.rs: the states of an order, the     *)
(* events that drive it, and the two classifications of its states.        *)
(***************************************************************************)

\* OrderState: what an order can be.
OrderState ==
  {"Pending", "Submitted", "Acknowledged", "Working", "PartiallyFilled",
   "Filled", "Cancelled", "Rejected", "Expired", "Replaced", "Triggered",
   "InFlight"}

\* OrderState::is_terminal
Terminal == {"Filled", "Cancelled", "Rejected", "Expired"}

\* OrderState::is_active: may still receive fills.
Active == {"Working", "PartiallyFilled", "Acknowledged", "Submitted"}

\* StateEvent, the payloads (size, price, reason) left out.
StateEvent ==
  {"SubmitRequested", "ExchangeAck", "Fill", "FullFill", "CancelRequested",
   "CancelConfirmed", "Reject", "Expired", "ModifyRequested",
   "ModifyConfirmed", "Trigger", "Timeout", "SystemEvent"}

=============================================================================
