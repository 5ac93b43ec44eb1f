CONSTANTS
  o1 = o1
  o2 = o2
  t1 = t1
  t2 = t2
  None = None
  Orders = {o1, o2}
  Threads = {t1, t2}
  MaxStateHistory = 1
  CountModulus = 8
  DirectAccess = FALSE
  Events = {"SubmitRequested", "ExchangeAck", "Fill", "FullFill",
            "CancelRequested", "CancelConfirmed", "Reject", "Expired",
            "ModifyRequested", "ModifyConfirmed", "Trigger", "Timeout",
            "SystemEvent"}
  ForcedStates = {}
SYMMETRY Symmetry
SPECIFICATION Spec
INVARIANTS
  TypeOK
  CountersExact
  NoLiveOrderLost
  ResultStillTrue
PROPERTY
  ImplementsLifecycle
