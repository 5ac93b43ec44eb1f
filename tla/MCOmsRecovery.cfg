CONSTANTS
  o1 = o1
  t1 = t1
  t2 = t2
  None = None
  Orders = {o1}
  Threads = {t1, t2}
  MaxStateHistory = 3
  CountModulus = 1
  DirectAccess = TRUE
  Events = {"SubmitRequested", "Trigger", "ExchangeAck", "FullFill"}
  ForcedStates = {"Pending", "Working"}
SPECIFICATION FairSpec
INVARIANTS
  OneTransitionAtATime
  HistoryIsThePath
PROPERTIES
  EveryCallReturns
