CONSTANTS
  o1 = o1
  o2 = o2
  x1 = x1
  x2 = x2
  t1 = t1
  t2 = t2
  t3 = t3
  None = None
  Orders = {o1, o2}
  ExchangeIds = {x1, x2}
  Tasks = {t1, t2}
  Quantity = 2
  FillSizes = {0, 1, 2}
  MaxTime = 1
SPECIFICATION FairSpec
INVARIANTS
  TypeOK
  FailureLoggedOnce
  IndicesFind
  LockHeldForAReason
PROPERTY
  CallsReturnOrFillHangs
\* After a fill that moves an order every task hangs: the system really stops.
CHECK_DEADLOCK FALSE
