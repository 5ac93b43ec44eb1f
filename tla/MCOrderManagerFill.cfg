CONSTANTS
  o1 = o1
  o2 = o2
  x1 = x1
  x2 = x2
  t1 = t1
  t2 = t2
  None = None
  Orders = {o1}
  ExchangeIds = {x1}
  Tasks = {t1}
  Quantity = 2
  FillSizes = {1}
  MaxTime = 0
SPECIFICATION FairSpec
PROPERTY
  FillReturns
CHECK_DEADLOCK FALSE
