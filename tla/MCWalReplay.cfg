CONSTANTS
  MaxSize = 2
  MaxAppends = 2
  MaxTime = 1
SPECIFICATION Spec
INVARIANT
  ZeroDataLoss
\* Appends are finitely many here.
CHECK_DEADLOCK FALSE
