CONSTANTS
  t1 = t1
  t2 = t2
  t3 = t3
  Threads = {t1, t2, t3}
  NoThread = NoThread
  WriterPreference = TRUE
  MaxNesting = 2
  Data = {a, b}
  a = a
  b = b
  Capacity = 4
  MaxItems = 6
  None = None
  m1 = m1
  m2 = m2
  Messages = {m1, m2}
  s1 = s1
  s2 = s2
  Subscribers = {s1, s2}
  Filtering = {s1}
  l1 = l1
  l2 = l2
  Loops = {l1, l2}
  QueueSize = 1
  MaxDead = 1
  MaxJoins = 2
  NoMessage = NoMessage
SPECIFICATION SpecAll
INVARIANTS
  TypesOK
  Exclusion
  WritersSleepForAReason
  OneWriter
  NobodyIsSkipped
PROPERTIES
  EveryAcquireReturns
  ImplementsFifo
\* Items and loops are finitely many here; the components rest when used up.
CHECK_DEADLOCK FALSE
