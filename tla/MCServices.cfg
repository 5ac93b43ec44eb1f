CONSTANTS
  None = None
  MaxSize = 2
  MaxAppends = 4
  MaxTime = 2
  t1 = t1
  t2 = t2
  Tasks = {t1, t2}
  ChannelSize = 2
  MaxRequests = 4
  MaxTicks = 1
  a1 = a1
  a2 = a2
  a3 = a3
  Askers = {a1, a2, a3}
  Executors = {a1, a2}
  w1 = w1
  w2 = w2
  Workers = {w1, w2}
  c1 = c1
  c2 = c2
  Callers = {c1, c2}
  MaxTokens = 3
  Rate = 1
  Weights = {1, 3}
  MaxRetries = 2
  Timeouts = {1}
  Horizon = 3
  Prices = {1, 2, 3}
  Quantities = {0, 1, 2}
  MaxDepth = 2
  MaxUpdates = 3
  Threads = {t1, t2}
  Ids = {0}
  Zero = 0
  FailureThreshold = 1
  RecoveryThreshold = 1
  MaxCount = 1
SPECIFICATION SpecAll
INVARIANTS
  TypesOK
  AckedIsOnDisk
  AcceptedIsMade
  CleanupWaitsForWorkers
  BurstBounded
  BookIsTheExchanges
PROPERTY
  EventsReturnOrEmbrace
\* Appends, requests, updates and calls are finitely many here, and the
\* failover may block; the components rest when they are used up.
CHECK_DEADLOCK FALSE
