CONSTANTS
  t1 = t1
  None = None
  Threads = {t1}
  Ids = {0}
  Zero = 0
  FailureThreshold = 1
  RecoveryThreshold = 1
  MaxCount = 1
SPECIFICATION ArrivingSpec
PROPERTY
  FailoverCompletes
