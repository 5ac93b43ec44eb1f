CONSTANTS
  t1 = t1
  t2 = t2
  t3 = t3
  Threads = {t1, t2, t3}
  Legs = {"TP", "SL"}
SPECIFICATION FairSpec
INVARIANTS
  TypeOK
  OneExecutorAtATime
  FilledMeansExecuted
  LiveMeansPlaced
PROPERTIES
  LegExecutesOnce
  SomeLegExecutes
