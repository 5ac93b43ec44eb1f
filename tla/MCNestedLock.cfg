CONSTANTS
  t1 = t1
  t2 = t2
  Threads = {t1, t2}
  NoThread = NoThread
  WriterPreference = TRUE
  MaxNesting = 2
SPECIFICATION SpecReentrant
INVARIANT
  ExclusionNested
