CONSTANTS
  g1 = g1
  g2 = g2
  t1 = t1
  t2 = t2
  None = None
  Groups = {g1, g2}
  Creators = {t1, t2}
  MaxGroups = 1
  Quantity = 2
  MaxPlaced = 1
  OffLoop = TRUE
  b1 = b1
  b2 = b2
  b3 = b3
  Threads = {b1, b2, b3}
  Calls = {"trip", "lockout", "reset", "release", "half_open", "check", "resume"}
  Cooldown = 1
  MaxTrips = 2
  MaxTime = 2
  CountBound = 2
SYMMETRY Symmetry
SPECIFICATION SpecGuards
INVARIANTS
  TypesOK
  EndsAreTrue
  GivenUpForAFill
  OvershootBounded
  EveryOpeningCounted
  LockoutAfterMaxTrips
\* Group ids are finitely many here: the manager rests when all are used up.
CHECK_DEADLOCK FALSE
