CONSTANTS
  g1 = g1
  g2 = g2
  t1 = t1
  t2 = t2
  None = None
  Groups = {g1, g2}
  Creators = {t1, t2}
  MaxGroups = 1
  Quantity = 2
  MaxPlaced = 1
  OffLoop = TRUE
SYMMETRY Symmetry
SPECIFICATION Spec
INVARIANT
  CounterpartAsked
CHECK_DEADLOCK FALSE
