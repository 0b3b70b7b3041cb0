SPECIFICATION Spec
CONSTANTS
  kOrderPool = 4
  OrderIds = {1, 2, 3, 4}
  Free = Free
INVARIANTS
  TableIsExact
PROPERTIES
  EraseEnds
