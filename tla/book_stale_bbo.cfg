SPECIFICATION Spec
CONSTANTS
  kMaxSymbols = 2
  kPriceLevels = 2
  WordBits = 2
  QtyMod = 8
  kOrderPool = 3
  OrderIds = {o1, o2}
  Quantities = {1}
  Trades <- OneTrade
SYMMETRY OrderSymmetry
INVARIANTS
  BboIsCurrentAfterModify
