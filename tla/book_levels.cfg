SPECIFICATION Spec
CONSTANTS
  kMaxSymbols = 1
  kPriceLevels = 4
  WordBits = 2
  QtyMod = 4
  kOrderPool = 3
  OrderIds = {o1, o2, o3}
  Quantities = {1, 2}
  Trades <- NoTrades
SYMMETRY OrderSymmetry
INVARIANTS
  TypeOK
  BestIsBest
  LevelsMatchOrders
