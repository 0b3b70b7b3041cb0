SPECIFICATION GeneratorSpec
CONSTANTS
  kMaxSymbols = 2
  kPriceLevels = 2
  WordBits = 2
  QtyMod = 16
  kOrderPool = 2
  OrderIds <- MCOrderIds
  Quantities = {1}
  Trades <- OneTrade
  messages = 7
  symbols = 3
INVARIANTS
  RestingAreLive
  BboIsCurrentUnlessMoved
