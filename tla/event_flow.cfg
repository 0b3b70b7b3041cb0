SPECIFICATION FlowSpec
CONSTANTS
  kMaxSymbols = 2
  kPriceLevels = 2
  WordBits = 2
  QtyMod = 8
  kOrderPool = 2
  OrderIds = {o1}
  Quantities = {1}
  Trades <- MCTrades
  Capacity = 2
  WireTrades <- MCWireTrades
  MaxMessages = 4
INVARIANTS
  BboFileIsCurrent
  TickBeforeTrade
  TapeAgreesWithBook
