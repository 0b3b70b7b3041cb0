SPECIFICATION Spec
CONSTANTS
  kMaxSymbols = 2
  TsMod = 8
  time_bar_ns = 3
  volume_bar_qty = 2
  Prices = {1, 2}
  Quantities = {0, 1, 5}
  Stamps = {1, 2, 5}
  MaxTrades = 3
  Trades <- MCTrades
INVARIANTS
  TimeBarsAreRuns
  VolumeBarsAreStretches
  VolumeIsConserved
PROPERTIES
  VolumeLoopEnds
