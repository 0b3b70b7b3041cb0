SPECIFICATION QueueSpec
CONSTANTS
  Capacity = 4
  Item = {x, y}
  NoItem = NoItem
  MaxPushes = 9
INVARIANTS
  NoDataRace
  SequenceIsExact
  HeadLagsByOne
PROPERTIES
  ImplementsFifo
