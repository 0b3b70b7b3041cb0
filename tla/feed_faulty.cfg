SPECIFICATION Spec
CONSTANTS
  kReorderWindow = 2
  Messages = 5
  MaxPushes = 6
  LinkFaults = TRUE
  NoFrame = NoFrame
  Numbers <- SessionNumbers
  Body <- MCBody
  Session <- MCSession
INVARIANTS
  TypeOK
  WindowAhead
  GapCoversExpected
  PushesAccounted
  DeliveredInOrder
  CaughtUp
PROPERTIES
  ReplayNeverBuffers
  FeedReturns
  ImplementsOrderedDelivery
