SPECIFICATION Spec
CONSTANTS
  Capacity = 2
  MaxPushes = 6
  Item = {1, 2, 3, 4, 5, 6}
  NoItem = NoItem
  PublishTries = 2
  ExternalStop = TRUE
INVARIANTS
  TypeOK
  HandledInOrder
  DrainedAtReturn
PROPERTIES
  RunReturns
  AcceptedIsHandled
