SPECIFICATION Spec
CONSTANTS
  kReorderWindow = 2
  Messages = 5
  MaxPushes = 8
  LinkFaults = FALSE
  NoFrame = NoFrame
  Numbers <- SessionNumbers
  Body <- MCBody
  Session <- MCSession
INVARIANTS
  NothingLeftBehind
PROPERTIES
  ReceivedIsHandled
