SPECIFICATION WireSpec
CONSTANTS
  ByteBase = 16
  kReorderWindow = 2
  MaxPushes = 3
  LinkFaults = TRUE
  NoFrame = NoFrame
  NoPayload = NoPayload
  Numbers <- SessionNumbers
  Body <- MCBody
  Session <- MCSession
  Messages <- MCMessages
  Datagrams <- MCDatagrams
  Chunks = {1, 44, 64}
INVARIANTS
  ReplayOnFrames
  HandledAreTheMessages
PROPERTIES
  ImplementsRecoveringFeed
