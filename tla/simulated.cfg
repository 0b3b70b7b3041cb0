SPECIFICATION AllSpec
CONSTANTS
  kReorderWindow = 3
  MaxPushes = 40
  LinkFaults = FALSE
  NoFrame = NoFrame
  Numbers <- SessionNumbers
  Body <- MCBody
  Session <- MCSession
  Count = 7
  Loss = TRUE
  Reorder = TRUE
INVARIANTS
  SentInBursts
  HandledExactly
  ShortBurstsHeal
