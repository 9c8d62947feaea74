SPECIFICATION Spec
CONSTANTS
  WindowSize = 3
  NumBlocks = 4
  ChannelCap = 3
  FaultLimit = 0
  Unlimited = TRUE
  Reordering = TRUE
  Duplicating = FALSE
  WriteMayFail = FALSE
  MaxTries = 1
  IoMayFail = TRUE
  Prompt = FALSE
INVARIANTS TypeOK ServerRetains LowestIsHeld NeverTooHigh EofAckMeansComplete NoUnexpectedFlag RequestsOnlyGaps DeliversAtOnce
PROPERTIES ImplementsFileCopy WindowsAdvance
CHECK_DEADLOCK FALSE
