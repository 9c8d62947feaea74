SPECIFICATION Spec
CONSTANTS
  WindowSize = 2
  NumBlocks = 5
  ChannelCap = 3
  FaultLimit = 0
  Unlimited = TRUE
  Reordering = FALSE
  Duplicating = TRUE
  WriteMayFail = FALSE
  MaxTries = 2
  IoMayFail = TRUE
  Prompt = FALSE
INVARIANTS OutputIsPrefix IInv ServerRetains LowestIsHeld NeverTooHigh NoUnexpectedFlag
PROPERTIES ImplementsFileCopy
CHECK_DEADLOCK FALSE
