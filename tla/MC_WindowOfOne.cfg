SPECIFICATION Spec
CONSTANTS
  WindowSize = 1
  NumBlocks = 2
  ChannelCap = 3
  FaultLimit = 1
  Unlimited = FALSE
  Reordering = FALSE
  Duplicating = FALSE
  WriteMayFail = FALSE
  MaxTries = 2
  IoMayFail = FALSE
  Prompt = TRUE
INVARIANTS LowestIsHeld
CHECK_DEADLOCK FALSE
