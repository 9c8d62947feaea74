SPECIFICATION Spec
CONSTANTS
  WindowSize = 3
  NumBlocks = 3
  ChannelCap = 3
  FaultLimit = 1
  Unlimited = FALSE
  Reordering = FALSE
  Duplicating = FALSE
  WriteMayFail = FALSE
  MaxTries = 2
  IoMayFail = FALSE
  Prompt = TRUE
INVARIANTS RequestsAreAnswerable
CHECK_DEADLOCK FALSE
