SPECIFICATION FairSpec
CONSTANTS
  WindowSize = 2
  NumBlocks = 3
  ChannelCap = 3
  FaultLimit = 1
  Unlimited = FALSE
  Reordering = FALSE
  Duplicating = FALSE
  WriteMayFail = FALSE
  MaxTries = 2
  IoMayFail = FALSE
  Prompt = TRUE
PROPERTIES BreaksStall
CHECK_DEADLOCK FALSE
