SPECIFICATION FairSpec
CONSTANTS
  WindowSize = 3
  NumBlocks = 2
  ChannelCap = 3
  FaultLimit = 1
  Unlimited = FALSE
  Reordering = FALSE
  Duplicating = FALSE
  WriteMayFail = FALSE
  MaxTries = 2
  IoMayFail = FALSE
  Prompt = TRUE
PROPERTIES GivesUp
CHECK_DEADLOCK FALSE
