SPECIFICATION FairSpec
CONSTANTS
  WindowSize = 5
  NumBlocks = 9
  ChannelCap = 6
  FaultLimit = 1
  Unlimited = FALSE
  Reordering = FALSE
  Duplicating = FALSE
  WriteMayFail = FALSE
  MaxTries = 2
  IoMayFail = FALSE
  Prompt = TRUE
PROPERTIES BothFinish CompletesDespiteFault
CHECK_DEADLOCK FALSE
