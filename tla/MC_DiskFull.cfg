SPECIFICATION Spec
CONSTANTS
  WindowSize = 3
  NumBlocks = 2
  ChannelCap = 3
  FaultLimit = 0
  Unlimited = FALSE
  Reordering = FALSE
  Duplicating = FALSE
  WriteMayFail = TRUE
  MaxTries = 1
  IoMayFail = FALSE
  Prompt = TRUE
INVARIANTS EofAckMeansComplete
CHECK_DEADLOCK FALSE
