SPECIFICATION Spec
CONSTANTS
  WindowSize = 3
  NumBlocks = 2
  ChannelCap = 3
  FaultLimit = 1
  MaxTries = 1
INVARIANTS NoEofAckWhileSending
CHECK_DEADLOCK FALSE
