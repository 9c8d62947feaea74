SPECIFICATION Spec
CONSTANTS
  WindowSize = 2
  NumBlocks = 2
  ChannelCap = 2
  FaultLimit = 0
  MaxTries = 1
INVARIANTS NeverTooHigh
PROPERTIES ImplementsFileCopy
CHECK_DEADLOCK FALSE
