SPECIFICATION Spec
CONSTANTS
  POLL_SET_SIZE = 2
  MaxFd = 6
INVARIANTS ReadyMeansReadable SlotsInTable PacketsAreSeen
CHECK_DEADLOCK FALSE
