SPECIFICATION Spec
CONSTANTS
  POLL_SET_SIZE = 2
  MaxFd = 6
INVARIANTS PollNamesReadySocket
CHECK_DEADLOCK FALSE
