SPECIFICATION Spec
CONSTANTS
  NotSet = NotSet
  Invalid = Invalid
  Environments <- MCEnvironments
  Rates = {0, 50}
  Draws = {0, 50, 99}
  Bytes = {1, 2}
  MaxMsgs = 2
  MaxChildren = 1
INVARIANTS FlipsWhatIsListed
CHECK_DEADLOCK FALSE
