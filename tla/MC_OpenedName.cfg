\* What the stack holds behind the name is part of it.
SPECIFICATION Spec
CONSTANTS
    Clients = {"a", "b"}
    Pids = {1, 2, 3}
    QueueLen = 2
    MaxTries = 1
    FaultLimit = 1
    StackIsClean = FALSE
CHECK_DEADLOCK FALSE
INVARIANTS OpensWhatIsAsked
