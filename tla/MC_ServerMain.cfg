\* Two clients, two processes, and one request or answer lost or damaged.
SPECIFICATION Spec
CONSTANTS
    Clients = {"a", "b"}
    Pids = {1, 2}
    QueueLen = 2
    MaxTries = 1
    FaultLimit = 1
    StackIsClean = TRUE
INVARIANTS OneChildPerRequest EachGetsItsOwn IInv
PROPERTIES ZombiesAreReaped RequestsAreServed
\* When all clients have their answer the parent waits for others.
CHECK_DEADLOCK FALSE
