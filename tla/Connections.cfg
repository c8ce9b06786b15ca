CONSTANTS
    Callers = {c1, c2}
    MaxTokens = 3
    MaxFlows = 2
    MaxPending = 1
    Unrefreshable = {2}
    MaxLeaves = 1
    MaxRestarts = 1
SPECIFICATION ConnectionsSpec
INVARIANTS
    ConnectionsInv
    FileAndRowAgree
    RemovedStaysRemoved
CHECK_DEADLOCK FALSE
