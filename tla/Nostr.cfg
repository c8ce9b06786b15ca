CONSTANTS
    MaxWrites = 3
    Rows = 1
    EventSize = 1
    MaxSend = 2
    MaxStreams = 2
    MaxStops = 1
    MaxLosses = 1
SPECIFICATION Spec
INVARIANTS
    NostrInv
    
    BlockedHasWork
    RestIsCaughtUp
CHECK_DEADLOCK FALSE
