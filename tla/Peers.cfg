CONSTANTS
    Clients = {1, 2}
    Initial <- MCInitial
    Writes <- MCWrites
    BatchLimit = 1
    MaxBreaks = 1
    Fragile = {2}
SPECIFICATION Spec
INVARIANTS
    PeerInv
    
    
