CONSTANTS
    Clients = {1, 2}
    Initial <- TwoWritersInitial
    Writes <- TwoWritersWrites
    BatchLimit = 1
    MaxBreaks = 0
    Fragile = {}
SPECIFICATION Spec
INVARIANT
    SyncIsRaceFree
