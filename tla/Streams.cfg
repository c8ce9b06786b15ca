SPECIFICATION FairStreamSpec
CONSTANTS
    Relays = {r1, r2}
    MaxParts = 2
    BatchLimit = 2
    MaxFailures = 1
    MaxChunks = 3
    MaxResult = 1
INVARIANT
    StreamInv
PROPERTIES
    DeliverySpec
    IterationEnds
CHECK_DEADLOCK FALSE
