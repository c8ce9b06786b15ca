SPECIFICATION Spec
CONSTANTS
    Relays = {r1}
    MaxParts = 2
    BatchLimit = 1
    MaxFailures = 1
    MaxChunks = 3
    MaxResult = 2
INVARIANTS
    FileInv
    CachedFilesAreWhole
PROPERTY
    TransfersSettle
CHECK_DEADLOCK FALSE
