CONSTANTS
    Runs = {r1, r2, r3}
    Events = {e1, e2}
    NoRun = NoRun
    MaxAttempts = 1
    ScriptErrors = {"network", "logic"}
    UserActions = {"pause", "resume"}
    Reconciler = TRUE
    HasReconcileMethod = TRUE
    Producers = TRUE
    MaxNetworkRetries = 1
    MaxFixAttempts = 2
    MaxCrashes = 1
SYMMETRY Symmetry
SPECIFICATION Spec
INVARIANTS
    IInv
    
    HandledByItsRun
    NoRepeatAfterRecordedSuccess
    SessionsFollowRuns
    CommitsAreSettled
PROPERTIES
    StopsAreFinal
    LedgerSpec
CHECK_DEADLOCK FALSE
