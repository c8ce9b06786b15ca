CONSTANTS
    Runs = {r1, r2, r3, r4}
    Events = {e1}
    NoRun = NoRun
    MaxAttempts = 1
    ScriptErrors = {"permission", "logic"}
    UserActions = {"resume", "fail", "skip"}
    Reconciler = TRUE
    HasReconcileMethod = FALSE
    Producers = TRUE
    MaxNetworkRetries = 1
    MaxFixAttempts = 3
    MaxCrashes = 1
SYMMETRY Symmetry
SPECIFICATION Spec
INVARIANT
    RetriesAreLinear
PROPERTIES
    ResolutionsAreFinal
    AppliedKeepsItsEvents
CHECK_DEADLOCK FALSE
