CONSTANTS
    Runs = {r1, r2, r3}
    Events = {e1}
    NoRun = NoRun
    MaxAttempts = 1
    ScriptErrors = {"network"}
    UserActions = {}
    Reconciler = TRUE
    HasReconcileMethod = TRUE
    Producers = TRUE
    MaxNetworkRetries = 1
    MaxFixAttempts = 1
    MaxCrashes = 1
SPECIFICATION FairSpec
PROPERTIES
    RunsEnd
    
    RetriesAreTaken
CHECK_DEADLOCK FALSE
