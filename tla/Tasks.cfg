CONSTANTS
    Planner = p
    Workers = {}
    Maintainers = {m1, m2}
    Messages = {i1, i2}
    MaxScripts = 2
    MaxCalls = 1
    MaxFailures = 1
    MaxCrashes = 1
SPECIFICATION FairSpec
INVARIANTS
    TasksInv
    
PROPERTIES
    
    ItemsAreHandled
CHECK_DEADLOCK FALSE
