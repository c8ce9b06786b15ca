CONSTANTS
    NumWorkflows = 2
    NumConsumers = 2
    Scheduled = {2}
    MaxEvents = 2
    MaxIterations = 2
    MaxRetries = 1
    MaxFires = 1
    MaxWakes = 1
    MaxChanges = 1
SPECIFICATION FairSpec
INVARIANTS
    SchedulingInv
    NoLostWakeup
PROPERTY
    DueIsServed
CHECK_DEADLOCK FALSE
