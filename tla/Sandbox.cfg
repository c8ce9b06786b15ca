CONSTANT MaxCalls = 3
SPECIFICATION FairSpec
INVARIANTS
    SandboxInv
    LedgerIsRight

    
CHECK_DEADLOCK FALSE
