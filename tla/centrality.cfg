SPECIFICATION FairSpec
CONSTANTS
    N = 3
    Lists <- Networks
    Scale = 12
    NumCPU = 2
INVARIANTS
    TypeOK
    SumsComplete
    EigenvectorCountsWalks
PROPERTIES
    Finishes
    AdditionsAtomic
CHECK_DEADLOCK FALSE
