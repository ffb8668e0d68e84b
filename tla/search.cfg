SPECIFICATION Spec
CONSTANTS
    N = 4
    Lists <- FourNodeLists
    Scale = 60
INVARIANTS
    TypeOK
    ShortestFound
    DependenciesRight
CHECK_DEADLOCK FALSE
