SPECIFICATION Spec
CONSTANTS
    N = 3
    Edges <- ThreeEdges
    Addresses <- Some
    Onions = {"onion"}
    Features = {1, 2}
    Weights <- DefaultOpenWeights
    Discarded = {}
    SyncPeers = {1}
    MaxOpen = 2
    Scale = 12
    One = 60
    Grain = 4
    MaxInt = 1000000
INVARIANTS
    TypeOK
    ScoresDefined
    ScoresInRange
    BatchConnected
    BestOpened
CHECK_DEADLOCK FALSE
