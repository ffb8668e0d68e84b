SPECIFICATION Spec
CONSTANTS
    p1 = p1  p2 = p2  p3 = p3  r1 = r1  r2 = r2
    Runs <- TwoRuns
    Peers <- ThreePeers
    Slots = 2
    InitialOpen <- ManyOpen
    StartHeight = 2
    MaxHeight = 3
    Environment = {}
    AllocationPercent = 30
    MinBatchSize = 1
    MinChannels = 1
    MaxChannels = 3
    MinChannelSize = 20
    MaxChannelSize = 45
    Word = 1000
    Kinds = {"run", "close", "open"}
    Self = self
    Private = {}
    Keeplist = {}
    Blocklist = {}
    AllowForceCloses = TRUE
    DryRun = FALSE
    Links <- NoLinks
    SharingFloor = 2
    SharingPercent = 30
    ThreeMonths = 1
    Balances = {30, 100, 200}
SYMMETRY RunSymmetry
INVARIANTS
    TypeOK
    BudgetInv
    BatchFunded
PROPERTIES
    BudgetSpec
CHECK_DEADLOCK FALSE
