SPECIFICATION FairSpec
CONSTANTS
    p1 = p1  p2 = p2  p3 = p3  r1 = r1  r2 = r2
    Runs <- TwoRuns
    Peers <- TwoPeers
    Slots = 1
    InitialOpen <- FewOpen
    StartHeight = 2
    MaxHeight = 2
    Environment = {"gains", "orphans", "overlap"}
    AllocationPercent = 50
    MinBatchSize = 1
    MinChannels = 1
    MaxChannels = 3
    MinChannelSize = 20
    MaxChannelSize = 45
    Word = 1000
    Kinds = {"run"}
    Self = self
    Private = {}
    Keeplist = {}
    Blocklist = {}
    AllowForceCloses = TRUE
    DryRun = FALSE
    Links <- NoLinks
    SharingFloor = 2
    SharingPercent = 30
    ThreeMonths = 1
    Balances = {100}
INVARIANTS
    Inv
    NoReopen
    ClosedBeforeOpening
PROPERTIES
    RunsReturn
CHECK_DEADLOCK FALSE
