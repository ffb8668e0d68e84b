SPECIFICATION Spec
CONSTANTS
    p1 = p1  p2 = p2  p3 = p3  r1 = r1  r2 = r2
    Runs <- TwoRuns
    Peers <- TwoPeers
    Slots = 2
    InitialOpen <- OneOpen
    StartHeight = 2
    MaxHeight = 3
    Environment = {"losses"}
    AllocationPercent = 50
    MinBatchSize = 1
    MinChannels = 1
    MaxChannels = 2
    MinChannelSize = 20
    MaxChannelSize = 45
    Word = 1000
    Kinds = {"open"}
    Self = self
    Private = {}
    Keeplist = {}
    Blocklist = {}
    AllowForceCloses = FALSE
    DryRun = FALSE
    Links <- NoLinks
    SharingFloor = 2
    SharingPercent = 30
    ThreeMonths = 2
    Balances = {100}
SYMMETRY RunSymmetry
INVARIANTS
    CanceledNotReopened
CHECK_DEADLOCK FALSE
