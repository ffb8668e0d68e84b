SPECIFICATION Spec
CONSTANTS
    p1 = p1  p2 = p2  p3 = p3  r1 = r1  r2 = r2
    Runs <- TwoRuns
    Peers <- TwoPeers
    Slots = 2
    InitialOpen <- OneOpen
    StartHeight = 2
    MaxHeight = 3
    Environment = {"losses", "flaps"}
    AllocationPercent = 50
    MinBatchSize = 1
    MinChannels = 1
    MaxChannels = 2
    MinChannelSize = 20
    MaxChannelSize = 45
    Word = 1000
    Kinds = {"run"}
    Self = self
    Private <- PrivateFirst
    Keeplist <- KeepSecond
    Blocklist = {}
    AllowForceCloses = FALSE
    DryRun = FALSE
    Links <- SharedLinks
    SharingFloor = 2
    SharingPercent = 30
    ThreeMonths = 2
    Balances = {100}
SYMMETRY RunSymmetry
INVARIANTS
    OnlyListedClosed
    
PROPERTIES
    OpensStayBelowMax
CHECK_DEADLOCK FALSE
