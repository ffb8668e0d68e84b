SPECIFICATION FairSpec
CONSTANTS
    c1 = c1  c2 = c2  r1 = r1  r2 = r2
    Runs = {r1}
    Chans <- TwoChans
    Capacity = 100
    Balances = {0, 50, 97}
    Amounts = {0, 10, 30}
    Quiet = {c1}
    Unknown = {c2}
    Fees = {7, 35}
    Bases = {b1}
    StartHeight = 5
    MaxHeight = 5
    Ages = {3}
    FeeWord = 64
    HeightWord = 1000
    DryRun = FALSE
    Environment = {"payments", "closes"}
    MinFeePPMUpdate = 10
    DrainedFee = 50
    OneWeek = 1
    None = none
INVARIANTS
    TypeOK
    Applied
PROPERTIES
    QuietFeesFall
    IdleFeesVanish
