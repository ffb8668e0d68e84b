SPECIFICATION CloseSpec
CONSTANTS
    c1 = c1  c2 = c2  c3 = c3  c4 = c4
    MaxForwardingEvents = 2
    MaxLogged = 4
    MaxClock = 1
    One = 60
    Grain = 4
    MaxInt = 1000000
    Files <- SomeFiles
    Counts = {2, 3, 4}
    Chans <- FourChans
    Private = {c4}
    Keeplist = {c3}
    AllowForceCloses = FALSE
    Reports <- SomeReports
    Event <- FourEvents
    Word = 1000
INVARIANTS
    TypeOK
    Complete
    ClosingTypeOK
    AcceptedUsable
    ScoresInRange
    WorstClosed
    NoBetterClosed
CHECK_DEADLOCK FALSE
