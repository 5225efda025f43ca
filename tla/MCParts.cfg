SPECIFICATION SpecParts
CONSTANTS
    None = None
    Amount <- MCAmount
    Ballots <- MCBallots
    Absent = Absent
    U64Max = 200
    U32Max = 31
    LedgersPerDay = 2
    PostRevealBuffer = 10
    PersistentBump = 8
    TempThreshold = 3
    MinTempTtl = 1
    CloseSecs = {5, 6, 8}
    Schedule <- MCSchedule
    MaxNow = 44
    WatchedId = {1, 2}
    Window = {1, 2}
    Deployed = {"c1"}
    MaxCrashes = 1
    MaxCommands = 1
    NoEntry = NoEntry
    CallValue = {"v1", "v2"}
    NoValue = NoValue
    NoTx = NoTx
    MaxCalls = 2
    MaxTx = 3
    Mandates <- MCMandates
    ServerPrice = {1, 2}
    Suggestion = {0, 2, 5}
    MaxRuns = 3
    AuctionId = {1, 2}
    Guest = {"g"}
    Peer = {"p"}
    NoAuction = NoAuction
    MaxClicks = 5
    MaxJobs = 2
    MaxPeerBids = 1
INVARIANTS
    LoopPicksWinner
    SealReadable
    VerdictsHold
    LastWordStands
    ChargedForAppraisals
    RoomSealsInTime
PROPERTY WindowRoundsKept
CHECK_DEADLOCK FALSE
