SPECIFICATION KeeperFairSpec
CONSTANTS
    op = op
    alice = alice
    bob = bob
    keeper = keeper
    usdc = usdc
    gem = gem
    first = first
    second = second
    None = None
    Account <- TwoBidders
    Asset <- MCAsset
    InitialBalance <- MCInitialBalance
    Refuses = {}
    Envelope <- TwoEnvelopes
    EscrowV2 = {1}
    RequestV2 <- V2AndV3
    U64Max = 9
    MaxNow = 7
    MaxRounds = 1
    DrandRound = {1}
    DrandGenesis = 2
    DrandPeriod = 1
    VoidGrace = 1
    MaxV2Participants = 2
    MaxRoundDuration = 5
    MinRevealWindow = 1
    Pass = {first}
    KeeperAccount = keeper
    Faithful <- MCFaithful
    Skew <- MCSkew
    MaxFaults = 1
INVARIANTS
    KeeperTypeOK
    LoopLeavesNobodyBehind
    AdviceMatchesContract
PROPERTIES
    OneBidStopsNoPass
    RoundsEndV2
CHECK_DEADLOCK FALSE
