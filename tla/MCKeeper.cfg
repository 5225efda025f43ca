SPECIFICATION KeeperSpec
CONSTANTS
    op = op
    alice = alice
    bob = bob
    keeper = keeper
    usdc = usdc
    gem = gem
    first = first
    second = second
    None = None
    Account <- OneBidder
    Asset <- MCAsset
    InitialBalance <- MCInitialBalance
    Refuses <- AliceRefuses
    Envelope <- OneEnvelope
    EscrowV2 = {1, 2}
    RequestV2 <- V2Only
    U64Max = 9
    MaxNow = 6
    MaxRounds = 1
    DrandRound = {1}
    DrandGenesis = 2
    DrandPeriod = 1
    VoidGrace = 1
    MaxV2Participants = 2
    MaxRoundDuration = 5
    MinRevealWindow = 1
    Pass = {first, second}
    KeeperAccount = keeper
    Faithful <- MCFaithful
    Skew <- MCSkew
    MaxFaults = 2
SYMMETRY PassSymmetry
INVARIANTS
    OneSettlementAtATime
    NothingAbandoned
CHECK_DEADLOCK FALSE
