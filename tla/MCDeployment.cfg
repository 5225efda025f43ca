SPECIFICATION SpecDeployment
CONSTANTS
    op = op
    alice = alice
    bob = bob
    usdc = usdc
    n1 = n1
    None = None
    PageSize = 1
    Usdc = usdc
    Account <- MCAccount
    Asset <- MCAsset
    InitialBalance <- MCInitialBalance
    Refuses = {}
    Preimage <- MCPreimage
    EscrowV1 = {1, 2}
    RequestV1 <- MCRequestV1
    MaxBidders = 2
    Envelope <- MCEnvelope
    EscrowV2 = {1, 2}
    RequestV2 <- MCRequestV2
    U64Max = 9
    MaxNow = 5
    MaxRounds = 2
    DrandRound = {1}
    DrandGenesis = 2
    DrandPeriod = 2
    VoidGrace = 1
    MaxV2Participants = 2
    MaxRoundDuration = 5
    MinRevealWindow = 1
INVARIANTS
    OneFamilyPerId
    PooledCustodyExact
    ExportVerifiesV1
    StableExportVerifiesV2
CHECK_DEADLOCK FALSE
