SPECIFICATION FairSpecV1
CONSTANTS
    op = op
    alice = alice
    bob = bob
    usdc = usdc
    n1 = n1
    n2 = n2
    None = None
    Usdc = usdc
    Account <- MCAccount
    Asset <- MCAsset
    InitialBalance <- MCInitialBalance
    Refuses <- MCRefuses
    Preimage <- MCPreimage
    EscrowV1 <- MCEscrowV1
    RequestV1 <- MCRequestV1
    U64Max = 9
    MaxNow = 6
    MaxRounds = 1
    DrandRound = {2}
    DrandGenesis = 1
    DrandPeriod = 2
    VoidGrace = 1
    MaxBidders = 2
INVARIANTS
    TypeOKV1
    AccountsBalanceV1
    OutcomeJustV1
    RevealCannotBeSpoiledV1
    ReceiptsVerifyV1
PROPERTIES
    SealedBeforeBeaconV1
    RoundsEndV1
    ImplementsSealedRoundV1
CHECK_DEADLOCK FALSE
