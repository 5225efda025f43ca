SPECIFICATION SpecV2
CONSTANTS
    op = op
    alice = alice
    bob = bob
    usdc = usdc
    gem = gem
    None = None
    Account <- MCAccount
    Asset <- MCAsset
    InitialBalance <- MCInitialBalance
    Refuses <- MCRefuses
    Envelope <- MCEnvelope
    EscrowV2 <- MCEscrowV2
    RequestV2 <- MCRequestV2
    U64Max = 9
    MaxNow = 7
    MaxRounds = 1
    DrandRound = {2}
    DrandGenesis = 1
    DrandPeriod = 2
    VoidGrace = 1
    MaxV2Participants = 2
    MaxRoundDuration = 5
    MinRevealWindow = 1
INVARIANTS
    VoidedReceiptVerifiesV2
CHECK_DEADLOCK FALSE
