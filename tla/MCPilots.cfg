SPECIFICATION SpecPilots
CONSTANTS
    PilotRound = {1, 2}
    a = a
    b = b
    Wallet <- MCWallet
    PageWallet = {a}
    OthersRound = {1}
    Holder = {b}
    NoEscrow = NoEscrow
    MaxEscrows = 2
    NoRound = NoRound
    Nobody = Nobody
    NoData = NoData
    Pages = {"basic", "trustless", "offerhub", "signal", "acta", "openx402"}
    MaxGestures = 3
INVARIANTS
    RevealPassComplete
    SealedInTime
    NoSecondEscrow
    CredentialsMatchWallets
CHECK_DEADLOCK FALSE
