SPECIFICATION SpecPilots
CONSTANTS
    PilotRound = {1, 2}
    a = a
    b = b
    Wallet <- MCWallet
    PageWallet = {a}
    OthersRound = {1}
    Holder = {b}
    NoEscrow = NoEscrow
    MaxEscrows = 2
    NoRound = NoRound
    Nobody = Nobody
    NoData = NoData
    Pages = {"offerhub"}
    MaxGestures = 3
INVARIANTS
    NothingReadableEarly
CHECK_DEADLOCK FALSE
