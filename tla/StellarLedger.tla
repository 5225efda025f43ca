--------------------------- MODULE StellarLedger ---------------------------
(***************************************************************************)
(* What every entry point of the Sub Rosa contract stands on: the ledger   *)
(* clock, the Drand beacon, the token balances and the round counter in    *)
(* instance storage.  The token contracts and Drand are external: they     *)
(* are modelled from how contracts/round calls them.                       *)
(***************************************************************************)
EXTENDS SaturatingU64, Sequences, FiniteSets, Functions, FiniteSetsExt

CONSTANTS
    Account,         \* addresses that operate rounds, bid, or call
    Asset,           \* token contracts (SAC addresses)
    InitialBalance,  \* InitialBalance[a][x]: tokens of asset a that x starts with
    Refuses,         \* <<a, x>>: crediting x in a traps (no trustline, frozen)
    MaxNow,          \* bound: the last ledger timestamp explored
    MaxRounds,       \* bound: how many rounds are created
    DrandRound,      \* Drand round numbers in play
    DrandGenesis,    \* GlobalConfig.drand_genesis
    DrandPeriod      \* GlobalConfig.drand_period

VARIABLES
    now,             \* env.ledger().timestamp()
    published,       \* Drand rounds whose threshold signature exists
    wallet,          \* wallet[a][x]: balance of account x in token a
    roundCounter     \* DataKey::RoundCounter

ledgerVars == <<now, published, wallet, roundCounter>>

Time == 0 .. U64Max
RoundId == 1 .. MaxRounds

ASSUME LedgerAssumption ==
    /\ MaxNow \in Time
    /\ MaxRounds \in Nat
    /\ DrandRound \subseteq Nat \ {0}
    /\ DrandGenesis \in Time
    /\ DrandPeriod \in Nat
    /\ InitialBalance \in [Asset -> [Account -> Nat]]
    /\ Refuses \subseteq Asset \X Account

---------------------------------------------------------------------------
\* Scheduled time of Drand round R; round 1 is at genesis.
TimeOfRound(R) == SatAdd(DrandGenesis, SatMul(DrandPeriod, SatSub(R, 1)))

---------------------------------------------------------------------------
(* Token balances.  The contract's own balance is what the accounts have   *)
(* paid in and not got back; a transfer that overdraws it traps.           *)

ContractBalance(a) ==
    MapThenSumSet(LAMBDA x : InitialBalance[a][x] - wallet[a][x], Account)

\* The transfers of a step all go through: the contract has the funds and
\* every credited account takes them.  One that traps rolls the call back.
TransfersSucceed ==
    /\ \A a \in Asset : ContractBalance(a)' >= 0
    /\ \A a \in Asset, x \in Account :
           wallet'[a][x] > wallet[a][x] => <<a, x>> \notin Refuses

\* Wallets after each account x is credited Credit(a, x) (or debited, if negative).
Credited(Credit(_, _)) ==
    [a \in Asset |-> [x \in Account |-> wallet[a][x] + Credit(a, x)]]

LedgerTypeOK ==
    /\ now \in 0 .. MaxNow
    /\ published \subseteq DrandRound
    /\ wallet \in [Asset -> [Account -> Nat]]
    /\ roundCounter \in 0 .. MaxRounds

LedgerInit ==
    /\ now = 0
    /\ published = {}
    /\ wallet = InitialBalance
    /\ roundCounter = 0

\* A ledger closes and the timestamp moves on.
CloseLedger ==
    /\ now < MaxNow
    /\ now' = now + 1
    /\ UNCHANGED <<published, wallet, roundCounter>>

\* Drand publishes the threshold signature of round R: never before its
\* scheduled time, possibly late, possibly never.
PublishBeacon(R) ==
    /\ R \notin published
    /\ TimeOfRound(R) <= now
    /\ published' = published \cup {R}
    /\ UNCHANGED <<now, wallet, roundCounter>>

LedgerNext == CloseLedger \/ \E R \in DrandRound : PublishBeacon(R)

\* Mutant of NextRoundId: the counter is read but the sum is not stored.
NextRoundId_NotStored == IF roundCounter = 0 THEN 1 ELSE roundCounter

\* next_round_id: one counter for v1, v2 and v3 rounds.
NextRoundId == roundCounter + 1

\* drand::verify_round accepts a signature exactly when Drand has produced R.
HasSignature(R) == R \in published
=============================================================================
