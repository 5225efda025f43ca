------------------------------ MODULE RoundV1 ------------------------------
(***************************************************************************)
(* v1 rounds of the Sub Rosa contract: sealed bids in the one configured   *)
(* token, no lot, no participant policy, no bound on how far away the      *)
(* reveal deadline is.  One action per entry point; a rejected call rolls  *)
(* back and is a stuttering step.                                          *)
(***************************************************************************)
EXTENDS RoundTypes

CONSTANTS
    Usdc,         \* GlobalConfig.usdc
    Preimage,     \* what a bidder may commit to: [value, nonce]
    EscrowV1,     \* bound: escrow arguments tried
    RequestV1,    \* creation arguments tried
    MaxBidders    \* MAX_BIDDERS

VARIABLES
    roundV1,      \* DataKey::Round(id)
    bidV1         \* DataKey::State(id, bidder)

storageV1 == <<roundV1, bidV1>>
varsV1 == <<ledgerVars, storageV1>>

RequestRecordV1 ==
    [reveal_round : Nat, clearing_rule : ClearingRule,
     commit_deadline : Time, reveal_deadline : Time]

RoundRecordV1 ==
    [operator : Account, reveal_round : Nat, clearing_rule : ClearingRule,
     commit_deadline : Time, reveal_deadline : Time, status : Status,
     bidders : Seq(Account), winner : Account \cup {None}, winning_bid : Nat]

BidState ==
    [commitment : {"sha256"} \X Preimage, escrow : Nat,
     revealed : Preimage \cup {None}, valid : BOOLEAN, settled : BOOLEAN]

ASSUME RoundV1Assumption ==
    /\ Usdc \in Asset
    /\ \A p \in Preimage : p.value \in Int
    /\ EscrowV1 \subseteq Int
    /\ RequestV1 \subseteq RequestRecordV1
    /\ MaxBidders \in Nat
    /\ None \notin RoundRecordV1 \cup BidState \cup Preimage

StoredV1(r) == roundV1[r] # None
BiddersV1(r) == Range(roundV1[r].bidders)
BidOf(r, b) == bidV1[r][b]
HasBid(r, b) == bidV1[r][b] # None

StorageInitV1 ==
    /\ roundV1 = [r \in RoundId |-> None]
    /\ bidV1 = [r \in RoundId |-> [b \in Account |-> None]]

---------------------------------------------------------------------------
(* create_round and commit.                                                *)

CreateRound(operator, q) ==
    /\ roundCounter < MaxRounds
    /\ q.reveal_round # 0
    /\ q.commit_deadline < TimeOfRound(q.reveal_round)
    /\ TimeOfRound(q.reveal_round) < q.reveal_deadline
    /\ now < q.commit_deadline
    /\ roundCounter' = NextRoundId
    /\ roundV1' = [roundV1 EXCEPT ![NextRoundId] =
           [operator |-> operator, reveal_round |-> q.reveal_round,
            clearing_rule |-> q.clearing_rule, commit_deadline |-> q.commit_deadline,
            reveal_deadline |-> q.reveal_deadline, status |-> "Open",
            bidders |-> <<>>, winner |-> None, winning_bid |-> 0]]
    /\ UNCHANGED <<now, published, wallet, bidV1>>

\* Mutant of CommitOpen: a late commit is taken as long as nobody opened the round.
CommitOpen_AnyTime(r) == roundV1[r].status = "Open"

CommitOpen(r) == roundV1[r].status = "Open" /\ now <= roundV1[r].commit_deadline

PositiveEscrow(escrow) == escrow > 0

\* Mutant of HasRoom: one bidder too many.
HasRoom_OffByOne(r, b) == HasBid(r, b) \/ Len(roundV1[r].bidders) <= MaxBidders

HasRoom(r, b) == HasBid(r, b) \/ Len(roundV1[r].bidders) < MaxBidders

\* Mutant of EscrowBack: the overwritten escrow is not given back.
EscrowBack_Forgotten(r, b) == 0

\* The escrow an overwritten bid gives back before the new one is locked.
EscrowBack(r, b) == IF HasBid(r, b) THEN BidOf(r, b).escrow ELSE 0

Commit(r, b, p, escrow) ==
    LET back == EscrowBack(r, b)
    IN  /\ StoredV1(r)
        /\ CommitOpen(r)
        /\ PositiveEscrow(escrow)
        /\ HasRoom(r, b)
        /\ back > 0 => ContractBalance(Usdc) >= back /\ <<Usdc, b>> \notin Refuses
        /\ wallet[Usdc][b] + back >= escrow
        /\ wallet' = Credited(LAMBDA a, x : IF a = Usdc /\ x = b THEN back - escrow ELSE 0)
        /\ bidV1' = [bidV1 EXCEPT ![r][b] =
               [commitment |-> Sha256(p), escrow |-> escrow, revealed |-> None,
                valid |-> FALSE, settled |-> FALSE]]
        /\ roundV1' = [roundV1 EXCEPT ![r].bidders =
               IF HasBid(r, b) THEN @ ELSE Append(@, b)]
        /\ UNCHANGED <<now, published, roundCounter>>

---------------------------------------------------------------------------
(* open_reveal and reveal: permissionless.                                 *)

OpenReveal(r) ==
    /\ StoredV1(r)
    /\ roundV1[r].status = "Open"
    /\ now > roundV1[r].commit_deadline
    /\ HasSignature(roundV1[r].reveal_round)
    /\ roundV1' = [roundV1 EXCEPT ![r].status = "Revealing"]
    /\ UNCHANGED <<ledgerVars, bidV1>>

\* Mutant of Matches: the nonce is left out of the digest that is compared.
Matches_ValueOnly(r, b, p) == BidOf(r, b).commitment[2].value = p.value

Matches(r, b, p) == BidOf(r, b).commitment = Sha256(p)

\* Mutant of WithinEscrow: a bid above its escrow is recorded.
WithinEscrow_Unchecked(r, b, p) == TRUE

WithinEscrow(r, b, p) == p.value <= BidOf(r, b).escrow

\* A bid of zero or less is recorded as revealed but not valid.
Reveal(r, b, p) ==
    /\ StoredV1(r)
    /\ roundV1[r].status = "Revealing"
    /\ now <= roundV1[r].reveal_deadline
    /\ HasBid(r, b)
    /\ BidOf(r, b).revealed = None
    /\ Matches(r, b, p)
    /\ WithinEscrow(r, b, p)
    /\ bidV1' = [bidV1 EXCEPT ![r][b].revealed = p, ![r][b].valid = p.value > 0]
    /\ UNCHANGED <<ledgerVars, roundV1>>

---------------------------------------------------------------------------
(* clear, settle, void, and refund_all.                                    *)

OffersV1(r) ==
    [i \in DOMAIN roundV1[r].bidders |->
        LET b == roundV1[r].bidders[i]
        IN  IF HasBid(r, b) /\ BidOf(r, b).valid THEN BidOf(r, b).revealed.value ELSE None]

OwingV1(r, x) == x \in BiddersV1(r) /\ HasBid(r, x) /\ ~ BidOf(r, x).settled

UnsettledV1(r, x) == IF OwingV1(r, x) THEN BidOf(r, x).escrow ELSE 0

\* Mutant of SettledV1: the flag is not written back.
SettledV1_NotSaved(r, paid) == bidV1

\* Marks the bids of the accounts in paid as settled.
SettledV1(r, paid) ==
    [bidV1 EXCEPT ![r] = [b \in Account |->
        IF b \in paid THEN [BidOf(r, b) EXCEPT !.settled = TRUE] ELSE BidOf(r, b)]]

\* refund_all marks and pays only those with an escrow to give back.
RefundAllV1(r) ==
    /\ wallet' = Credited(LAMBDA a, x : IF a = Usdc THEN UnsettledV1(r, x) ELSE 0)
    /\ bidV1' = SettledV1(r, {x \in Account : UnsettledV1(r, x) > 0})
    /\ TransfersSucceed

VoidRoundV1(r) ==
    /\ roundV1' = [roundV1 EXCEPT ![r].status = "Voided"]
    /\ RefundAllV1(r)

SelectWinnerV1(r) ==
    /\ \E i \in WinningBids(roundV1[r].clearing_rule, OffersV1(r)) :
           roundV1' = [roundV1 EXCEPT ![r].status = "Cleared",
                                      ![r].winner = roundV1[r].bidders[i],
                                      ![r].winning_bid = OffersV1(r)[i]]
    /\ UNCHANGED <<bidV1, wallet>>

Clear(r) ==
    /\ StoredV1(r)
    /\ roundV1[r].status = "Revealing"
    /\ now > roundV1[r].reveal_deadline
    /\ \/ Valid(OffersV1(r)) = {} /\ VoidRoundV1(r)
       \/ SelectWinnerV1(r)
    /\ UNCHANGED <<now, published, roundCounter>>

\* Mutant of PayoutV1: the winner keeps its escrow and the operator is paid too.
PayoutV1_WinnerKeepsEscrow(r, x) ==
    UnsettledV1(r, x)
    + (IF x = roundV1[r].operator /\ OwingV1(r, roundV1[r].winner)
       THEN roundV1[r].winning_bid ELSE 0)

\* What settlement pays x: the winner's surplus, a loser's whole escrow, and
\* the winning bid to the operator.
PayoutV1(r, x) ==
    LET price == roundV1[r].winning_bid
        surplus == UnsettledV1(r, x) - price
    IN  (IF x # roundV1[r].winner THEN UnsettledV1(r, x)
         ELSE IF surplus > 0 THEN surplus ELSE 0)
        + (IF x = roundV1[r].operator /\ OwingV1(r, roundV1[r].winner) THEN price ELSE 0)

Settle(r) ==
    /\ StoredV1(r)
    /\ roundV1[r].status = "Cleared"
    /\ wallet' = Credited(LAMBDA a, x : IF a = Usdc THEN PayoutV1(r, x) ELSE 0)
    /\ TransfersSucceed
    /\ bidV1' = SettledV1(r, {x \in Account : OwingV1(r, x)})
    /\ roundV1' = [roundV1 EXCEPT ![r].status = "Settled"]
    /\ UNCHANGED <<now, published, roundCounter>>

\* reveal_deadline + VOID_GRACE is not saturating here: void panics if it overflows.
VoidOverflows(r) == roundV1[r].reveal_deadline + VoidGrace > U64Max

\* Mutant of VoidDueV1: only a round whose beacon never came can be voided.
VoidDueV1_StallOnly(r) ==
    /\ now > roundV1[r].reveal_deadline + VoidGrace
    /\ ~ HasSignature(roundV1[r].reveal_round)

VoidDueV1(r) ==
    /\ ~ VoidOverflows(r)
    /\ now > roundV1[r].reveal_deadline + VoidGrace

Void(r) ==
    /\ StoredV1(r)
    /\ roundV1[r].status = "Open"
    /\ VoidDueV1(r)
    /\ VoidRoundV1(r)
    /\ UNCHANGED <<now, published, roundCounter>>

---------------------------------------------------------------------------
CallV1 ==
    \/ \E op \in Account, q \in RequestV1 : CreateRound(op, q)
    \/ \E r \in RoundId :
        \/ \E b \in Account, p \in Preimage, x \in EscrowV1 : Commit(r, b, p, x)
        \/ OpenReveal(r)
        \/ \E b \in Account, p \in Preimage : Reveal(r, b, p)
        \/ Clear(r)
        \/ Settle(r)
        \/ Void(r)

InitV1 == LedgerInit /\ StorageInitV1
NextV1 == CallV1 \/ (LedgerNext /\ UNCHANGED storageV1)
SpecV1 == InitV1 /\ [][NextV1]_varsV1

\* As for v2: time passes and the permissionless steps that end a round are
\* retried by the keeper; nobody owes an opening or a reveal.
FairnessV1 ==
    /\ WF_varsV1(CloseLedger /\ UNCHANGED storageV1)
    /\ \A r \in RoundId : WF_varsV1(Clear(r)) /\ WF_varsV1(Settle(r)) /\ WF_varsV1(Void(r))

FairSpecV1 == SpecV1 /\ FairnessV1

---------------------------------------------------------------------------
(* Properties.                                                             *)

IndexSoundV1(r) ==
    LET index == IF StoredV1(r) THEN roundV1[r].bidders ELSE <<>>
    IN  /\ IsInjective(index) /\ Range(index) = {b \in Account : HasBid(r, b)}
        /\ Len(index) <= MaxBidders

\* The bidder index that clear, settle and refund_all walk lists exactly the
\* accounts with a bid, each once, and never more than MAX_BIDDERS of them.
IndexExactV1 == \A r \in RoundId : IndexSoundV1(r)

\* Every stored value has the shape of its Rust type, no balance is negative,
\* and the index agrees with the bids, at the limit too: an overwrite by one of
\* MAX_BIDDERS bidders enters nobody, and one more bidder is turned away.
TypeOKV1 ==
    /\ LedgerTypeOK
    /\ roundV1 \in [RoundId -> RoundRecordV1 \cup {None}]
    /\ bidV1 \in [RoundId -> [Account -> BidState \cup {None}]]
    /\ IndexExactV1

\* What round r keeps of, or has moved from, account x.
NetPaidV1(r, a, x) ==
    IF ~ StoredV1(r) \/ a # Usdc THEN 0 ELSE
    LET round == roundV1[r]
        If(cond, n) == IF cond THEN n ELSE 0
    IN  If(round.status \notin {"Settled", "Voided"} /\ HasBid(r, x), BidOf(r, x).escrow)
        + If(round.status = "Settled" /\ x = round.winner, round.winning_bid)
        - If(round.status = "Settled" /\ x = round.operator, round.winning_bid)

\* Every account holds what it started with, less its escrow in live rounds,
\* less what it paid as a winner, plus what it was paid as operator: no path
\* through overwrite, clear, settle and void refunds twice or forgets to.
AccountsBalanceV1 ==
    \A a \in Asset, x \in Account :
        wallet[a][x] =
            InitialBalance[a][x] - SumFunction([r \in RoundId |-> NetPaidV1(r, a, x)])

BidAtV1(r, i) == BidOf(r, roundV1[r].bidders[i])
RevealedV1(r) == {i \in DOMAIN roundV1[r].bidders : BidAtV1(r, i).valid}
AmountV1(r, i) == BidAtV1(r, i).revealed.value

\* No revealed bid of round r is better than the i-th, and none is as good and earlier.
UnbeatenV1(r, i) ==
    \A j \in RevealedV1(r) \ {i} :
        /\ roundV1[r].clearing_rule = "HighestBid" => AmountV1(r, j) <= AmountV1(r, i)
        /\ roundV1[r].clearing_rule = "LowestBid" => AmountV1(r, j) >= AmountV1(r, i)
        /\ AmountV1(r, j) = AmountV1(r, i) => i < j

OutcomeSoundV1(r) ==
    /\ roundV1[r].status \in {"Cleared", "Settled"} =>
           \E i \in RevealedV1(r) :
               /\ roundV1[r].winner = roundV1[r].bidders[i]
               /\ roundV1[r].winning_bid = AmountV1(r, i)
               /\ roundV1[r].winning_bid \in 1 .. BidAtV1(r, i).escrow
               /\ UnbeatenV1(r, i)
    /\ roundV1[r].status = "Voided" => RevealedV1(r) = {}

\* A cleared or settled round has one winner, whose own revealed bid is the
\* price and within its escrow; no valid bid is better and none as good was
\* committed earlier.  A voided round never had a valid bid.
OutcomeJustV1 == \A r \in RoundId : StoredV1(r) => OutcomeSoundV1(r)

\* Once Drand has published R, when anybody can read the seals, no commitment
\* of the round is added or replaced and no escrow is changed.
SealedBeforeBeaconV1 ==
    [][\A r \in RoundId, b \in Account :
          StoredV1(r) /\ HasSignature(roundV1[r].reveal_round) =>
              /\ HasBid(r, b)' = HasBid(r, b)
              /\ HasBid(r, b) =>
                     /\ BidOf(r, b)'.commitment = BidOf(r, b).commitment
                     /\ BidOf(r, b)'.escrow = BidOf(r, b).escrow]_varsV1

\* Reveals are permissionless, so a stranger may race the bidder, but cannot
\* spoil its bid: until the window closes an affordable committed bid is
\* either on record exactly as committed or can still be put there.
RevealCannotBeSpoiledV1 ==
    \A r \in RoundId, b \in Account, p \in Preimage :
        (/\ StoredV1(r) /\ roundV1[r].status # "Open"
         /\ now <= roundV1[r].reveal_deadline
         /\ HasBid(r, b)
         /\ BidOf(r, b).commitment = Sha256(p)
         /\ p.value <= BidOf(r, b).escrow)
        => BidOf(r, b).revealed = p \/ ENABLED Reveal(r, b, p)

\* Some bidder or the operator of round r cannot be credited in Usdc.
PayeeRefusesV1(r) ==
    \E x \in Account : <<Usdc, x>> \in Refuses /\ (HasBid(r, x) \/ x = roundV1[r].operator)

\* Every round whose deadline and grace fit in u64 and in the explored time
\* ends, whether or not the beacon comes, is used, or any bid is revealed,
\* unless a payee refuses its tokens.
RoundsEndV1 ==
    \A r \in RoundId :
        (StoredV1(r) /\ roundV1[r].reveal_deadline + VoidGrace < MaxNow) ~>
            (StoredV1(r) /\ (roundV1[r].status \in {"Settled", "Voided"} \/ PayeeRefusesV1(r)))

PhaseV1(r) ==
    IF ~ StoredV1(r) THEN "unborn"
    ELSE CASE roundV1[r].status = "Open" -> "collecting"
           [] roundV1[r].status = "Revealing" -> "opened"
           [] roundV1[r].status = "Cleared" -> "decided"
           [] OTHER -> "closed"

\* What the contract holds of x in round r, and what r decided that x pays.
StakeV1(r, x) == IF HasBid(r, x) /\ ~ BidOf(r, x).settled THEN BidOf(r, x).escrow ELSE 0
PriceV1(r, x) == IF StoredV1(r) /\ roundV1[r].winner = x THEN roundV1[r].winning_bid ELSE 0

phaseV1 == [r \in RoundId |-> PhaseV1(r)]
stakeV1 == [r \in RoundId |-> [x \in Account |-> StakeV1(r, x)]]
priceV1 == [r \in RoundId |-> [x \in Account |-> PriceV1(r, x)]]

AbstractV1 == INSTANCE SealedRound WITH
    Round <- RoundId, Party <- Account,
    phase <- phaseV1, stake <- stakeV1, price <- priceV1

\* A v1 round implements the abstract sealed round: stakes only while it
\* collects, one payer within its stake, one closing that releases every stake.
ImplementsSealedRoundV1 == AbstractV1!Spec
=============================================================================
