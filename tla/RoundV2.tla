------------------------------ MODULE RoundV2 ------------------------------
(***************************************************************************)
(* Core v2 rounds of the Sub Rosa contract (contracts/round/src/lib.rs),   *)
(* with partner policies and protocol-version-3 opening policies.  One     *)
(* action per entry point; a call the contract rejects rolls back and is   *)
(* a stuttering step.  Commitments are the sha256 image of an envelope;    *)
(* ciphertexts and auditor blobs never influence the contract and are the  *)
(* subject of SealTtl.                                                     *)
(***************************************************************************)
EXTENDS RoundTypes

CONSTANTS
    Envelope,             \* byte strings a participant may seal: [decodes, amount]
    EscrowV2,             \* bound: escrow arguments tried
    RequestV2,            \* creation arguments tried: sequences of fields below
    MaxV2Participants,    \* MAX_V2_PARTICIPANTS
    MaxRoundDuration,     \* MAX_ROUND_DURATION_SECS
    MinRevealWindow       \* MIN_REVEAL_WINDOW

VARIABLES
    roundV2,       \* DataKey::RoundV2(id)
    submissionV2,  \* DataKey::SubmissionV2(id, bidder)
    policyV2,      \* DataKey::PolicyV2(id)
    revealV3       \* DataKey::RevealV3(id)

storageV2 == <<roundV2, submissionV2, policyV2, revealV3>>
varsV2 == <<ledgerVars, storageV2>>

RoundMode == {"Auction", "ReceiptOnly"}

\* RoundPolicyV2 without the settlement it repeats.
PolicyRecord == [fixed_escrow : Int, eligible_participants : Seq(Account)]

\* fallback_at = None is RevealPolicy::Timed, otherwise OwnerTriggered(fallback_at).
RevealPolicy == Time \cup {None}

RequestRecord ==
    [mode : RoundMode, payment_asset : Asset \cup {None}, lot_asset : Asset \cup {None},
     lot_amount : Int, reveal_round : Nat, clearing_rule : ClearingRule,
     commit_deadline : Time, reveal_deadline : Time, max_participants : Nat,
     policy : PolicyRecord \cup {None}, fallback_at : RevealPolicy]

RoundRecord ==
    [protocol_version : {2, 3}, mode : RoundMode, operator : Account,
     payment_asset : Asset \cup {None}, lot_asset : Asset \cup {None}, lot_amount : Nat,
     reveal_round : Nat, clearing_rule : ClearingRule, commit_deadline : Time,
     reveal_deadline : Time, max_participants : Nat, status : Status,
     bidders : Seq(Account), winner : Account \cup {None}, winning_bid : Nat]

SubmissionRecord ==
    [commitment : {"sha256"} \X Envelope, escrow : Nat, revealed_envelope : Envelope \cup {None},
     revealed_amount : Int \cup {None}, valid : BOOLEAN, settled : BOOLEAN]

RevealRecord == [policy : RevealPolicy, opened_at : Time \cup {None}]

ASSUME RoundV2Assumption ==
    /\ Envelope \subseteq [decodes : BOOLEAN, amount : Int \cup {None}]
    /\ EscrowV2 \subseteq Int
    /\ RequestV2 \subseteq RequestRecord
    /\ MaxV2Participants \in Nat
    /\ MaxRoundDuration \in Nat
    /\ MinRevealWindow \in Nat \ {0}
    /\ None \notin Envelope \cup RoundRecord \cup SubmissionRecord \cup PolicyRecord
    /\ None \notin RevealRecord

Stored(r) == roundV2[r] # None
Bidders(r) == Range(roundV2[r].bidders)
SubmissionOf(r, b) == submissionV2[r][b]
Committed(r, b) == submissionV2[r][b] # None

StorageInitV2 ==
    /\ roundV2 = [r \in RoundId |-> None]
    /\ submissionV2 = [r \in RoundId |-> [b \in Account |-> None]]
    /\ policyV2 = [r \in RoundId |-> None]
    /\ revealV3 = [r \in RoundId |-> None]

---------------------------------------------------------------------------
(* create_round_v2, create_partner_round_v2, create_round_v3.              *)

\* Mutant of DeadlinesOK: committing is still allowed at the instant R is due.
DeadlinesOK_CommitAtReveal(q) ==
    /\ q.commit_deadline <= TimeOfRound(q.reveal_round)
    /\ TimeOfRound(q.reveal_round) < q.reveal_deadline
    /\ now < q.commit_deadline
    /\ SatSub(q.reveal_deadline, now) <= MaxRoundDuration

DeadlinesOK(q) ==
    /\ q.commit_deadline < TimeOfRound(q.reveal_round)
    /\ TimeOfRound(q.reveal_round) < q.reveal_deadline
    /\ now < q.commit_deadline
    /\ SatSub(q.reveal_deadline, now) <= MaxRoundDuration

SettlementOK(q) ==
    IF q.mode = "Auction"
    THEN q.payment_asset # None /\ q.lot_asset # None /\ q.lot_amount > 0
    ELSE q.payment_asset = None /\ q.lot_asset = None /\ q.lot_amount = 0

PolicyOK(q, policy) ==
    policy # None =>
        /\ IF q.mode = "Auction" THEN policy.fixed_escrow > 0 ELSE policy.fixed_escrow = 0
        /\ Len(policy.eligible_participants) <= q.max_participants
        /\ IsInjective(policy.eligible_participants)

\* The fallback lies after the beacon is due and leaves time to reveal.
RevealPolicyOK(q) ==
    q.fallback_at # None =>
        /\ TimeOfRound(q.reveal_round) < q.fallback_at
        /\ SatSub(q.reveal_deadline, q.fallback_at) >= MinRevealWindow

NewRound(operator, q, version) ==
    [protocol_version |-> version, mode |-> q.mode, operator |-> operator,
     payment_asset |-> q.payment_asset, lot_asset |-> q.lot_asset,
     lot_amount |-> q.lot_amount, reveal_round |-> q.reveal_round,
     clearing_rule |-> q.clearing_rule, commit_deadline |-> q.commit_deadline,
     reveal_deadline |-> q.reveal_deadline, max_participants |-> q.max_participants,
     status |-> "Open", bidders |-> <<>>, winner |-> None, winning_bid |-> 0]

CreateRoundV2Impl(operator, q, policy, version, reveal) ==
    /\ roundCounter < MaxRounds
    /\ q.reveal_round # 0
    /\ q.max_participants \in 1 .. MaxV2Participants
    /\ DeadlinesOK(q)
    /\ SettlementOK(q)
    /\ PolicyOK(q, policy)
    /\ q.lot_asset # None => wallet[q.lot_asset][operator] >= q.lot_amount
    /\ wallet' = Credited(LAMBDA a, x :
                     IF a = q.lot_asset /\ x = operator THEN - q.lot_amount ELSE 0)
    /\ roundCounter' = NextRoundId
    /\ roundV2' = [roundV2 EXCEPT ![NextRoundId] = NewRound(operator, q, version)]
    /\ policyV2' = [policyV2 EXCEPT ![NextRoundId] = policy]
    /\ revealV3' = [revealV3 EXCEPT ![NextRoundId] = reveal]
    /\ UNCHANGED <<submissionV2, now, published>>

CreateRoundV2(operator, q) ==
    CreateRoundV2Impl(operator, q, None, 2, None)

CreatePartnerRoundV2(operator, q) ==
    /\ q.policy # None
    /\ CreateRoundV2Impl(operator, q, q.policy, 2, None)

CreateRoundV3(operator, q) ==
    /\ q.policy # None
    /\ RevealPolicyOK(q)
    /\ CreateRoundV2Impl(operator, q, q.policy, 3,
                         [policy |-> q.fallback_at, opened_at |-> None])

---------------------------------------------------------------------------
(* commit_v2: lock escrow for a sealed envelope, or replace an earlier one. *)

\* Mutant of EscrowAllowed: the sign of an auction escrow is not checked.
EscrowAllowed_AnySign(r, escrow) == roundV2[r].mode = "ReceiptOnly" => escrow = 0

EscrowAllowed(r, escrow) ==
    IF roundV2[r].mode = "Auction" THEN escrow > 0 ELSE escrow = 0

PolicyAdmits(r, b, escrow) ==
    policyV2[r] # None =>
        LET eligible == policyV2[r].eligible_participants
        IN  /\ eligible = <<>> \/ b \in Range(eligible)
            /\ roundV2[r].mode = "Auction" => escrow = policyV2[r].fixed_escrow

\* Mutant of PreviousEscrow: overwriting does not refund.
PreviousEscrow_Forgotten(r, b) == 0

\* The escrow an overwritten submission gives back.
PreviousEscrow(r, b) == IF Committed(r, b) THEN SubmissionOf(r, b).escrow ELSE 0

\* Mutant of IndexWith: an overwrite enters the bidder again.
IndexWith_Again(r, b) == Append(roundV2[r].bidders, b)

\* The bidder index: in order of first commit, each bidder once.
IndexWith(r, b) ==
    IF Committed(r, b) THEN roundV2[r].bidders ELSE Append(roundV2[r].bidders, b)

\* Mutant of HasRoomV2: the round is full only beyond its cap.
HasRoomV2_OneMore(r, b) == Committed(r, b) \/ Len(roundV2[r].bidders) <= roundV2[r].max_participants

\* An overwrite takes no further place in the round.
HasRoomV2(r, b) == Committed(r, b) \/ Len(roundV2[r].bidders) < roundV2[r].max_participants

CommitV2(r, b, e, escrow) ==
    LET asset == roundV2[r].payment_asset
        back == PreviousEscrow(r, b)
    IN  /\ Stored(r)
        /\ roundV2[r].status = "Open"
        /\ now <= roundV2[r].commit_deadline
        /\ EscrowAllowed(r, escrow)
        /\ PolicyAdmits(r, b, escrow)
        /\ HasRoomV2(r, b)
        /\ back > 0 => ContractBalance(asset) >= back /\ <<asset, b>> \notin Refuses
        /\ escrow > 0 => wallet[asset][b] + back >= escrow
        /\ wallet' = Credited(LAMBDA a, x :
                         IF a = asset /\ x = b THEN back - escrow ELSE 0)
        /\ submissionV2' = [submissionV2 EXCEPT ![r][b] =
               [commitment |-> Sha256(e), escrow |-> escrow, revealed_envelope |-> None,
                revealed_amount |-> None, valid |-> FALSE, settled |-> FALSE]]
        /\ roundV2' = [roundV2 EXCEPT ![r].bidders = IndexWith(r, b)]
        /\ UNCHANGED <<now, published, roundCounter, policyV2, revealV3>>

---------------------------------------------------------------------------
(* open_reveal_v2 and reveal_v2: both permissionless, except that before   *)
(* the fallback of an owner-triggered v3 round only its operator opens.    *)

\* Mutant of OpeningAllowedV3: the fallback never lifts the operator's control.
OpeningAllowedV3_OwnerOnly(r, caller) ==
    /\ revealV3[r] # None
    /\ TimeOfRound(roundV2[r].reveal_round) <= now
    /\ now <= roundV2[r].reveal_deadline
    /\ revealV3[r].policy # None => caller = roundV2[r].operator

OpeningAllowedV3(r, caller) ==
    /\ revealV3[r] # None
    /\ TimeOfRound(roundV2[r].reveal_round) <= now
    /\ now <= roundV2[r].reveal_deadline
    /\ (revealV3[r].policy # None /\ now < revealV3[r].policy) => caller = roundV2[r].operator

OpenRevealV2(r, caller) ==
    /\ Stored(r)
    /\ roundV2[r].status = "Open"
    /\ now > roundV2[r].commit_deadline
    /\ roundV2[r].protocol_version = 3 => OpeningAllowedV3(r, caller)
    /\ HasSignature(roundV2[r].reveal_round)
    /\ roundV2' = [roundV2 EXCEPT ![r].status = "Revealing"]
    /\ revealV3' = IF roundV2[r].protocol_version = 3
                   THEN [revealV3 EXCEPT ![r].opened_at = now] ELSE revealV3
    /\ UNCHANGED <<ledgerVars, submissionV2, policyV2>>

\* Mutant of AmountAccepted: a bid above its escrow is recorded.
AmountAccepted_Uncapped(r, b, e) ==
    IF roundV2[r].mode = "Auction"
    THEN e.amount # None /\ e.amount > 0
    ELSE SubmissionOf(r, b).escrow = 0

\* What the mode demands of a decoded envelope.
AmountAccepted(r, b, e) ==
    IF roundV2[r].mode = "Auction"
    THEN e.amount # None /\ e.amount > 0 /\ e.amount <= SubmissionOf(r, b).escrow
    ELSE SubmissionOf(r, b).escrow = 0

RevealV2(r, b, e) ==
    /\ Stored(r)
    /\ roundV2[r].status = "Revealing"
    /\ now <= roundV2[r].reveal_deadline
    /\ Committed(r, b)
    /\ SubmissionOf(r, b).revealed_envelope = None
    /\ SubmissionOf(r, b).commitment = Sha256(e)
    /\ e.decodes
    /\ AmountAccepted(r, b, e)
    /\ submissionV2' = [submissionV2 EXCEPT ![r][b].revealed_envelope = e,
                                            ![r][b].revealed_amount = e.amount,
                                            ![r][b].valid = TRUE]
    /\ UNCHANGED <<ledgerVars, roundV2, policyV2, revealV3>>

---------------------------------------------------------------------------
(* clear_v2: after the reveal window, finalize a receipt-only round, void  *)
(* an auction with no valid bid, or fix the winner: the best valid amount, *)
(* the earliest committed bidder among equals.                             *)

OffersV2(r) ==
    [i \in DOMAIN roundV2[r].bidders |->
        LET b == roundV2[r].bidders[i]
        IN  IF Committed(r, b) /\ SubmissionOf(r, b).valid
            THEN SubmissionOf(r, b).revealed_amount ELSE None]

\* The submissions of round r once every bidder's is marked settled.
AllSettled(r) ==
    [submissionV2 EXCEPT ![r] = [b \in Account |->
        IF b \in Bidders(r) /\ Committed(r, b)
        THEN [SubmissionOf(r, b) EXCEPT !.settled = TRUE] ELSE SubmissionOf(r, b)]]

Owing(r, x) == x \in Bidders(r) /\ Committed(r, x) /\ ~ SubmissionOf(r, x).settled

\* Escrow the contract still holds for x in round r.
Unsettled(r, x) == IF Owing(r, x) THEN SubmissionOf(r, x).escrow ELSE 0

\* refund_all_v2: every escrow back, the lot back to the operator.
RefundAllV2(r) ==
    /\ wallet' = Credited(LAMBDA a, x :
           (IF a = roundV2[r].payment_asset THEN Unsettled(r, x) ELSE 0)
           + (IF a = roundV2[r].lot_asset /\ x = roundV2[r].operator
              THEN roundV2[r].lot_amount ELSE 0))
    /\ submissionV2' = IF roundV2[r].payment_asset # None THEN AllSettled(r) ELSE submissionV2
    /\ TransfersSucceed

VoidRound(r) ==
    /\ roundV2' = [roundV2 EXCEPT ![r].status = "Voided"]
    /\ RefundAllV2(r)

FinalizeReceiptOnly(r) ==
    /\ roundV2[r].mode = "ReceiptOnly"
    /\ roundV2' = [roundV2 EXCEPT ![r].status = "Settled"]
    /\ submissionV2' = AllSettled(r)
    /\ UNCHANGED wallet

VoidForNoValidBid(r) ==
    /\ roundV2[r].mode = "Auction"
    /\ Valid(OffersV2(r)) = {}
    /\ VoidRound(r)

SelectWinner(r) ==
    /\ roundV2[r].mode = "Auction"
    /\ \E i \in WinningBids(roundV2[r].clearing_rule, OffersV2(r)) :
           roundV2' = [roundV2 EXCEPT ![r].status = "Cleared",
                                      ![r].winner = roundV2[r].bidders[i],
                                      ![r].winning_bid = OffersV2(r)[i]]
    /\ UNCHANGED <<submissionV2, wallet>>

ClearV2(r) ==
    /\ Stored(r)
    /\ roundV2[r].status = "Revealing"
    /\ now > roundV2[r].reveal_deadline
    /\ FinalizeReceiptOnly(r) \/ VoidForNoValidBid(r) \/ SelectWinner(r)
    /\ UNCHANGED <<now, published, roundCounter, policyV2, revealV3>>

---------------------------------------------------------------------------
(* settle_v2 and void_v2.                                                  *)

\* What settlement pays x in the payment asset: the winner's surplus, a
\* loser's whole escrow, and the winning bid to the operator.
Payout(r, x) ==
    LET price == roundV2[r].winning_bid
        surplus == Unsettled(r, x) - price
    IN  (IF x # roundV2[r].winner THEN Unsettled(r, x)
         ELSE IF surplus > 0 THEN surplus ELSE 0)
        + (IF x = roundV2[r].operator /\ Owing(r, roundV2[r].winner)
           THEN price ELSE 0)

SettleV2(r) ==
    /\ Stored(r)
    /\ roundV2[r].mode = "Auction"
    /\ roundV2[r].status = "Cleared"
    /\ wallet' = Credited(LAMBDA a, x :
           (IF a = roundV2[r].payment_asset THEN Payout(r, x) ELSE 0)
           + (IF a = roundV2[r].lot_asset /\ x = roundV2[r].winner
              THEN roundV2[r].lot_amount ELSE 0))
    /\ TransfersSucceed
    /\ submissionV2' = AllSettled(r)
    /\ roundV2' = [roundV2 EXCEPT ![r].status = "Settled"]
    /\ UNCHANGED <<now, published, roundCounter, policyV2, revealV3>>

\* Mutant of VoidDueV2: only a round whose beacon never came can be voided.
VoidDueV2_StallOnly(r) ==
    /\ now > SatAdd(roundV2[r].reveal_deadline, VoidGrace)
    /\ ~ HasSignature(roundV2[r].reveal_round)

VoidDueV2(r) == now > SatAdd(roundV2[r].reveal_deadline, VoidGrace)

VoidV2(r) ==
    /\ Stored(r)
    /\ roundV2[r].status = "Open"
    /\ VoidDueV2(r)
    /\ VoidRound(r)
    /\ UNCHANGED <<now, published, roundCounter, policyV2, revealV3>>

---------------------------------------------------------------------------
CallV2 ==
    \/ \E op \in Account, q \in RequestV2 :
           CreateRoundV2(op, q) \/ CreatePartnerRoundV2(op, q) \/ CreateRoundV3(op, q)
    \/ \E r \in RoundId :
        \/ \E b \in Account, e \in Envelope, x \in EscrowV2 : CommitV2(r, b, e, x)
        \/ \E c \in Account : OpenRevealV2(r, c)
        \/ \E b \in Account, e \in Envelope : RevealV2(r, b, e)
        \/ ClearV2(r)
        \/ SettleV2(r)
        \/ VoidV2(r)

InitV2 == LedgerInit /\ StorageInitV2
NextV2 == CallV2 \/ (LedgerNext /\ UNCHANGED storageV2)
SpecV2 == InitV2 /\ [][NextV2]_varsV2

\* Time passes, and clearing, settling and voiding are permissionless calls
\* that the keeper's watch loop keeps retrying.  Opening and revealing get no
\* fairness: Drand may never publish and nobody need reveal.
FairnessV2 ==
    /\ WF_varsV2(CloseLedger /\ UNCHANGED storageV2)
    /\ \A r \in RoundId :
          WF_varsV2(ClearV2(r)) /\ WF_varsV2(SettleV2(r)) /\ WF_varsV2(VoidV2(r))

FairSpecV2 == SpecV2 /\ FairnessV2

---------------------------------------------------------------------------
(* Properties.                                                             *)

\* Every stored value has the shape of its Rust type, and no balance or
\* escrow ever goes negative.
TypeOKV2 ==
    /\ LedgerTypeOK
    /\ roundV2 \in [RoundId -> RoundRecord \cup {None}]
    /\ submissionV2 \in [RoundId -> [Account -> SubmissionRecord \cup {None}]]
    /\ policyV2 \in [RoundId -> PolicyRecord \cup {None}]
    /\ revealV3 \in [RoundId -> RevealRecord \cup {None}]

IndexExact(r) ==
    LET index == IF Stored(r) THEN roundV2[r].bidders ELSE <<>>
    IN  IsInjective(index) /\ Range(index) = {b \in Account : Committed(r, b)}

WithinCap(r) == Stored(r) => Len(roundV2[r].bidders) <= roundV2[r].max_participants

\* The bidder index that clearing, settling, refunding and the keeper walk
\* lists exactly the accounts with a submission, each once, and is never
\* longer than the round's max_participants, however often bids are replaced:
\* the loops over it stay within what creation allowed.
BidderIndexExactV2 == \A r \in RoundId : IndexExact(r) /\ WithinCap(r)

\* What round r keeps of, or has moved from, account x in token a.
NetPaidV2(r, a, x) ==
    IF ~ Stored(r) THEN 0 ELSE
    LET round == roundV2[r]
        live == round.status \notin {"Settled", "Voided"}
        sold == round.status = "Settled" /\ round.mode = "Auction"
        If(cond, n) == IF cond THEN n ELSE 0
    IN  If(a = round.payment_asset /\ live /\ Committed(r, x), SubmissionOf(r, x).escrow)
        + If(a = round.payment_asset /\ sold /\ x = round.winner, round.winning_bid)
        - If(a = round.payment_asset /\ sold /\ x = round.operator, round.winning_bid)
        + If(a = round.lot_asset /\ round.status # "Voided" /\ x = round.operator, round.lot_amount)
        - If(a = round.lot_asset /\ sold /\ x = round.winner, round.lot_amount)

\* Every account holds exactly what it started with, less its escrow in live
\* rounds, less what it paid as a winner, plus what it was paid as operator,
\* give or take the lots: no path refunds twice, forgets a refund, or takes
\* one round's tokens for another's (custody is pooled per token).
AccountsBalanceV2 ==
    \A a \in Asset, x \in Account :
        wallet[a][x] =
            InitialBalance[a][x] - SumFunction([r \in RoundId |-> NetPaidV2(r, a, x)])

Bid(r, i) == SubmissionOf(r, roundV2[r].bidders[i])
Revealed(r) == {i \in DOMAIN roundV2[r].bidders : Bid(r, i).valid}

\* No revealed bid of round r is better than the i-th, and none is as good and earlier.
Unbeaten(r, i) ==
    \A j \in Revealed(r) \ {i} :
        /\ roundV2[r].clearing_rule = "HighestBid" =>
               Bid(r, j).revealed_amount <= Bid(r, i).revealed_amount
        /\ roundV2[r].clearing_rule = "LowestBid" =>
               Bid(r, j).revealed_amount >= Bid(r, i).revealed_amount
        /\ Bid(r, j).revealed_amount = Bid(r, i).revealed_amount => i < j

OutcomeJust(r) ==
    /\ roundV2[r].status \in {"Cleared", "Settled"} /\ roundV2[r].mode = "Auction" =>
           \E i \in Revealed(r) :
               /\ roundV2[r].winner = roundV2[r].bidders[i]
               /\ roundV2[r].winning_bid = Bid(r, i).revealed_amount
               /\ roundV2[r].winning_bid \in 1 .. Bid(r, i).escrow
               /\ Unbeaten(r, i)
    /\ roundV2[r].status = "Voided" => Revealed(r) = {}

\* A cleared or settled auction has one winner: no valid revealed amount is
\* better under the round's rule, none as good was committed earlier, and the
\* price is the winner's own amount, within its escrow.  A voided round never
\* had a valid bid.
OutcomeJustV2 == \A r \in RoundId : Stored(r) => OutcomeJust(r)

\* Once Drand has published R, when anybody can read the seals, no commitment
\* of the round is added or replaced and no escrow is changed.
SealedBeforeBeaconV2 ==
    [][\A r \in RoundId, b \in Account :
          Stored(r) /\ HasSignature(roundV2[r].reveal_round) =>
              /\ Committed(r, b)' = Committed(r, b)
              /\ Committed(r, b) =>
                     /\ SubmissionOf(r, b)'.commitment = SubmissionOf(r, b).commitment
                     /\ SubmissionOf(r, b)'.escrow = SubmissionOf(r, b).escrow]_varsV2

\* Some token round r owes cannot reach its owner, who refuses it.
PayeeRefusesV2(r) ==
    \E a \in Asset, x \in Account : <<a, x>> \in Refuses /\
       (\/ a = roundV2[r].payment_asset /\ (Committed(r, x) \/ x = roundV2[r].operator)
        \/ a = roundV2[r].lot_asset /\ x \in {roundV2[r].winner, roundV2[r].operator})

\* The operator of an owner-triggered round can delay its opening but not
\* prevent it: from the fallback to the reveal deadline, which is at least
\* MIN_REVEAL_WINDOW, anybody can open it with the published signature.
OwnerCannotWithholdV3 ==
    \A r \in RoundId :
        Stored(r) /\ roundV2[r].protocol_version = 3 /\ revealV3[r].policy # None =>
            LET fallback == revealV3[r].policy
            IN  /\ fallback + MinRevealWindow <= roundV2[r].reveal_deadline
                /\ (/\ roundV2[r].status = "Open"
                    /\ HasSignature(roundV2[r].reveal_round)
                    /\ now \in fallback .. roundV2[r].reveal_deadline)
                   => \A c \in Account : ENABLED OpenRevealV2(r, c)

\* Every round ends, and with it every escrow and lot leaves custody, even if
\* Drand never publishes R, nobody reveals, or the opening comes too late.
\* The one thing that stops it is a payee of the round that refuses its tokens.
RoundsEndV2 ==
    \A r \in RoundId :
        Stored(r) ~> (Stored(r) /\ (\/ roundV2[r].status \in {"Settled", "Voided"}
                                    \/ PayeeRefusesV2(r)))

PhaseV2(r) ==
    IF ~ Stored(r) THEN "unborn"
    ELSE CASE roundV2[r].status = "Open" -> "collecting"
           [] roundV2[r].status = "Revealing" -> "opened"
           [] roundV2[r].status = "Cleared" -> "decided"
           [] OTHER -> "closed"

\* What the contract holds of x in round r, and what r decided that x pays.
StakeV2(r, x) ==
    IF Committed(r, x) /\ ~ SubmissionOf(r, x).settled THEN SubmissionOf(r, x).escrow ELSE 0
PriceV2(r, x) == IF Stored(r) /\ roundV2[r].winner = x THEN roundV2[r].winning_bid ELSE 0

phaseV2 == [r \in RoundId |-> PhaseV2(r)]
stakeV2 == [r \in RoundId |-> [x \in Account |-> StakeV2(r, x)]]
priceV2 == [r \in RoundId |-> [x \in Account |-> PriceV2(r, x)]]

Abstract == INSTANCE SealedRound WITH
    Round <- RoundId, Party <- Account,
    phase <- phaseV2, stake <- stakeV2, price <- priceV2

\* A v2 round implements the abstract sealed round.
ImplementsSealedRoundV2 == Abstract!Spec
=============================================================================
