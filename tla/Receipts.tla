------------------------------ MODULE Receipts ------------------------------
(***************************************************************************)
(* Receipts of v2 and v3 rounds (packages/sdk): the document exportReceiptV2 *)
(* assembles from contract reads and the offline check verifyReceiptV2     *)
(* makes of it.  A receipt holds what was read, so it is built here from   *)
(* the parts, which ReceiptExport reads one at a time.                     *)
(***************************************************************************)
EXTENDS RoundV2

\* Mutant of Evidence: the envelope is not exported.
Evidence_NoEnvelope(s) == [s EXCEPT !.revealed_envelope = None]

\* The exported fields of a submission.
Evidence(s) == s

\* exportReceiptV2, from the round, its index, policy, reveal state (None for
\* a v2 record) and submissions.
ReceiptOf(round, bidders, policy, reveal, submissions) ==
    [version |-> round.protocol_version,
     fallbackAt |-> IF reveal = None THEN None ELSE reveal.policy,
     openedAt |-> IF reveal = None THEN None ELSE reveal.opened_at,
     round |-> round,
     enforced |-> policy # None,
     fixedEscrow |-> IF policy = None THEN None ELSE policy.fixed_escrow,
     eligible |-> IF policy = None THEN <<>> ELSE policy.eligible_participants,
     bidders |-> bidders,
     submissions |-> [b \in Range(bidders) |-> Evidence(submissions[b])]]

ExpectedOpening(receipt) == receipt.round.status \notin {"Open", "Voided"}

\* version = 3: timing, opening policy and opening time.
RevealEvidenceOK(receipt) ==
    LET round == receipt.round
        privacy == TimeOfRound(round.reveal_round)
    IN  receipt.version = 3 =>
        /\ receipt.enforced
        /\ round.commit_deadline < privacy /\ privacy < round.reveal_deadline
        /\ receipt.fallbackAt # None =>
               /\ privacy < receipt.fallbackAt
               /\ round.reveal_deadline - receipt.fallbackAt >= MinRevealWindow
        /\ IF ExpectedOpening(receipt)
           THEN receipt.openedAt # None /\ receipt.openedAt \in privacy .. round.reveal_deadline
           ELSE receipt.openedAt = None

PolicyEvidenceOK(receipt) ==
    LET mode == receipt.round.mode
        eligible == Range(receipt.eligible)
    IN  /\ IsInjective(receipt.eligible)
        /\ Len(receipt.eligible) <= receipt.round.max_participants
        /\ receipt.enforced =>
               /\ receipt.fixedEscrow # None
               /\ IF mode = "Auction" THEN receipt.fixedEscrow > 0 ELSE receipt.fixedEscrow = 0
               /\ eligible # {} => Range(receipt.bidders) \subseteq eligible
               /\ mode = "Auction" => \A b \in Range(receipt.bidders) :
                      receipt.submissions[b].escrow = receipt.fixedEscrow

ModeEvidenceOK(round) ==
    IF round.mode = "Auction"
    THEN round.payment_asset # None /\ round.lot_asset # None /\ round.lot_amount > 0
    ELSE /\ round.payment_asset = None /\ round.lot_asset = None /\ round.lot_amount = 0
         /\ round.winner = None /\ round.winning_bid = 0

SubmissionEvidenceOK(receipt, s) ==
    /\ s.revealed_envelope # None =>
           /\ Sha256(s.revealed_envelope) = s.commitment
           /\ s.revealed_envelope.decodes
           /\ s.revealed_envelope.amount = s.revealed_amount
    /\ s.valid => s.revealed_envelope # None
    /\ s.valid /\ receipt.round.mode = "Auction" =>
           /\ s.revealed_envelope.amount # None
           /\ s.revealed_envelope.amount > 0
           /\ s.revealed_envelope.amount <= s.escrow
    /\ receipt.round.status = "Settled" => s.settled

\* The winner the verifier computes: the best valid amount, the first of the
\* receipt's index among equals.
ComputedOffers(receipt) ==
    [i \in DOMAIN receipt.bidders |->
        LET s == receipt.submissions[receipt.bidders[i]]
        IN  IF s.valid THEN s.revealed_amount ELSE None]

WinnerEvidenceOK(receipt) ==
    receipt.round.mode = "Auction" /\ receipt.round.status \in {"Cleared", "Settled"} =>
        \E i \in WinningBids(receipt.round.clearing_rule, ComputedOffers(receipt)) :
            /\ receipt.round.winner = receipt.bidders[i]
            /\ receipt.round.winning_bid = ComputedOffers(receipt)[i]

\* verifyReceiptV2 finds no error.
VerifyReceiptV2(receipt) ==
    /\ receipt.round.max_participants \in 1 .. MaxV2Participants
    /\ RevealEvidenceOK(receipt)
    /\ PolicyEvidenceOK(receipt)
    /\ ModeEvidenceOK(receipt.round)
    /\ IsInjective(receipt.bidders)
    /\ \A b \in Range(receipt.bidders) : SubmissionEvidenceOK(receipt, receipt.submissions[b])
    /\ WinnerEvidenceOK(receipt)

---------------------------------------------------------------------------
\* The receipt of a round that nobody calls during the export.
QuietReceipt(r) ==
    ReceiptOf(roundV2[r], roundV2[r].bidders, policyV2[r], revealV3[r], submissionV2[r])

\* A v3 round that was opened, in which nobody revealed, and that clear_v2
\* then voided: the reveal state keeps its opening time.
OpenedThenVoided(r) == roundV2[r].status = "Voided" /\ revealV3[r] # None
                       /\ revealV3[r].opened_at # None

\* Contract and offline verifier agree: the receipt of any round in any state
\* verifies, whatever was revealed, refused, settled or refunded - only of a
\* round opened and then voided do they disagree (see VoidedReceiptVerifiesV2).
ReceiptsVerifyV2 ==
    \A r \in RoundId : Stored(r) /\ ~ OpenedThenVoided(r) => VerifyReceiptV2(QuietReceipt(r))

\* docs/RECEIPTS.md: "The hosted pilot exposes the same verified canonical
\* JSON download after a round reaches `Settled` or `Voided`."
VoidedReceiptVerifiesV2 ==
    \A r \in RoundId :
        Stored(r) /\ roundV2[r].status \in {"Settled", "Voided"} => VerifyReceiptV2(QuietReceipt(r))
=============================================================================
