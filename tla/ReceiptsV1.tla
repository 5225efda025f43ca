----------------------------- MODULE ReceiptsV1 -----------------------------
(***************************************************************************)
(* Receipts of v1 rounds: the document exportReceipt assembles from the    *)
(* round, its paged bidder index and each bid, and the offline check       *)
(* verifyReceipt makes of it (packages/sdk/src).                           *)
(***************************************************************************)
EXTENDS RoundV1

\* exportReceipt, from the round, the index it paged and the bids it read.
ReceiptOfV1(round, bidders, bids) ==
    [round |-> round, bidders |-> bidders, bids |-> [b \in Range(bidders) |-> bids[b]]]

\* Mutant of ComputedOffersV1: a revealed bid counts whether valid or not.
ComputedOffersV1_AnyRevealed(receipt) ==
    [i \in DOMAIN receipt.bidders |->
        LET bid == receipt.bids[receipt.bidders[i]]
        IN  IF bid.revealed # None THEN bid.revealed.value ELSE None]

\* What the verifier's winner search considers, in the order of the index.
ComputedOffersV1(receipt) ==
    [i \in DOMAIN receipt.bidders |->
        LET bid == receipt.bids[receipt.bidders[i]]
        IN  IF bid.revealed # None /\ bid.valid THEN bid.revealed.value ELSE None]

ComputedWinnerV1(receipt) ==
    {receipt.bidders[i] :
        i \in WinningBids(receipt.round.clearing_rule, ComputedOffersV1(receipt))}

\* verifyReceipt finds no error: a winner that is not declared, or not
\* computable, is a warning only.
VerifyReceiptV1(receipt) ==
    /\ IsInjective(receipt.bidders)
    /\ \A b \in Range(receipt.bidders) :
           LET bid == receipt.bids[b]
           IN  /\ bid.escrow >= 0
               /\ bid.revealed # None => Sha256(bid.revealed) = bid.commitment
    /\ receipt.round.winner # None =>
           ComputedWinnerV1(receipt) \subseteq {receipt.round.winner}

---------------------------------------------------------------------------
\* Contract and offline verifier agree on v1 rounds: the receipt of a round
\* in any state verifies, and the winner computed from a cleared round's
\* receipt, without warning, is the one the contract chose.
ReceiptsVerifyV1 ==
    \A r \in RoundId : StoredV1(r) =>
        LET receipt == ReceiptOfV1(roundV1[r], roundV1[r].bidders, bidV1[r])
        IN  /\ VerifyReceiptV1(receipt)
            /\ roundV1[r].status \in {"Cleared", "Settled"} =>
                   ComputedWinnerV1(receipt) = {roundV1[r].winner}
=============================================================================
