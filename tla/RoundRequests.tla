--------------------------- MODULE RoundRequests ---------------------------
(***************************************************************************)
(* What the SDK client checks of a v2, partner or v3 creation request      *)
(* before it builds the call (packages/sdk/src/client.ts), and the two     *)
(* round templates on top of it (templates.ts).  Encoding of the arguments *)
(* is delegated to the contract's spec and is left out.                    *)
(***************************************************************************)
EXTENDS RoundV2

\* v2RoundArgs does not throw.
V2RoundArgs(q) ==
    /\ q.max_participants \in 1 .. MaxV2Participants
    /\ q.mode = "Auction" =>
           q.payment_asset # None /\ q.lot_asset # None /\ q.lot_amount > 0
    /\ q.mode = "ReceiptOnly" =>
           q.payment_asset = None /\ q.lot_asset = None /\ q.lot_amount = 0

\* partnerV2RoundArgs does not throw.
PartnerV2RoundArgs(q) ==
    /\ V2RoundArgs(q)
    /\ q.mode = "Auction" => q.policy.fixed_escrow > 0
    /\ q.mode = "ReceiptOnly" => q.policy.fixed_escrow = 0
    /\ Len(q.policy.eligible_participants) <= q.max_participants
    /\ IsInjective(q.policy.eligible_participants)

\* Mutant of V3RoundArgs: a fallback that leaves exactly the minimum is refused.
V3RoundArgs_MoreThanMinimum(q) ==
    /\ PartnerV2RoundArgs(q)
    /\ q.fallback_at # None =>
           q.fallback_at \in 1 .. U64Max /\ q.reveal_deadline - q.fallback_at > MinRevealWindow

\* v3RoundArgs does not throw.
V3RoundArgs(q) ==
    /\ PartnerV2RoundArgs(q)
    /\ q.fallback_at # None =>
           q.fallback_at \in 1 .. U64Max /\ q.reveal_deadline - q.fallback_at >= MinRevealWindow

\* assetAuctionRound: the highest bid for a lot, one public escrow for everybody.
AssetAuctionRound(q) == [q EXCEPT !.mode = "Auction", !.clearing_rule = "HighestBid"]

\* sealedProposalRound: nothing is paid or escrowed.
SealedProposalRound(q) ==
    [q EXCEPT !.mode = "ReceiptOnly", !.clearing_rule = "LowestBid", !.payment_asset = None,
              !.lot_asset = None, !.lot_amount = 0, !.policy.fixed_escrow = 0]

---------------------------------------------------------------------------
\* The requests the templates make of the requests tried.
Templated ==
    LET partner == {q \in RequestV2 : q.policy # None}
    IN  {AssetAuctionRound(q) : q \in partner} \cup {SealedProposalRound(q) : q \in partner}

\* The client's own checks are never stricter than the contract's: what
\* createRoundV2, createPartnerRoundV2 and createRoundV3 throw away, before
\* the call is even simulated, the contract would have rejected at any time,
\* whatever the operator owns.
ClientTurnsNothingAway ==
    \A q \in RequestV2 \cup Templated, operator \in Account :
        /\ ENABLED CreateRoundV2(operator, q) => V2RoundArgs(q)
        /\ ENABLED CreatePartnerRoundV2(operator, q) => PartnerV2RoundArgs(q)
        /\ ENABLED CreateRoundV3(operator, q) => V3RoundArgs(q)
=============================================================================
