----------------------------- MODULE MCRoundV2 -----------------------------
(***************************************************************************)
(* One v2/v3 round on a small instance: an operator and two bidders, two   *)
(* tokens, Drand round 2 due at time 3 (genesis 1, period 2).              *)
(***************************************************************************)
EXTENDS Receipts, RoundRequests

CONSTANTS op, alice, bob, usdc, gem

MCAccount == {op, alice, bob}
MCAsset == {usdc, gem}
MCInitialBalance ==
    [a \in MCAsset |-> [x \in MCAccount |->
        IF a = gem THEN IF x = op THEN 1 ELSE 0
        ELSE IF x = op THEN 1 ELSE 2]]

\* bob has no trustline for gem.
MCRefuses == {<<gem, bob>>}

Sealed(n) == [decodes |-> TRUE, amount |-> n]
Garbage == [decodes |-> FALSE, amount |-> None]
MCEnvelope == {Sealed(1), Sealed(2), Sealed(None), Garbage}
MCEscrowV2 == -1 .. 2

Policy(escrow, eligible) ==
    [fixed_escrow |-> escrow, eligible_participants |-> eligible]

\* An open auction of one gem for usdc; the other requests vary it.
Auction ==
    [mode |-> "Auction", payment_asset |-> usdc, lot_asset |-> gem, lot_amount |-> 1,
     reveal_round |-> 2, clearing_rule |-> "HighestBid", commit_deadline |-> 2,
     reveal_deadline |-> 5, max_participants |-> 2, policy |-> None, fallback_at |-> None]

Receipt == [Auction EXCEPT !.mode = "ReceiptOnly", !.payment_asset = None,
                           !.lot_asset = None, !.lot_amount = 0]

AcceptedRequests ==
    {Auction,
     [Auction EXCEPT !.clearing_rule = "LowestBid", !.policy = Policy(2, <<alice, bob>>),
                     !.fallback_at = 4],
     [Auction EXCEPT !.lot_asset = usdc],
     [Receipt EXCEPT !.policy = Policy(0, <<>>), !.max_participants = 1]}

\* Each breaks one check of the creation entry points.
RejectedRequests ==
    {[Auction EXCEPT !.commit_deadline = 3],
     [Auction EXCEPT !.reveal_deadline = 3],
     [Auction EXCEPT !.reveal_round = 0],
     [Auction EXCEPT !.reveal_deadline = 8],
     [Auction EXCEPT !.policy = Policy(2, <<>>), !.fallback_at = 5],
     [Auction EXCEPT !.policy = Policy(2, <<alice, alice>>)],
     [Receipt EXCEPT !.policy = Policy(1, <<>>)]}

MCRequestV2 == AcceptedRequests \cup RejectedRequests
=============================================================================
