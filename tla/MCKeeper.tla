------------------------------ MODULE MCKeeper ------------------------------
(***************************************************************************)
(* The keeper over one round on small instances: two passes sharing the    *)
(* guard over a round of one bidder, or one pass over a round of two, of   *)
(* whom bob's ciphertext opens to something he did not commit to.  The     *)
(* keeper is neither the operator nor a bidder.                            *)
(***************************************************************************)
EXTENDS KeeperStatus

CONSTANTS op, alice, bob, keeper, usdc, gem, first, second

MCAsset == {usdc, gem}
MCInitialBalance ==
    [a \in MCAsset |-> [x \in Account |->
        IF a = gem /\ x = op THEN 1 ELSE IF a = usdc /\ x \in {alice, bob} THEN 2 ELSE 0]]

OneBidder == {op, alice, keeper}
TwoBidders == {op, alice, bob, keeper}

\* alice refuses usdc: no settlement that owes her a surplus goes through.
AliceRefuses == {<<usdc, alice>>}

Sealed(n) == [decodes |-> TRUE, amount |-> n]
Garbage == [decodes |-> FALSE, amount |-> None]
OneEnvelope == {Sealed(1)}
TwoEnvelopes == {Sealed(1), Garbage}

MCFaithful == Account \ {bob}

Auction ==
    [mode |-> "Auction", payment_asset |-> usdc, lot_asset |-> gem, lot_amount |-> 1,
     reveal_round |-> 1, clearing_rule |-> "HighestBid", commit_deadline |-> 1,
     reveal_deadline |-> 3, max_participants |-> 2, policy |-> None, fallback_at |-> None]

\* Its owner may open it until time 3.
OwnerOpened ==
    [Auction EXCEPT !.policy = [fixed_escrow |-> 1, eligible_participants |-> <<>>],
                    !.fallback_at = 3, !.reveal_deadline = 4]

V2Only == {Auction}
V2AndV3 == {Auction, OwnerOpened}

MCSkew == {-1, 0, 1}

PassSymmetry == Permutations(Pass)
=============================================================================
