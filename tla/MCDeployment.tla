-------------------------- MODULE MCDeployment --------------------------
(***************************************************************************)
(* Two rounds of any family sharing one token pool: the operator and two   *)
(* bidders, a v1 round, a v2 auction whose lot is in the payment token, a  *)
(* v2 auction of a gem.                                                    *)
(***************************************************************************)
EXTENDS Deployment

CONSTANTS op, alice, bob, usdc, n1

MCAccount == {op, alice, bob}
MCAsset == {usdc}
MCInitialBalance ==
    [a \in MCAsset |-> [x \in MCAccount |-> IF x = op THEN 1 ELSE IF x = alice THEN 3 ELSE 1]]

MCPreimage == {[value |-> 1, nonce |-> n1]}
MCEnvelope == {[decodes |-> TRUE, amount |-> 1]}

MCRequestV1 ==
    {[reveal_round |-> 1, clearing_rule |-> "HighestBid",
      commit_deadline |-> 1, reveal_deadline |-> 3]}
MCPolicy == [fixed_escrow |-> 2, eligible_participants |-> <<>>]
MCRequestV2 ==
    {[mode |-> "Auction", payment_asset |-> usdc, lot_asset |-> usdc, lot_amount |-> 1,
      reveal_round |-> 1, clearing_rule |-> "HighestBid", commit_deadline |-> 1,
      reveal_deadline |-> 3, max_participants |-> 2, policy |-> MCPolicy, fallback_at |-> None]}
=============================================================================
