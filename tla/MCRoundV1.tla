----------------------------- MODULE MCRoundV1 -----------------------------
(***************************************************************************)
(* One v1 round on a small instance: an operator that may bid too, two     *)
(* more bidders of which one cannot be credited, room for two bids.        *)
(***************************************************************************)
EXTENDS ReceiptsV1

CONSTANTS op, alice, bob, usdc, n1, n2

MCAccount == {op, alice, bob}
MCAsset == {usdc}
MCInitialBalance == [a \in MCAsset |-> [x \in MCAccount |-> IF x = op THEN 1 ELSE 2]]

\* bob's usdc is frozen: it can be spent by no credit back to bob.
MCRefuses == {<<usdc, bob>>}

MCPreimage == {[value |-> 0, nonce |-> n1], [value |-> 1, nonce |-> n1],
               [value |-> 1, nonce |-> n2], [value |-> 2, nonce |-> n1]}
MCEscrowV1 == -1 .. 2

MCRequest ==
    [reveal_round |-> 2, clearing_rule |-> "HighestBid",
     commit_deadline |-> 2, reveal_deadline |-> 4]

\* Accepted: both rules, and a deadline so late that its grace overflows.
\* Rejected: commits at the beacon, no reveal window, round zero.
MCRequestV1 ==
    {MCRequest, [MCRequest EXCEPT !.clearing_rule = "LowestBid"],
     [MCRequest EXCEPT !.reveal_deadline = 9],
     [MCRequest EXCEPT !.commit_deadline = 3],
     [MCRequest EXCEPT !.reveal_deadline = 3],
     [MCRequest EXCEPT !.reveal_round = 0]}
=============================================================================
