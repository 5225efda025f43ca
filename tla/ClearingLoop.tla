---------------------------- MODULE ClearingLoop ----------------------------
(***************************************************************************)
(* The loop of clear and clear_v2, one step per bidder of the index, with  *)
(* the three variables it carries: winner, best, found.                    *)
(***************************************************************************)
EXTENDS Clearing

CONSTANTS
    Amount,       \* amounts a bid may have been revealed with
    Ballots       \* bound: the sequences of bids cleared, in index order

\* What the loop reads of a submission: an unrevealed bid has no amount, a
\* v1 bid of zero or less is revealed and invalid, a receipt-only v2
\* submission may be valid without an amount.
BidRecord == [valid : BOOLEAN, amount : Amount \cup {None}]

ASSUME ClearingLoopAssumption ==
    /\ Amount \subseteq Int
    /\ None \notin Int
    /\ Ballots \subseteq Seq(BidRecord)

VARIABLES
    rule,      \* round.clearing_rule
    bids,      \* the submissions in the order of round.bidders
    next,      \* position the iterator is at
    winner,    \* position of the winner so far, None before one is found
    best,      \* amount of the winner so far
    found

loopVars == <<rule, bids, next, winner, best, found>>

InitLoop ==
    /\ rule \in ClearingRule
    /\ bids \in Ballots
    /\ next = 1
    /\ winner = None
    /\ best = 0
    /\ found = FALSE

Done == next > Len(bids)

\* continue: the bid is not valid, or has no amount.
Skip ==
    /\ ~ Done
    /\ ~ bids[next].valid \/ bids[next].amount = None
    /\ next' = next + 1
    /\ UNCHANGED <<rule, bids, winner, best, found>>

\* Mutant of Better: found is never consulted, so 0 competes as a bid.
Better_NoFound == Beats(rule, bids[next].amount, best)

Better == found => Beats(rule, bids[next].amount, best)

Compare ==
    /\ ~ Done
    /\ bids[next].valid
    /\ bids[next].amount # None
    /\ IF Better
       THEN winner' = next /\ best' = bids[next].amount /\ found' = TRUE
       ELSE UNCHANGED <<winner, best, found>>
    /\ next' = next + 1
    /\ UNCHANGED <<rule, bids>>

NextLoop == Skip \/ Compare
SpecLoop == InitLoop /\ [][NextLoop]_loopVars

---------------------------------------------------------------------------
Offers == [i \in DOMAIN bids |-> IF bids[i].valid THEN bids[i].amount ELSE None]

\* The loop variables keep their Rust types.
TypeOK ==
    /\ rule \in ClearingRule
    /\ bids \in Seq(BidRecord)
    /\ next \in 1 .. Len(bids) + 1
    /\ winner \in (1 .. Len(bids)) \cup {None}
    /\ best \in Int
    /\ found \in BOOLEAN

\* When the loop of clear and clear_v2 ends, what it found is the winning bid
\* by the rule's definition, and it found nothing only if no offer was valid.
LoopPicksWinner ==
    Done => /\ found <=> Valid(Offers) # {}
            /\ found => winner \in WinningBids(rule, Offers) /\ best = Offers[winner]
=============================================================================
