------------------------------ MODULE Clearing ------------------------------
(***************************************************************************)
(* The clearing rule, stated without a loop.  offers[i] is the valid       *)
(* revealed amount of the i-th bidder in commit order, or None: the best   *)
(* amount wins, the earliest bidder among equals.                          *)
(***************************************************************************)
EXTENDS Integers, Sequences

CONSTANTS None   \* Rust's Option::None

ClearingRule == {"HighestBid", "LowestBid"}

\* Mutant of Beats: an equal later bid replaces the earlier one.
Beats_OrEquals(rule, x, y) == IF rule = "HighestBid" THEN x >= y ELSE x <= y

\* Bid x displaces the best bid y found so far.
Beats(rule, x, y) == IF rule = "HighestBid" THEN x > y ELSE x < y

Valid(offers) == {i \in DOMAIN offers : offers[i] # None}

\* Mutant of WinningBids: of equal bids the last one wins.
WinningBids_LastOfTie(rule, offers) ==
    {i \in Valid(offers) : \A j \in Valid(offers) \ {i} :
        /\ ~ Beats(rule, offers[j], offers[i])
        /\ j > i => Beats(rule, offers[i], offers[j])}

\* The winning position, as a set: empty when no offer is valid.
WinningBids(rule, offers) ==
    {i \in Valid(offers) : \A j \in Valid(offers) \ {i} :
        /\ ~ Beats(rule, offers[j], offers[i])
        /\ j < i => Beats(rule, offers[i], offers[j])}
=============================================================================
