------------------------------- MODULE Pilots -------------------------------
(***************************************************************************)
(* The pilot pages of apps/web over the same rounds.  A run looks at one   *)
(* page at a time; other people, their tabs and keepers are OthersAct.     *)
(***************************************************************************)
EXTENDS BasicPilot, EscrowPilot, OfferHubPilot, SignalPilot, ActaPilot, OpenX402Pilot

pilotVars == <<chainVars, tabVars, escrowVars, hub, desk, acta, market>>

\* Only the basic page clears and settles auctions; the others are given
\* links to rounds without settlement.
InitPilots ==
    /\ ChainInit /\ TabInit
    /\ EscrowInit /\ HubInit /\ SignalInit /\ ActaInit /\ MarketInit
    /\ page = "basic" \/ rounds[1].mode = "ReceiptOnly"
    /\ page = "trustless" \/ work.mode = "live"

NextPilots ==
    \/ ChainNext /\ UNCHANGED <<tabVars, escrowVars, hub, desk, acta, market>>
    \/ page = "basic" /\ BasicNext /\ UNCHANGED <<escrowVars, hub, desk, acta, market>>
    \/ page = "trustless" /\ EscrowNext /\ UNCHANGED <<hub, desk, acta, market>>
    \/ page = "offerhub" /\ HubNext /\ UNCHANGED <<escrowVars, desk, acta, market>>
    \/ page = "signal" /\ SignalNext /\ UNCHANGED <<escrowVars, hub, acta, market>>
    \/ page = "acta" /\ ActaNext /\ UNCHANGED <<escrowVars, hub, desk, market>>
    \/ page = "openx402" /\ MarketNext /\ UNCHANGED <<escrowVars, hub, desk, acta>>

SpecPilots == InitPilots /\ [][NextPilots]_pilotVars

---------------------------------------------------------------------------
(* A proposal is sealed for the round whose beacon opens it, and committed *)
(* to a round: if the two differ it may be readable while proposals are    *)
(* still taken.                                                            *)

\* No sealed proposal is readable while its round takes proposals: the round
\* that a page seals for and the round that it commits to are the same,
\* whatever the address bar, late refreshes and failed ones do in between.
NothingReadableEarly ==
    \A id \in PilotRound, w \in Wallet :
        LET seal == rounds[id].seal[w]
        IN  seal # NoRound /\ era[id] = "commit" => ~ Readable(seal)

\* The Trustless Work page reads the round again before it seals; the
\* OpenX402 page shows and names a round in the same step, and creates one
\* only when none is shown: on these two it holds.
SealedInTime == page \in {"trustless", "openx402"} => NothingReadableEarly
=============================================================================
