---------------------------- MODULE KeeperStatus ----------------------------
(***************************************************************************)
(* What the keeper tells operators about a v2 or v3 round: the dry run     *)
(* (dry-run.ts) and the status API (status.ts), both computed off chain    *)
(* from the same reads the passes make.  The reads of one answer are taken *)
(* in one state; clock is the wall clock of the status process.            *)
(***************************************************************************)
EXTENDS Keeper

\* countKeeperRevealed: how many submissions carry an envelope, or None when
\* one of them could not be read.
CountRevealed(r) == Cardinality({b \in Bidders(r) : SubmissionOf(r, b).revealed_envelope # None})
RevealedCounts(r) == {CountRevealed(r), None}

\* readKeeperRevealState: only v3 records have an opening policy.
RevealStateOf(r) == IF roundV2[r].protocol_version = 3 THEN revealV3[r] ELSE None

\* Mutant of OwnersTurn: the owner is awaited after the fallback as well.
OwnersTurn_Forever(r, clock) ==
    /\ RevealStateOf(r) # None
    /\ RevealStateOf(r).policy # None

OwnersTurn(r, clock) ==
    /\ RevealStateOf(r) # None
    /\ RevealStateOf(r).policy # None
    /\ clock < RevealStateOf(r).policy

OpenPhase(r, clock) ==
    LET voidAfter == roundV2[r].reveal_deadline + VoidGrace
    IN  CASE clock > voidAfter -> "stale-open"
          [] clock <= voidAfter /\ RevealStateOf(r) # None
             /\ clock > roundV2[r].reveal_deadline -> "awaiting-void"
          [] clock <= roundV2[r].reveal_deadline /\ OwnersTurn(r, clock) -> "awaiting-owner"
          [] OTHER -> "awaiting-drand"

RevealingPhase(r, revealed, clock) ==
    CASE clock > roundV2[r].reveal_deadline -> "ready-to-clear"
      [] clock <= roundV2[r].reveal_deadline
         /\ (revealed = None \/ revealed < Len(roundV2[r].bidders)) -> "revealing"
      [] OTHER -> "awaiting-clear"

\* decideKeeperDryRunAction
PhaseOf(r, revealed, clock) ==
    CASE roundV2[r].status = "Open" -> OpenPhase(r, clock)
      [] roundV2[r].status = "Revealing" -> RevealingPhase(r, revealed, clock)
      [] roundV2[r].status = "Cleared" -> "ready-to-settle"
      [] OTHER -> "complete"

RevealReady(r, clock) ==
    /\ roundV2[r].status = "Open"
    /\ clock > roundV2[r].commit_deadline
    /\ clock >= TimeOfRound(roundV2[r].reveal_round)
    /\ clock <= roundV2[r].reveal_deadline
    /\ ~ OwnersTurn(r, clock)

\* The settlement indicator: the guard's entry unless the round is over.
Indicator(r) == IF roundV2[r].status \in Terminal THEN "terminal" ELSE guard[r]

\* buildRoundStatus for a round that can be read.
RoundStatusView(r, revealed, clock) ==
    [status |-> roundV2[r].status,
     phase |-> PhaseOf(r, revealed, clock),
     revealReady |-> RevealReady(r, clock),
     commitClosed |-> clock > roundV2[r].commit_deadline,
     revealWindowOpen |-> roundV2[r].status = "Revealing" /\ clock <= roundV2[r].reveal_deadline,
     voidableAfter |-> roundV2[r].reveal_deadline + VoidGrace,
     revealedCount |-> revealed,
     winner |-> roundV2[r].winner,
     settlement |-> Indicator(r)]

---------------------------------------------------------------------------
Accepts(error) == error = Ok

\* The keeper is asked for rounds it does not operate itself: it would be the
\* owner whose turn it is.
NotItsOwn(r) == roundV2[r].operator # KeeperAccount

\* With a synchronous clock the advice is what the contract would answer: a
\* call the status recommends is accepted from the keeper, a wait it reports
\* is a call the contract refuses to everybody (or, while it is the turn of
\* an owner other than the keeper, to the keeper), "terminal" and "complete"
\* are said of ended rounds only, and once all envelopes are counted no bid
\* is left to reveal.
AdviceMatchesContract ==
    \A r \in RoundId : Stored(r) => \A revealed \in RevealedCounts(r) :
        LET view == RoundStatusView(r, revealed, now)
            opening(c) == OpenRevealError(r, c)
        IN  /\ view.phase = "stale-open" <=> Accepts(VoidError(r))
            /\ view.phase = "ready-to-clear" <=> Accepts(ClearError(r))
            /\ view.phase = "ready-to-settle" <=> Accepts(SettleError(r))
            /\ view.phase = "awaiting-void" => \A c \in Account : ~ Accepts(opening(c))
            /\ view.phase = "awaiting-owner" /\ NotItsOwn(r) => ~ Accepts(opening(KeeperAccount))
            /\ view.phase = "complete" <=> view.status \in Terminal
            /\ view.settlement = "terminal" => view.status \in Terminal
            /\ view.revealReady /\ HasSignature(roundV2[r].reveal_round) =>
                   Accepts(opening(KeeperAccount))
            /\ Accepts(opening(KeeperAccount)) /\ NotItsOwn(r) =>
                   view.revealReady \/ now > roundV2[r].reveal_deadline
            /\ view.revealWindowOpen =>
                   \A b \in Bidders(r), e \in Envelope : RevealError(r, b, e) # "RevealWindowClosed"
            /\ view.phase = "awaiting-clear" =>
                   \A b \in Bidders(r), e \in Envelope : ~ Accepts(RevealError(r, b, e))
=============================================================================
