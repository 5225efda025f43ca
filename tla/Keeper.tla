------------------------------- MODULE Keeper -------------------------------
(***************************************************************************)
(* The keeper service on v2 and v3 rounds: passes over a round that void   *)
(* it when stale, open it, reveal every bid, clear it and settle it        *)
(* (services/keeper/src/keeper.ts), driven by the watch loop.  A step ends *)
(* where the code awaits: between two steps anybody may call the contract. *)
(* Passes share one settlement guard.  Other keepers, bidders and          *)
(* operators are the calls of RoundV2; a transaction that lands after its  *)
(* pass gave up on it is one of those calls.                               *)
(***************************************************************************)
EXTENDS RoundErrors

CONSTANTS
    Pass,           \* passes that may run at once in the keeper process
    KeeperAccount,  \* the signer of the keeper
    Faithful,       \* bidders whose ciphertext opens to what they committed to
    Skew,           \* how far the keeper's clock may be from the ledger's
    MaxFaults       \* bound: failed RPC calls and restarts

VARIABLES
    pass,           \* pass[p]: where pass p is
    guard,          \* guard[r]: SettlementGuard entry, in memory
    lastStatus,     \* lastStatus[r]: the persisted queue
    faults

keeperVars == <<pass, guard, lastStatus, faults>>
keeperAllVars == <<varsV2, keeperVars>>

Stage == {"idle", "stale", "void", "keep", "open", "sweep", "look", "reveal",
          "close", "clear", "settle", "settling", "finish"}
Terminal == {"Settled", "Voided"}
GuardStatus == {"pending", "submitted", "terminal"}

ASSUME KeeperAssumption ==
    /\ KeeperAccount \in Account
    /\ Faithful \subseteq Account
    /\ Skew \subseteq Int
    /\ MaxFaults \in Nat
    /\ None # <<>>

\* todo is None outside the reveal loop; skipped are the bidders whose state
\* could not be read; failure is what the last pass threw.
Idle(failure) ==
    [at |-> "idle", round |-> None, todo |-> None, envelope |-> None,
     skipped |-> {}, failure |-> failure]

RoundOf(p) == pass[p].round
StatusOf(p) == roundV2[RoundOf(p)].status
Goto(p, stage) == pass' = [pass EXCEPT ![p].at = stage]
Throw(p, error) == pass' = [pass EXCEPT ![p] = Idle(error)]

ReadOnly == UNCHANGED <<varsV2, guard, lastStatus, faults>>

---------------------------------------------------------------------------
(* Contract errors the keeper takes for "somebody already did this".       *)

ToleratedVoid == {"NotVoidable", "WrongStatus", "AlreadyCleared", "AlreadySettled", "RoundVoided"}
ToleratedOpen == {"RevealAlreadyOpen", "WrongStatus", "AlreadyCleared", "AlreadySettled",
                  "RoundVoided"}

\* Mutant of InvalidSubmission: a corrupt seal is not among the listed rejections.
InvalidSubmission_NoMismatch ==
    {"MalformedPayload", "InvalidAmount", "BidExceedsEscrow", "UnsupportedVersion",
     "EscrowNotAllowed"}

InvalidSubmission == {"HashMismatch", "MalformedPayload", "InvalidAmount", "BidExceedsEscrow",
                      "UnsupportedVersion", "EscrowNotAllowed"}
ToleratedReveal == {"AlreadyRevealed", "RevealWindowClosed"} \cup InvalidSubmission
ToleratedClear == {"AlreadyCleared", "AlreadySettled", "RevealStillOpen", "WrongStatus",
                   "RoundVoided"}
ToleratedSettle == {"AlreadySettled", "NotCleared", "WrongStatus"}

\* A call of the contract: accepted, rejected with a code that is tolerated
\* or thrown, or trapped in a token transfer.
Submit(p, Call, error, tolerated, next) ==
    \/ Call /\ Goto(p, next)
    \/ /\ error # Ok
       /\ IF error \in tolerated THEN Goto(p, next) ELSE Throw(p, error)
       /\ UNCHANGED varsV2
    \/ /\ error = Ok /\ ~ ENABLED Call
       /\ Throw(p, "Trap")
       /\ UNCHANGED varsV2

---------------------------------------------------------------------------
(* watchRound: voidIfStale, keepRoundV2, closeRoundV2.                     *)

\* The watch loop takes up a round of its queue unless it is known to be over.
Start(p, r) ==
    /\ pass[p].at = "idle"
    /\ Stored(r)
    /\ lastStatus[r] \notin Terminal
    /\ pass' = [pass EXCEPT ![p] = [Idle(None) EXCEPT !.at = "stale", !.round = r]]
    /\ ReadOnly

\* Mutant of Stale: only a round whose beacon never came is voided.
Stale_StallOnly(r, clock) ==
    /\ roundV2[r].status = "Open"
    /\ clock > roundV2[r].reveal_deadline + VoidGrace
    /\ ~ HasSignature(roundV2[r].reveal_round)

Stale(r, clock) ==
    /\ roundV2[r].status = "Open"
    /\ clock > roundV2[r].reveal_deadline + VoidGrace

CheckStale(p) ==
    /\ pass[p].at = "stale"
    /\ \E d \in Skew : Goto(p, IF Stale(RoundOf(p), now + d) THEN "void" ELSE "keep")
    /\ ReadOnly

SubmitVoid(p) ==
    /\ pass[p].at = "void"
    /\ Submit(p, VoidV2(RoundOf(p)), VoidError(RoundOf(p)), ToleratedVoid, "keep")
    /\ UNCHANGED <<guard, lastStatus, faults>>

\* A v3 round is left alone when its window has passed, or while it is its
\* owner's to open.
LeaveOpen(r, clock) ==
    /\ roundV2[r].protocol_version = 3
    /\ \/ clock > roundV2[r].reveal_deadline
       \/ revealV3[r].policy # None /\ clock < revealV3[r].policy

BeaconReady(r, clock) ==
    clock >= TimeOfRound(roundV2[r].reveal_round) /\ HasSignature(roundV2[r].reveal_round)

\* Mutant of EnterLoop: only the first page of the index is read.
EnterLoop_FirstPage(p) ==
    LET all == roundV2[RoundOf(p)].bidders
    IN  pass' = [pass EXCEPT ![p].at = "look",
                             ![p].todo = IF all = <<>> THEN all ELSE <<Head(all)>>]

\* get_bidders_v2: the index is complete once the round is Revealing.
EnterLoop(p) ==
    pass' = [pass EXCEPT ![p].at = "look", ![p].todo = roundV2[RoundOf(p)].bidders]

Keep(p) ==
    /\ pass[p].at = "keep"
    /\ \/ /\ StatusOf(p) = "Open"
          /\ \E d \in Skew :
                 Goto(p, IF ~ LeaveOpen(RoundOf(p), now + d) /\ BeaconReady(RoundOf(p), now + d)
                         THEN "open" ELSE "close")
       \/ StatusOf(p) = "Revealing" /\ EnterLoop(p)
       \/ StatusOf(p) \notin {"Open", "Revealing"} /\ Goto(p, "close")
    /\ ReadOnly

SubmitOpen(p) ==
    /\ pass[p].at = "open"
    /\ Submit(p, OpenRevealV2(RoundOf(p), KeeperAccount),
              OpenRevealError(RoundOf(p), KeeperAccount), ToleratedOpen, "sweep")
    /\ UNCHANGED <<guard, lastStatus, faults>>

\* The round is read again after the opening.
Sweep(p) ==
    /\ pass[p].at = "sweep"
    /\ IF StatusOf(p) = "Revealing" THEN EnterLoop(p) ELSE Goto(p, "close")
    /\ ReadOnly

NextBidder(p) == pass' = [pass EXCEPT ![p].at = "look", ![p].todo = Tail(@), ![p].envelope = None]

Matching(r, b) == {e \in Envelope : Sha256(e) = SubmissionOf(r, b).commitment}

\* Mutant of Opened: a ciphertext that does not open is passed on.
Opened_Unchecked(r, b) == IF b \in Faithful THEN Matching(r, b) ELSE {None}

\* What the ciphertext of b may open to once R is out.
Opened(r, b) == IF b \in Faithful THEN Matching(r, b) ELSE Envelope \ Matching(r, b)

\* One bidder of the loop: skipped if revealed already or if the ciphertext
\* is gone or does not open, else to be revealed.
Look(p) ==
    LET b == Head(pass[p].todo)
    IN  /\ pass[p].at = "look"
        /\ \/ pass[p].todo = <<>> /\ Goto(p, "close")
           \/ /\ pass[p].todo # <<>>
              /\ SubmissionOf(RoundOf(p), b).revealed_envelope # None \/ b \notin Faithful
              /\ NextBidder(p)
           \/ /\ pass[p].todo # <<>>
              /\ SubmissionOf(RoundOf(p), b).revealed_envelope = None
              /\ \E e \in Opened(RoundOf(p), b) :
                     pass' = [pass EXCEPT ![p].at = "reveal", ![p].envelope = e]
        /\ ReadOnly

SubmitReveal(p) ==
    LET r == RoundOf(p)
        b == Head(pass[p].todo)
        e == pass[p].envelope
        error == RevealError(r, b, e)
    IN  /\ pass[p].at = "reveal"
        /\ \/ RevealV2(r, b, e) /\ NextBidder(p)
           \/ /\ error # Ok
              /\ IF error \in ToleratedReveal THEN NextBidder(p) ELSE Throw(p, error)
              /\ UNCHANGED varsV2
        /\ UNCHANGED <<guard, lastStatus, faults>>

\* canSettle and markSubmitted run in one go, before the transaction is awaited.
Reserve(p) ==
    LET r == RoundOf(p)
    IN  IF guard[r] = "pending"
        THEN guard' = [guard EXCEPT ![r] = "submitted"] /\ Goto(p, "settling")
        ELSE UNCHANGED guard /\ Goto(p, "finish")

Close(p) ==
    LET round == roundV2[RoundOf(p)]
    IN  /\ pass[p].at = "close"
        /\ \/ /\ round.status = "Revealing"
              /\ \E d \in Skew :
                     Goto(p, IF now + d <= round.reveal_deadline THEN "finish" ELSE "clear")
              /\ UNCHANGED guard
           \/ round.status = "Cleared" /\ Reserve(p)
           \/ /\ round.status \notin {"Revealing", "Cleared"}
              /\ Goto(p, "finish")
              /\ UNCHANGED guard
        /\ UNCHANGED <<varsV2, lastStatus, faults>>

SubmitClear(p) ==
    /\ pass[p].at = "clear"
    /\ Submit(p, ClearV2(RoundOf(p)), ClearError(RoundOf(p)), ToleratedClear, "settle")
    /\ UNCHANGED <<guard, lastStatus, faults>>

\* The round is read again after clearing.
AfterClear(p) ==
    /\ pass[p].at = "settle"
    /\ IF StatusOf(p) = "Cleared" THEN Reserve(p) ELSE Goto(p, "finish") /\ UNCHANGED guard
    /\ UNCHANGED <<varsV2, lastStatus, faults>>

\* Mutant of Released: a failed attempt is given up for good.
Released_GivesUp(r) == [guard EXCEPT ![r] = "terminal"]

\* markRetryable
Released(r) == [guard EXCEPT ![r] = "pending"]

SettleReply(p) ==
    LET r == RoundOf(p)
    IN  /\ pass[p].at = "settling"
        /\ Submit(p, SettleV2(r), SettleError(r), ToleratedSettle, "finish")
        /\ guard' = IF roundV2'[r] # roundV2[r] THEN [guard EXCEPT ![r] = "terminal"]
                    ELSE Released(r)
        /\ UNCHANGED <<lastStatus, faults>>

\* The last read of the pass: the queue and the guard learn the status.
Finish(p) ==
    LET r == RoundOf(p)
    IN  /\ pass[p].at = "finish"
        /\ lastStatus' = [lastStatus EXCEPT ![r] = StatusOf(p)]
        /\ guard' = IF StatusOf(p) \in Terminal THEN [guard EXCEPT ![r] = "terminal"] ELSE guard
        /\ pass' = [pass EXCEPT ![p] = Idle(None)]
        /\ UNCHANGED <<varsV2, faults>>

---------------------------------------------------------------------------
(* What goes wrong around the keeper.                                      *)

\* Mutant of GuardAfterFault: any failing pass makes the round retryable.
GuardAfterFault_Any(p) == Released(RoundOf(p))

\* Only the settlement attempt releases its own reservation.
GuardAfterFault(p) == IF pass[p].at = "settling" THEN Released(RoundOf(p)) ELSE guard

\* An RPC call fails: the pass throws and the watch loop notes the error.
Fault(p) ==
    /\ faults < MaxFaults
    /\ pass[p].at # "idle"
    /\ Throw(p, "Network")
    /\ guard' = GuardAfterFault(p)
    /\ faults' = faults + 1
    /\ UNCHANGED <<varsV2, lastStatus>>

\* The state of one bidder cannot be read, or its seal not be opened for now:
\* the pass records a skip and goes on.
SkipUnread(p) ==
    /\ faults < MaxFaults
    /\ pass[p].at = "look"
    /\ pass[p].todo # <<>>
    /\ pass' = [pass EXCEPT ![p].todo = Tail(@), ![p].skipped = @ \cup {Head(pass[p].todo)}]
    /\ faults' = faults + 1
    /\ UNCHANGED <<varsV2, guard, lastStatus>>

\* The process dies and comes back: the queue is on disk, all else is lost.
Restart ==
    /\ faults < MaxFaults
    /\ pass' = [p \in Pass |-> Idle(None)]
    /\ guard' = [r \in RoundId |-> "pending"]
    /\ faults' = faults + 1
    /\ UNCHANGED <<varsV2, lastStatus>>

Work(p) ==
    \/ \E r \in RoundId : Start(p, r)
    \/ CheckStale(p) \/ SubmitVoid(p)
    \/ Keep(p) \/ SubmitOpen(p) \/ Sweep(p) \/ Look(p) \/ SubmitReveal(p)
    \/ Close(p) \/ SubmitClear(p) \/ AfterClear(p) \/ SettleReply(p)
    \/ Finish(p)

KeeperNext ==
    \/ \E p \in Pass : Work(p) \/ Fault(p) \/ SkipUnread(p)
    \/ Restart
    \/ NextV2 /\ UNCHANGED keeperVars

KeeperInit ==
    /\ InitV2
    /\ pass = [p \in Pass |-> Idle(None)]
    /\ guard = [r \in RoundId |-> "pending"]
    /\ lastStatus = [r \in RoundId |-> "Unknown"]
    /\ faults = 0

KeeperSpec == KeeperInit /\ [][KeeperNext]_keeperAllVars

\* The keeper process is scheduled and time passes.  Nobody else calls clear,
\* settle or void.
KeeperFairSpec ==
    /\ KeeperSpec
    /\ WF_keeperAllVars(CloseLedger /\ UNCHANGED <<storageV2, keeperVars>>)
    /\ \A p \in Pass : WF_keeperAllVars(Work(p))

---------------------------------------------------------------------------
(* Properties.                                                             *)

\* What a pass throws: a rejection, a trap of a token, a failing RPC call.
Failure == ErrorCode \cup {"Trap", "Network"}

\* Every pass, guard entry and queue entry has the shape of its TypeScript
\* type: a pass that is under way has a round, one that reveals an envelope.
KeeperTypeOK ==
    /\ pass \in [Pass -> [at : Stage, round : RoundId \cup {None},
                          todo : Seq(Account) \cup {None}, envelope : Envelope \cup {None},
                          skipped : SUBSET Account, failure : Failure \cup {None}]]
    /\ \A p \in Pass : /\ pass[p].at # "idle" => RoundOf(p) \in RoundId
                      /\ pass[p].at = "reveal" => pass[p].envelope \in Envelope
    /\ guard \in [RoundId -> GuardStatus]
    /\ lastStatus \in [RoundId -> Status \cup {"Unknown"}]
    /\ faults \in 0 .. MaxFaults

Settling(r) == {p \in Pass : pass[p].at = "settling" /\ RoundOf(p) = r}

\* Passes sharing the guard never have two settlements of a round under way,
\* and a reservation outlives no attempt: failed work is retried, not
\* suppressed until the next restart.
OneSettlementAtATime ==
    \A r \in RoundId :
        /\ \A p, q \in Settling(r) : p = q
        /\ guard[r] = "submitted" => Settling(r) # {}

\* What the keeper believes to be over is over on chain: neither the guard nor
\* the filter of the watch loop abandons a round that still holds escrow.
NothingAbandoned ==
    \A r \in RoundId :
        (guard[r] = "terminal" \/ lastStatus[r] \in Terminal) =>
            Stored(r) /\ roundV2[r].status \in Terminal

Revealable(r, b) ==
    /\ Committed(r, b) /\ b \in Faithful
    /\ \A e \in Matching(r, b) : e.decodes /\ AmountAccepted(r, b, e)

\* A pass that got through the reveal loop before the deadline leaves no bid
\* behind that could be revealed, whoever else was revealing and whatever the
\* other bidders had sealed, except those it has recorded as skipped.
LoopLeavesNobodyBehind ==
    \A p \in Pass :
        pass[p].at = "close" /\ pass[p].todo = <<>> /\ now <= roundV2[RoundOf(p)].reveal_deadline =>
            \A b \in Account \ pass[p].skipped :
                Revealable(RoundOf(p), b) => SubmissionOf(RoundOf(p), b).valid

\* "Permanent rejection of one participant must not prevent other reveals": a
\* reveal makes a pass fail only if the round itself has moved on.
OneBidStopsNoPass ==
    [][\A p \in Pass :
          pass[p].at = "reveal" /\ pass'[p].at = "idle"
          /\ pass'[p].failure \notin {None, "Network"} =>
              roundV2[RoundOf(p)].status # "Revealing"]_keeperAllVars

\* keeper.ts: "Every step tolerates 'already done' states (another keeper, or
\* the operator, may have acted first) by checking on-chain state first and
\* treating the matching contract errors as skips rather than failures."  So
\* no pass fails because the round has already been taken further.
AlreadyDoneIsNoFailure ==
    \A p \in Pass : pass[p].failure \notin
        {"AlreadyRevealed", "RevealAlreadyOpen", "RevealNotOpen", "AlreadyCleared",
         "AlreadySettled", "RoundVoided"}
=============================================================================
