--------------------------- MODULE Keeper_proofs ---------------------------
(***************************************************************************)
(* The keeper for any number of passes, rounds and bidders: every step is  *)
(* a step of the contract or of the process, the settlement guard is kept  *)
(* by at most one attempt, no round is abandoned, the reveal loop leaves   *)
(* nobody behind, and the advice given to operators is what the contract   *)
(* would answer.                                                           *)
(***************************************************************************)
EXTENDS KeeperStatus, RoundV2_proofs

---------------------------------------------------------------------------
(* The inductive invariant, as a conjunction of named parts.               *)

PassField == {"at", "round", "todo", "envelope", "skipped", "failure"}

\* What the fields of pass p hold while it is under way.
PassShape(p) ==
    /\ DOMAIN pass[p] = PassField
    /\ pass[p].at \in Stage
    /\ pass[p].at # "idle" => pass[p].round \in RoundId
    /\ pass[p].at \in {"look", "reveal"} => pass[p].todo \in Seq(Account)
    /\ pass[p].at = "reveal" => pass[p].todo # <<>> /\ pass[p].envelope \in Envelope

KeeperShape ==
    /\ DOMAIN pass = Pass
    /\ \A p \in Pass : PassShape(p)
    /\ guard \in [RoundId -> GuardStatus]
    /\ lastStatus \in [RoundId -> Status \cup {"Unknown"}]

\* Only stored rounds are taken up.
RoundsStored == \A p \in Pass : pass[p].at # "idle" => Stored(RoundOf(p))

\* Who settles holds the reservation, unless the round was seen to be over.
ReservationHeld ==
    \A p \in Pass : pass[p].at = "settling" => guard[RoundOf(p)] # "pending"

SettlementInv == ReservationHeld /\ OneSettlementAtATime

IInvKeeper ==
    /\ IInvV2
    /\ KeeperShape
    /\ RoundsStored
    /\ SettlementInv
    /\ NothingAbandoned

---------------------------------------------------------------------------
(* Every step of the keeper is a step of the contract, or leaves it alone. *)

\* A contract call of the keeper is the call or changes nothing on chain.
LEMMA SubmitIsCall ==
    ASSUME NEW p \in Pass, KeeperShape, pass[p].at # "idle",
           \/ SubmitVoid(p) \/ SubmitOpen(p) \/ SubmitReveal(p)
           \/ SubmitClear(p) \/ SettleReply(p)
    PROVE  [NextV2]_varsV2
<1>r. RoundOf(p) \in RoundId
  BY DEF KeeperShape, PassShape, RoundOf
<1>1. CASE SubmitVoid(p)
  BY <1>1, <1>r DEF SubmitVoid, Submit, NextV2, CallV2
<1>2. CASE SubmitOpen(p)
  BY <1>2, <1>r, KeeperAssumption DEF SubmitOpen, Submit, NextV2, CallV2
<1>4. CASE SubmitClear(p)
  BY <1>4, <1>r DEF SubmitClear, Submit, NextV2, CallV2
<1>5. CASE SettleReply(p)
  BY <1>5, <1>r DEF SettleReply, Submit, NextV2, CallV2
<1>3. CASE SubmitReveal(p)
  <2>1. /\ pass[p].todo \in Seq(Account) /\ pass[p].todo # <<>>
        /\ pass[p].envelope \in Envelope
    BY <1>3 DEF SubmitReveal, KeeperShape, PassShape
  <2>2. Head(pass[p].todo) \in Account
    BY <2>1
  <2> QED BY <1>3, <1>r, <2>1, <2>2 DEF SubmitReveal, NextV2, CallV2
<1> QED BY <1>1, <1>2, <1>3, <1>4, <1>5

---------------------------------------------------------------------------
(* How a step moves the pass that takes it.                                *)

\* Pass p alone moves, to the given stage, and keeps the round it has.
Moved(p, stage) ==
    /\ DOMAIN pass' = Pass
    /\ \A q \in Pass \ {p} : pass'[q] = pass[q]
    /\ PassShape(p)'
    /\ pass'[p].at = stage
    /\ pass[p].at # "idle" /\ stage # "idle" => pass'[p].round = pass[p].round

\* A pass that goes on outside the reveal loop keeps its shape.
LEMMA GotoMoves ==
    ASSUME NEW p \in Pass, KeeperShape, pass[p].at # "idle",
           NEW stage \in Stage \ {"idle", "look", "reveal"}, Goto(p, stage)
    PROVE  Moved(p, stage)
<1>1. DOMAIN pass' = Pass /\ \A q \in Pass \ {p} : pass'[q] = pass[q]
  BY DEF Goto, KeeperShape
<1>2. pass'[p] = [pass[p] EXCEPT !.at = stage]
  BY DEF Goto, KeeperShape
<1>3. DOMAIN pass[p] = PassField /\ pass[p].round \in RoundId
  BY DEF KeeperShape, PassShape
<1>4. /\ DOMAIN pass'[p] = PassField
      /\ pass'[p].at = stage
      /\ pass'[p].round = pass[p].round
  BY <1>2, <1>3 DEF PassField
<1> QED BY <1>1, <1>3, <1>4 DEF Moved, PassShape

\* A pass that throws, or is done, is idle.
LEMMA IdleMoves ==
    ASSUME NEW p \in Pass, KeeperShape, NEW failure, pass' = [pass EXCEPT ![p] = Idle(failure)]
    PROVE  Moved(p, "idle")
<1>1. DOMAIN pass' = Pass /\ \A q \in Pass \ {p} : pass'[q] = pass[q]
  BY DEF KeeperShape
<1>2. pass'[p] = Idle(failure)
  BY DEF KeeperShape
<1>3. DOMAIN pass'[p] = PassField /\ pass'[p].at = "idle"
  BY <1>2 DEF Idle, PassField
<1> QED BY <1>1, <1>3 DEF Moved, PassShape, Stage

\* Moving on in the reveal loop keeps the bidders still to come.
LEMMA NextBidderMoves ==
    ASSUME NEW p \in Pass, KeeperShape, pass[p].at \in {"look", "reveal"},
           pass[p].todo # <<>>, NextBidder(p)
    PROVE  Moved(p, "look")
<1>1. DOMAIN pass' = Pass /\ \A q \in Pass \ {p} : pass'[q] = pass[q]
  BY DEF NextBidder, KeeperShape
<1>2. pass'[p] = [pass[p] EXCEPT !.at = "look", !.todo = Tail(@), !.envelope = None]
  BY DEF NextBidder, KeeperShape
<1>3. DOMAIN pass[p] = PassField /\ pass[p].round \in RoundId /\ pass[p].todo \in Seq(Account)
  BY DEF KeeperShape, PassShape
<1>4. Tail(pass[p].todo) \in Seq(Account)
  BY <1>3
<1>5. /\ DOMAIN pass'[p] = PassField
      /\ pass'[p].at = "look"
      /\ pass'[p].round = pass[p].round
      /\ pass'[p].todo = Tail(pass[p].todo)
  BY <1>2, <1>3 DEF PassField
<1> QED BY <1>1, <1>3, <1>4, <1>5 DEF Moved, PassShape, Stage

\* The reveal loop starts with the bidder index of a stored round.
LEMMA EnterLoopMoves ==
    ASSUME NEW p \in Pass, IInvV2, KeeperShape, pass[p].at # "idle", Stored(RoundOf(p)),
           EnterLoop(p)
    PROVE  Moved(p, "look")
<1>1. DOMAIN pass' = Pass /\ \A q \in Pass \ {p} : pass'[q] = pass[q]
  BY DEF EnterLoop, KeeperShape
<1>2. pass'[p] = [pass[p] EXCEPT !.at = "look", !.todo = roundV2[RoundOf(p)].bidders]
  BY DEF EnterLoop, KeeperShape
<1>3. DOMAIN pass[p] = PassField /\ pass[p].round \in RoundId
  BY DEF KeeperShape, PassShape
<1>4. roundV2[RoundOf(p)] \in RoundRecord
  BY <1>3 DEF IInvV2, TypeOKV2, Stored, RoundOf
<1>5. roundV2[RoundOf(p)].bidders \in Seq(Account)
  BY <1>4 DEF RoundRecord
<1>6. /\ DOMAIN pass'[p] = PassField
      /\ pass'[p].at = "look"
      /\ pass'[p].round = pass[p].round
      /\ pass'[p].todo = roundV2[RoundOf(p)].bidders
  BY <1>2, <1>3 DEF PassField
<1> QED BY <1>1, <1>3, <1>5, <1>6 DEF Moved, PassShape, Stage

---------------------------------------------------------------------------
(* The reservation of a settlement.                                        *)

\* A step that neither starts nor ends a settlement, and marks entries
\* terminal at most.
LEMMA QuietStep ==
    ASSUME KeeperShape, SettlementInv, NEW p \in Pass, NEW stage \in Stage, Moved(p, stage),
           pass[p].at # "settling", stage # "settling",
           guard' = guard \/ \E r \in RoundId : guard' = [guard EXCEPT ![r] = "terminal"]
    PROVE  SettlementInv'
<1>1. \A r \in RoundId : guard'[r] = guard[r] \/ guard'[r] = "terminal"
  BY DEF KeeperShape
<1>2. pass'[p].at # "settling" /\ \A q \in Pass \ {p} : pass'[q] = pass[q]
  BY DEF Moved
<1>3. \A r \in RoundId : Settling(r)' = Settling(r)
  BY <1>2 DEF Settling, RoundOf
<1>4. \A q \in Pass : pass[q].at = "settling" => RoundOf(q) \in RoundId
  BY DEF KeeperShape, PassShape, RoundOf
<1>5. ReservationHeld'
  BY <1>1, <1>2, <1>4 DEF SettlementInv, ReservationHeld, RoundOf
<1>6. OneSettlementAtATime'
  BY <1>1, <1>3 DEF SettlementInv, OneSettlementAtATime
<1> QED BY <1>5, <1>6 DEF SettlementInv

\* canSettle and markSubmitted in one step: no other attempt is under way.
LEMMA ReserveStep ==
    ASSUME KeeperShape, SettlementInv, NEW p \in Pass, Moved(p, "settling"),
           NEW s \in RoundId, s = RoundOf(p),
           pass[p].at \notin {"idle", "settling"},
           guard[s] = "pending",
           guard' = [guard EXCEPT ![s] = "submitted"]
    PROVE  SettlementInv'
<1>1. \A q \in Pass : pass[q].at = "settling" => RoundOf(q) \in RoundId
  BY DEF KeeperShape, PassShape, RoundOf
<1>2. /\ \A q \in Pass \ {p} : pass'[q] = pass[q]
      /\ pass'[p].at = "settling" /\ RoundOf(p)' = s
  BY DEF Moved, RoundOf
<1>3. /\ guard'[s] = "submitted"
      /\ \A r \in RoundId \ {s} : guard'[r] = guard[r]
  BY <1>1 DEF KeeperShape
<1>4. Settling(s) = {}
  BY DEF SettlementInv, ReservationHeld, Settling
<1>5. Settling(s)' = {p}
  BY <1>2, <1>4 DEF Settling, RoundOf
<1>6. \A r \in RoundId \ {s} : Settling(r)' = Settling(r)
  BY <1>2 DEF Settling, RoundOf
<1>7. ReservationHeld'
  BY <1>1, <1>2, <1>3 DEF SettlementInv, ReservationHeld, RoundOf
<1>8. OneSettlementAtATime'
  <2> SUFFICES ASSUME NEW r \in RoundId
               PROVE  /\ \A q1, q2 \in Settling(r)' : q1 = q2
                      /\ guard'[r] = "submitted" => Settling(r)' # {}
    BY DEF OneSettlementAtATime
  <2>1. CASE r = s
    BY <2>1, <1>5
  <2>2. CASE r # s
    BY <2>2, <1>3, <1>6 DEF SettlementInv, OneSettlementAtATime
  <2> QED BY <2>1, <2>2
<1> QED BY <1>7, <1>8 DEF SettlementInv

\* The end of the one attempt under way takes its reservation with it.
LEMMA ReleaseStep ==
    ASSUME KeeperShape, SettlementInv, NEW p \in Pass, NEW stage \in Stage, Moved(p, stage),
           pass[p].at = "settling", stage # "settling",
           NEW s \in RoundId, s = RoundOf(p), NEW entry \in {"pending", "terminal"},
           guard' = [guard EXCEPT ![s] = entry]
    PROVE  SettlementInv'
<1>1. \A q \in Pass : pass[q].at = "settling" => RoundOf(q) \in RoundId
  BY DEF KeeperShape, PassShape, RoundOf
<1>2. pass'[p].at # "settling" /\ \A q \in Pass \ {p} : pass'[q] = pass[q]
  BY DEF Moved
<1>3. /\ guard'[s] = entry
      /\ \A r \in RoundId \ {s} : guard'[r] = guard[r]
  BY <1>1 DEF KeeperShape
<1>4. \A q \in Pass \ {p} : pass[q].at = "settling" => RoundOf(q) # s
  BY <1>1 DEF SettlementInv, OneSettlementAtATime, Settling
<1>5. Settling(s)' = {}
  BY <1>2, <1>4 DEF Settling, RoundOf
<1>6. \A r \in RoundId \ {s} : Settling(r)' = Settling(r)
  BY <1>2 DEF Settling, RoundOf
<1>7. ReservationHeld'
  BY <1>1, <1>2, <1>3, <1>4 DEF SettlementInv, ReservationHeld, RoundOf
<1>8. OneSettlementAtATime'
  <2> SUFFICES ASSUME NEW r \in RoundId
               PROVE  /\ \A q1, q2 \in Settling(r)' : q1 = q2
                      /\ guard'[r] = "submitted" => Settling(r)' # {}
    BY DEF OneSettlementAtATime
  <2>1. CASE r = s
    BY <2>1, <1>3, <1>5
  <2>2. CASE r # s
    BY <2>2, <1>3, <1>6 DEF SettlementInv, OneSettlementAtATime
  <2> QED BY <2>1, <2>2
<1> QED BY <1>7, <1>8 DEF SettlementInv

---------------------------------------------------------------------------
(* What the keeper has read about the end of a round stays true.           *)

\* The status a step gives to round r.
LEMMA StatusSet ==
    ASSUME IInvV2, NEW r \in RoundId, Stored(r), NEW status,
           roundV2' = [roundV2 EXCEPT ![r].status = status]
    PROVE  roundV2'[r].status = status
<1>1. roundV2[r] \in RoundRecord
  BY DEF IInvV2, TypeOKV2, Stored
<1>2. roundV2'[r] = [roundV2[r] EXCEPT !.status = status]
  BY DEF IInvV2, TypeOKV2
<1> QED BY <1>1, <1>2 DEF RoundRecord

\* A stored round stays stored, and one that has ended does not change again.
LEMMA EndedStays ==
    ASSUME IInvV2, [NextV2]_varsV2, NEW r \in RoundId, Stored(r)
    PROVE  /\ Stored(r)'
           /\ roundV2[r].status \in Terminal => roundV2'[r] = roundV2[r]
<1>1. Stored(r)'
  BY NextIInvV2 DEF StoredStays
<1>2. roundCounter \in Nat /\ r \in Nat /\ r <= roundCounter
  BY LedgerAssumption DEF IInvV2, TypeOKV2, LedgerTypeOK, Counted, RoundId
<1> DEFINE Kept == roundV2[r].status \in Terminal => roundV2'[r] = roundV2[r]
<1>3. ASSUME NEW op \in Account, NEW q \in RequestV2,
             CreateRoundV2(op, q) \/ CreatePartnerRoundV2(op, q) \/ CreateRoundV3(op, q)
      PROVE  Kept
  <2>1. PICK policy, version, reveal : CreateRoundV2Impl(op, q, policy, version, reveal)
    BY <1>3 DEF CreateRoundV2, CreatePartnerRoundV2, CreateRoundV3
  <2>2. r # roundCounter + 1
    BY <1>2
  <2>3. roundV2' = [roundV2 EXCEPT ![roundCounter + 1] = NewRound(op, q, version)]
    BY <2>1 DEF CreateRoundV2Impl, NextRoundId
  <2>4. roundV2'[r] = roundV2[r]
    BY <2>2, <2>3 DEF IInvV2, TypeOKV2
  <2> QED BY <2>4
<1>4. ASSUME NEW s \in RoundId, NEW x, roundV2' = [roundV2 EXCEPT ![s] = x],
             roundV2[s].status \notin Terminal
      PROVE  Kept
  BY <1>4 DEF IInvV2, TypeOKV2
<1>5. ASSUME NEW s \in RoundId, NEW b \in Account, NEW e \in Envelope, NEW x \in EscrowV2,
             CommitV2(s, b, e, x)
      PROVE  Kept
  BY <1>5, <1>4 DEF CommitV2, Terminal
<1>6. ASSUME NEW s \in RoundId, NEW c \in Account, OpenRevealV2(s, c) PROVE Kept
  BY <1>6, <1>4 DEF OpenRevealV2, Terminal
<1>7. ASSUME NEW s \in RoundId, NEW b \in Account, NEW e \in Envelope, RevealV2(s, b, e)
      PROVE  Kept
  BY <1>7 DEF RevealV2
<1>8. ASSUME NEW s \in RoundId, ClearV2(s) \/ SettleV2(s) \/ VoidV2(s) PROVE Kept
  <2>1. roundV2[s].status \notin Terminal
    BY <1>8 DEF ClearV2, SettleV2, VoidV2, Terminal
  <2>2. CASE SelectWinner(s)
    <3>1. PICK w, bid : roundV2' = [roundV2 EXCEPT ![s].status = "Cleared", ![s].winner = w,
                                                   ![s].winning_bid = bid]
      BY <2>2 DEF SelectWinner
    <3>2. r # s => roundV2'[r] = roundV2[r]
      BY <3>1 DEF IInvV2, TypeOKV2
    <3> QED BY <2>1, <3>2
  <2>3. CASE ~ SelectWinner(s)
    <3>1. PICK status : roundV2' = [roundV2 EXCEPT ![s].status = status]
      BY <1>8, <2>3 DEF ClearV2, SettleV2, VoidV2, FinalizeReceiptOnly, VoidForNoValidBid, VoidRound
    <3> QED BY <2>1, <3>1, <1>4
  <2> QED BY <2>2, <2>3
<1>9. ASSUME UNCHANGED varsV2 \/ (LedgerNext /\ UNCHANGED storageV2) PROVE Kept
  BY <1>9 DEF varsV2, storageV2
<1> HIDE DEF Kept
<1>10. Kept
  BY <1>3, <1>5, <1>6, <1>7, <1>8, <1>9 DEF NextV2, CallV2
<1> QED BY <1>1, <1>10 DEF Kept

---------------------------------------------------------------------------
(* Every step of a pass keeps the invariant.                               *)

Abandoned(r) == guard[r] = "terminal" \/ lastStatus[r] \in Terminal
Ended(r) == Stored(r) /\ roundV2[r].status \in Terminal

\* What a step of pass p gives: its own move, a sound guard, and no round
\* newly abandoned that has not ended.
Progress(p) ==
    /\ \E stage \in Stage : Moved(p, stage)
    /\ SettlementInv'
    /\ guard' \in [RoundId -> GuardStatus]
    /\ lastStatus' \in [RoundId -> Status \cup {"Unknown"}]
    /\ \A r \in RoundId : Abandoned(r)' => Abandoned(r) \/ Ended(r)'

\* A step outside settlement that leaves the guard and the queue alone.
LEMMA QuietProgress ==
    ASSUME IInvKeeper, NEW p \in Pass, NEW stage \in Stage, Moved(p, stage),
           pass[p].at # "settling", stage # "settling",
           guard' = guard, lastStatus' = lastStatus
    PROVE  Progress(p)
<1>1. KeeperShape /\ SettlementInv
  BY DEF IInvKeeper
<1>2. SettlementInv'
  BY <1>1, QuietStep
<1>3. guard' \in [RoundId -> GuardStatus] /\ lastStatus' \in [RoundId -> Status \cup {"Unknown"}]
  BY <1>1 DEF KeeperShape
<1>4. \A r \in RoundId : Abandoned(r)' => Abandoned(r)
  BY DEF Abandoned
<1> QED BY <1>2, <1>3, <1>4 DEF Progress

\* voidIfStale and the opening: a pass up to the reveal loop.
LEMMA OpeningProgress ==
    ASSUME IInvKeeper, NEW p \in Pass,
           \/ \E r \in RoundId : Start(p, r)
           \/ CheckStale(p) \/ SubmitVoid(p) \/ Keep(p) \/ SubmitOpen(p) \/ Sweep(p)
    PROVE  Progress(p)
<1>0. KeeperShape /\ IInvV2 /\ (pass[p].at # "idle" => Stored(RoundOf(p)))
  BY DEF IInvKeeper, RoundsStored
<1>1. guard' = guard /\ lastStatus' = lastStatus
  BY DEF Start, CheckStale, SubmitVoid, Keep, SubmitOpen, Sweep, ReadOnly
<1>2. pass[p].at # "settling"
  BY DEF Start, CheckStale, SubmitVoid, Keep, SubmitOpen, Sweep
<1>3. ASSUME NEW r \in RoundId, Start(p, r) PROVE Moved(p, "stale")
  <2>1. DOMAIN pass' = Pass /\ \A q \in Pass \ {p} : pass'[q] = pass[q]
    BY <1>0, <1>3 DEF Start, KeeperShape
  <2>2. pass'[p] = [Idle(None) EXCEPT !.at = "stale", !.round = r]
    BY <1>0, <1>3 DEF Start, KeeperShape
  <2>3. DOMAIN pass'[p] = PassField /\ pass'[p].at = "stale" /\ pass'[p].round = r
    BY <2>2 DEF Idle, PassField
  <2>4. pass[p].at = "idle"
    BY <1>3 DEF Start
  <2> QED BY <2>1, <2>3, <2>4 DEF Moved, PassShape, Stage
<1>4. CASE CheckStale(p)
  <2>1. pass[p].at # "idle" /\ \E stage \in {"void", "keep"} : Goto(p, stage)
    BY <1>4 DEF CheckStale
  <2> QED BY <1>0, <1>1, <1>2, <2>1, GotoMoves, QuietProgress DEF Stage
<1>5. CASE SubmitVoid(p)
  <2>1. pass[p].at # "idle" /\ (Goto(p, "keep") \/ \E error : Throw(p, error))
    BY <1>5 DEF SubmitVoid, Submit
  <2> QED BY <1>0, <1>1, <1>2, <2>1, GotoMoves, IdleMoves, QuietProgress DEF Stage, Throw
<1>6. CASE Keep(p)
  <2>1. pass[p].at # "idle" /\ (EnterLoop(p) \/ \E stage \in {"open", "close"} : Goto(p, stage))
    BY <1>6 DEF Keep
  <2> QED BY <1>0, <1>1, <1>2, <2>1, GotoMoves, EnterLoopMoves, QuietProgress DEF Stage
<1>7. CASE SubmitOpen(p)
  <2>1. pass[p].at # "idle" /\ (Goto(p, "sweep") \/ \E error : Throw(p, error))
    BY <1>7 DEF SubmitOpen, Submit
  <2> QED BY <1>0, <1>1, <1>2, <2>1, GotoMoves, IdleMoves, QuietProgress DEF Stage, Throw
<1>8. CASE Sweep(p)
  <2>1. pass[p].at # "idle" /\ (EnterLoop(p) \/ Goto(p, "close"))
    BY <1>8 DEF Sweep
  <2> QED BY <1>0, <1>1, <1>2, <2>1, GotoMoves, EnterLoopMoves, QuietProgress DEF Stage
<1>9. CASE \E r \in RoundId : Start(p, r)
  BY <1>1, <1>2, <1>3, <1>9, QuietProgress DEF Stage
<1> QED BY <1>4, <1>5, <1>6, <1>7, <1>8, <1>9

\* The reveal loop, one bidder at a time.
LEMMA LoopProgress ==
    ASSUME IInvKeeper, NEW p \in Pass, Look(p) \/ SubmitReveal(p)
    PROVE  Progress(p)
<1>0. KeeperShape
  BY DEF IInvKeeper
<1>1. guard' = guard /\ lastStatus' = lastStatus
  BY DEF Look, SubmitReveal, ReadOnly
<1>2. pass[p].at \in {"look", "reveal"}
  BY DEF Look, SubmitReveal
<1>3. CASE Look(p) /\ ~ Goto(p, "close") /\ ~ NextBidder(p)
  <2>1. PICK e \in Envelope : /\ pass[p].todo # <<>>
                              /\ pass' = [pass EXCEPT ![p].at = "reveal", ![p].envelope = e]
    BY <1>3 DEF Look, Opened, Matching
  <2>2. DOMAIN pass' = Pass /\ \A q \in Pass \ {p} : pass'[q] = pass[q]
    BY <1>0, <2>1 DEF KeeperShape
  <2>3. pass'[p] = [pass[p] EXCEPT !.at = "reveal", !.envelope = e]
    BY <1>0, <2>1 DEF KeeperShape
  <2>4. DOMAIN pass[p] = PassField /\ pass[p].round \in RoundId /\ pass[p].todo \in Seq(Account)
    BY <1>0, <1>2 DEF KeeperShape, PassShape
  <2>5. /\ DOMAIN pass'[p] = PassField
        /\ pass'[p].at = "reveal"
        /\ pass'[p].round = pass[p].round
        /\ pass'[p].todo = pass[p].todo
        /\ pass'[p].envelope = e
    BY <2>3, <2>4 DEF PassField
  <2>6. Moved(p, "reveal")
    BY <2>1, <2>2, <2>4, <2>5 DEF Moved, PassShape, Stage
  <2> QED BY <1>1, <1>2, <2>6, QuietProgress DEF Stage
<1>4. CASE Look(p) /\ Goto(p, "close")
  BY <1>0, <1>1, <1>2, <1>4, GotoMoves, QuietProgress DEF Stage
<1>5. CASE Look(p) /\ NextBidder(p) /\ ~ Goto(p, "close")
  <2>1. pass[p].todo # <<>>
    BY <1>5 DEF Look
  <2> QED BY <1>0, <1>1, <1>2, <1>5, <2>1, NextBidderMoves, QuietProgress DEF Stage
<1>6. CASE SubmitReveal(p)
  <2>1. pass[p].todo # <<>>
    BY <1>0, <1>6 DEF SubmitReveal, KeeperShape, PassShape
  <2>2. NextBidder(p) \/ \E error : Throw(p, error)
    BY <1>6 DEF SubmitReveal
  <2> QED BY <1>0, <1>1, <1>2, <2>1, <2>2, NextBidderMoves, IdleMoves, QuietProgress DEF Stage, Throw
<1> QED BY <1>3, <1>4, <1>5, <1>6

\* submitSettlement up to its await: reserved and dispatched, or skipped.
LEMMA ReserveProgress ==
    ASSUME IInvKeeper, NEW p \in Pass, pass[p].at \in {"close", "settle"}, Reserve(p),
           lastStatus' = lastStatus
    PROVE  Progress(p)
<1>0. KeeperShape /\ SettlementInv
  BY DEF IInvKeeper
<1> DEFINE s == RoundOf(p)
<1>1. s \in RoundId
  BY <1>0 DEF KeeperShape, PassShape, RoundOf
<1>2. CASE guard[s] = "pending"
  <2>1. guard' = [guard EXCEPT ![s] = "submitted"] /\ Moved(p, "settling")
    BY <1>0, <1>2, GotoMoves DEF Reserve, Stage
  <2>2. SettlementInv'
    BY <1>0, <1>1, <1>2, <2>1, ReserveStep
  <2>3. guard' \in [RoundId -> GuardStatus]
    BY <1>0, <2>1 DEF KeeperShape, GuardStatus
  <2>4. \A r \in RoundId : Abandoned(r)' => Abandoned(r)
    BY <1>0, <1>1, <2>1 DEF Abandoned, KeeperShape
  <2> QED BY <1>0, <2>1, <2>2, <2>3, <2>4 DEF Progress, KeeperShape, Stage
<1>3. CASE guard[s] # "pending"
  BY <1>0, <1>3, GotoMoves, QuietProgress DEF Reserve, Stage
<1> QED BY <1>2, <1>3

\* closeRoundV2 up to the settlement.
LEMMA ClosingProgress ==
    ASSUME IInvKeeper, NEW p \in Pass, Close(p) \/ SubmitClear(p) \/ AfterClear(p)
    PROVE  Progress(p)
<1>0. KeeperShape
  BY DEF IInvKeeper
<1>1. lastStatus' = lastStatus
  BY DEF Close, SubmitClear, AfterClear
<1>2. pass[p].at \in {"close", "clear", "settle"}
  BY DEF Close, SubmitClear, AfterClear
<1>3. CASE Close(p) \/ AfterClear(p)
  <2>1. pass[p].at \in {"close", "settle"}
    BY <1>3 DEF Close, AfterClear
  <2>2. Reserve(p) \/ (guard' = guard /\ \E stage \in {"finish", "clear"} : Goto(p, stage))
    BY <1>3 DEF Close, AfterClear
  <2> QED BY <1>0, <1>1, <2>1, <2>2, ReserveProgress, GotoMoves, QuietProgress DEF Stage
<1>4. CASE SubmitClear(p)
  <2>1. guard' = guard /\ (Goto(p, "settle") \/ \E error : Throw(p, error))
    BY <1>4 DEF SubmitClear, Submit
  <2> QED BY <1>0, <1>1, <1>2, <2>1, GotoMoves, IdleMoves, QuietProgress DEF Stage, Throw
<1> QED BY <1>3, <1>4

\* The end of a settlement attempt: terminal only if it settled the round.
LEMMA ReplyProgress ==
    ASSUME IInvKeeper, NEW p \in Pass, SettleReply(p)
    PROVE  Progress(p)
<1>0. KeeperShape /\ SettlementInv /\ IInvV2 /\ pass[p].at = "settling"
  BY DEF IInvKeeper, SettleReply
<1>1. PICK s \in RoundId : s = RoundOf(p)
  BY <1>0 DEF KeeperShape, PassShape, RoundOf
<1>2. PICK stage \in {"finish", "idle"} : Moved(p, stage)
  <2>1. Goto(p, "finish") \/ \E error : Throw(p, error)
    BY DEF SettleReply, Submit
  <2> QED BY <1>0, <2>1, GotoMoves, IdleMoves DEF Stage, Throw
<1>3. /\ lastStatus' = lastStatus
      /\ \/ roundV2'[s] # roundV2[s] /\ guard' = [guard EXCEPT ![s] = "terminal"]
         \/ guard' = [guard EXCEPT ![s] = "pending"]
  BY <1>1 DEF SettleReply, Released
<1>4. SettlementInv'
  BY <1>0, <1>1, <1>2, <1>3, ReleaseStep DEF Stage
<1>5. guard' \in [RoundId -> GuardStatus]
  BY <1>0, <1>3 DEF KeeperShape, GuardStatus
<1>6. roundV2'[s] # roundV2[s] => Ended(s)'
  <2>1. ASSUME roundV2'[s] # roundV2[s] PROVE SettleV2(s)
    BY <1>1, <2>1 DEF SettleReply, Submit, varsV2, storageV2
  <2>2. ASSUME SettleV2(s) PROVE Ended(s)'
    <3>1. Stored(s) /\ roundV2' = [roundV2 EXCEPT ![s].status = "Settled"]
      BY <2>2 DEF SettleV2
    <3>2. roundV2'[s].status = "Settled"
      BY <1>0, <1>1, <3>1, StatusSet
    <3>3. Stored(s)'
      BY <1>0, <1>1, <2>2, <3>1, EndedStays DEF NextV2, CallV2
    <3> QED BY <3>2, <3>3 DEF Ended, Stored, Terminal
  <2> QED BY <2>1, <2>2
<1>7. \A r \in RoundId : Abandoned(r)' => Abandoned(r) \/ Ended(r)'
  BY <1>0, <1>1, <1>3, <1>6 DEF Abandoned, KeeperShape
<1> QED BY <1>0, <1>2, <1>3, <1>4, <1>5, <1>7 DEF Progress, KeeperShape, Stage

\* The last read of a pass: terminal only if the round is.
LEMMA FinishProgress ==
    ASSUME IInvKeeper, NEW p \in Pass, Finish(p)
    PROVE  Progress(p)
<1>0. /\ KeeperShape /\ SettlementInv /\ IInvV2 /\ pass[p].at = "finish"
      /\ Stored(RoundOf(p)) /\ roundV2' = roundV2
  BY DEF IInvKeeper, RoundsStored, Finish, varsV2, storageV2
<1> DEFINE s == RoundOf(p)
<1>1. s \in RoundId
  BY <1>0 DEF KeeperShape, PassShape, RoundOf
<1>2. roundV2[s].status \in Status
  BY <1>0, <1>1 DEF IInvV2, TypeOKV2, Stored, RoundRecord
<1>3. Moved(p, "idle")
  BY <1>0, IdleMoves DEF Finish
<1>4. /\ lastStatus' = [lastStatus EXCEPT ![s] = roundV2[s].status]
      /\ \/ guard' = guard
         \/ roundV2[s].status \in Terminal /\ guard' = [guard EXCEPT ![s] = "terminal"]
  BY DEF Finish, StatusOf
<1>5. SettlementInv'
  BY <1>0, <1>1, <1>3, <1>4, QuietStep DEF Stage
<1>6. guard' \in [RoundId -> GuardStatus] /\ lastStatus' \in [RoundId -> Status \cup {"Unknown"}]
  BY <1>0, <1>2, <1>4 DEF KeeperShape, GuardStatus
<1>7. \A r \in RoundId : Abandoned(r)' => Abandoned(r) \/ Ended(r)'
  BY <1>0, <1>1, <1>4 DEF Abandoned, KeeperShape, Ended, Stored
<1> QED BY <1>3, <1>5, <1>6, <1>7 DEF Progress, Stage

\* Calls of others, and every call of the keeper, leave the ends of rounds as
\* they are, so what a pass or the queue has learnt of them stays true.
LEMMA ProgressKeeps ==
    ASSUME IInvKeeper, [NextV2]_varsV2, NEW p \in Pass, Progress(p),
           RoundsStored'
    PROVE  IInvKeeper'
<1>1. IInvV2 /\ KeeperShape /\ NothingAbandoned
  BY DEF IInvKeeper
<1>2. IInvV2'
  BY <1>1, NextIInvV2
<1>3. PICK stage \in Stage : Moved(p, stage)
  BY DEF Progress
<1>4. \A q \in Pass : PassShape(q)'
  <2>1. PassShape(p)'
    BY <1>3 DEF Moved
  <2>2. ASSUME NEW q \in Pass \ {p} PROVE PassShape(q)'
    BY <1>1, <1>3, <2>2 DEF Moved, KeeperShape, PassShape
  <2> QED BY <2>1, <2>2
<1>5. KeeperShape'
  BY <1>3, <1>4 DEF KeeperShape, Progress, Moved
<1>6. NothingAbandoned'
  <2> SUFFICES ASSUME NEW r \in RoundId, Abandoned(r)' PROVE Ended(r)'
    BY DEF NothingAbandoned, Abandoned, Ended
  <2>1. CASE Ended(r)'
    BY <2>1
  <2>2. CASE Abandoned(r)
    <3>1. Stored(r) /\ roundV2[r].status \in Terminal
      BY <1>1, <2>2 DEF NothingAbandoned, Abandoned
    <3> QED BY <1>1, <3>1, EndedStays DEF Ended
  <2> QED BY <2>1, <2>2 DEF Progress
<1> QED BY <1>2, <1>5, <1>6 DEF IInvKeeper, Progress

\* The rounds of passes under way stay stored.
LEMMA MovedStored ==
    ASSUME IInvKeeper, [NextV2]_varsV2, NEW p \in Pass, NEW stage, Moved(p, stage),
           pass[p].at # "idle"
    PROVE  RoundsStored'
<1>1. IInvV2 /\ KeeperShape /\ RoundsStored
  BY DEF IInvKeeper
<1> SUFFICES ASSUME NEW q \in Pass, pass'[q].at # "idle" PROVE Stored(RoundOf(q))'
  BY DEF RoundsStored
<1>2. pass[q].at # "idle" /\ pass'[q].round = pass[q].round
  BY DEF Moved
<1>3. PICK s \in RoundId : s = pass[q].round
  BY <1>1, <1>2 DEF KeeperShape, PassShape
<1>4. Stored(s)'
  BY <1>1, <1>2, <1>3, EndedStays DEF RoundsStored, RoundOf
<1> QED BY <1>2, <1>3, <1>4 DEF RoundOf, Stored

\* The keeper as written never acts on a round's behalf other than by calls
\* of the contract that anybody may make.
LEMMA WorkIsRoundStep ==
    ASSUME IInvKeeper, NEW p \in Pass, Work(p)
    PROVE  [NextV2]_varsV2
<1>1. CASE \/ SubmitVoid(p) \/ SubmitOpen(p) \/ SubmitReveal(p) \/ SubmitClear(p)
           \/ SettleReply(p)
  <2>1. KeeperShape /\ pass[p].at # "idle"
    BY <1>1 DEF IInvKeeper, SubmitVoid, SubmitOpen, SubmitReveal, SubmitClear, SettleReply
  <2> QED BY <1>1, <2>1, SubmitIsCall
<1>2. CASE \/ \E r \in RoundId : Start(p, r)
           \/ CheckStale(p) \/ Keep(p) \/ Sweep(p) \/ Look(p) \/ Close(p) \/ AfterClear(p)
           \/ Finish(p)
  BY <1>2 DEF Start, CheckStale, Keep, Sweep, Look, Close, AfterClear, Finish, ReadOnly
<1> QED BY <1>1, <1>2 DEF Work

\* A step of one pass.
LEMMA WorkStep ==
    ASSUME IInvKeeper, NEW p \in Pass, Work(p)
    PROVE  IInvKeeper'
<1>1. [NextV2]_varsV2
  BY WorkIsRoundStep
<1>2. Progress(p)
  BY OpeningProgress, LoopProgress, ClosingProgress, ReplyProgress, FinishProgress DEF Work
<1>3. RoundsStored'
  <2>1. CASE pass[p].at # "idle"
    BY <1>1, <1>2, <2>1, MovedStored DEF Progress
  <2>2. CASE pass[p].at = "idle"
    <3>1. PICK r \in RoundId : Start(p, r)
      BY <2>2 DEF Work, CheckStale, SubmitVoid, Keep, SubmitOpen, Sweep, Look, SubmitReveal,
         Close, SubmitClear, AfterClear, SettleReply, Finish
    <3>2. KeeperShape /\ RoundsStored
      BY DEF IInvKeeper
    <3>3. /\ pass'[p] = [Idle(None) EXCEPT !.at = "stale", !.round = r]
          /\ \A q \in Pass \ {p} : pass'[q] = pass[q]
          /\ roundV2' = roundV2 /\ Stored(r)
      BY <3>1, <3>2 DEF Start, KeeperShape, ReadOnly, varsV2, storageV2
    <3>4. pass'[p].round = r
      BY <3>3 DEF Idle
    <3> QED BY <3>2, <3>3, <3>4 DEF RoundsStored, RoundOf, Stored
  <2> QED BY <2>1, <2>2
<1> QED BY <1>1, <1>2, <1>3, ProgressKeeps

\* A failing call: only an attempt at settlement gives a reservation back.
LEMMA FaultStep ==
    ASSUME IInvKeeper, NEW p \in Pass, Fault(p)
    PROVE  IInvKeeper'
<1>0. /\ KeeperShape /\ SettlementInv /\ IInvV2 /\ pass[p].at # "idle"
      /\ UNCHANGED varsV2 /\ lastStatus' = lastStatus
  BY DEF IInvKeeper, Fault
<1>1. Moved(p, "idle")
  BY <1>0, IdleMoves DEF Fault, Throw
<1>2. PICK s \in RoundId : s = RoundOf(p)
  BY <1>0 DEF KeeperShape, PassShape, RoundOf
<1>3. guard' = IF pass[p].at = "settling" THEN [guard EXCEPT ![s] = "pending"] ELSE guard
  BY <1>2 DEF Fault, GuardAfterFault, Released
<1>4. SettlementInv'
  <2>1. CASE pass[p].at = "settling"
    BY <1>0, <1>1, <1>2, <1>3, <2>1, ReleaseStep DEF Stage
  <2>2. CASE pass[p].at # "settling"
    BY <1>0, <1>1, <1>3, <2>2, QuietStep DEF Stage
  <2> QED BY <2>1, <2>2
<1>5. guard' \in [RoundId -> GuardStatus]
  BY <1>0, <1>3 DEF KeeperShape, GuardStatus
<1>6. \A r \in RoundId : Abandoned(r)' => Abandoned(r)
  BY <1>0, <1>2, <1>3 DEF Abandoned, KeeperShape
<1>7. Progress(p)
  BY <1>0, <1>1, <1>4, <1>5, <1>6 DEF Progress, KeeperShape, Stage
<1>8. RoundsStored'
  BY <1>0, <1>1, MovedStored
<1> QED BY <1>0, <1>7, <1>8, ProgressKeeps

\* A bidder passed over.
LEMMA SkipStep ==
    ASSUME IInvKeeper, NEW p \in Pass, SkipUnread(p)
    PROVE  IInvKeeper'
<1>0. /\ KeeperShape /\ pass[p].at = "look" /\ pass[p].todo # <<>>
      /\ UNCHANGED varsV2 /\ guard' = guard /\ lastStatus' = lastStatus
  BY DEF IInvKeeper, SkipUnread
<1>1. DOMAIN pass' = Pass /\ \A q \in Pass \ {p} : pass'[q] = pass[q]
  BY <1>0 DEF SkipUnread, KeeperShape
<1>2. pass'[p] = [pass[p] EXCEPT !.todo = Tail(@), !.skipped = @ \cup {Head(pass[p].todo)}]
  BY <1>0 DEF SkipUnread, KeeperShape
<1>3. DOMAIN pass[p] = PassField /\ pass[p].round \in RoundId /\ pass[p].todo \in Seq(Account)
  BY <1>0 DEF KeeperShape, PassShape
<1>4. /\ DOMAIN pass'[p] = PassField
      /\ pass'[p].at = "look"
      /\ pass'[p].round = pass[p].round
      /\ pass'[p].todo = Tail(pass[p].todo)
  BY <1>0, <1>2, <1>3 DEF PassField
<1>5. Tail(pass[p].todo) \in Seq(Account)
  BY <1>0, <1>3
<1>6. Moved(p, "look")
  BY <1>1, <1>3, <1>4, <1>5 DEF Moved, PassShape, Stage
<1>7. Progress(p)
  BY <1>0, <1>6, QuietProgress DEF Stage
<1>8. RoundsStored'
  BY <1>0, <1>6, MovedStored
<1> QED BY <1>0, <1>7, <1>8, ProgressKeeps

\* A restart forgets every pass and the whole guard, but not the queue.
LEMMA RestartStep == IInvKeeper /\ Restart => IInvKeeper'
<1> SUFFICES ASSUME IInvKeeper, Restart PROVE IInvKeeper'
  OBVIOUS
<1>1. IInvV2 /\ KeeperShape /\ NothingAbandoned /\ UNCHANGED varsV2 /\ lastStatus' = lastStatus
  BY DEF IInvKeeper, Restart
<1>2. IInvV2'
  BY <1>1, NextIInvV2
<1>3. \A p \in Pass : DOMAIN pass'[p] = PassField /\ pass'[p].at = "idle"
  BY DEF Restart, Idle, PassField
<1>4. \A r \in RoundId : guard'[r] = "pending"
  BY DEF Restart
<1>5. KeeperShape'
  BY <1>1, <1>3 DEF KeeperShape, PassShape, Restart, GuardStatus, Stage
<1>6. RoundsStored' /\ ReservationHeld'
  BY <1>3 DEF RoundsStored, ReservationHeld
<1>7. OneSettlementAtATime'
  BY <1>3, <1>4 DEF OneSettlementAtATime, Settling
<1>8. NothingAbandoned'
  BY <1>1, <1>4 DEF NothingAbandoned, varsV2, storageV2, Stored
<1> QED BY <1>2, <1>5, <1>6, <1>7, <1>8 DEF IInvKeeper, SettlementInv

\* A call of somebody else, a ledger close or a beacon.
LEMMA OtherStep ==
    ASSUME IInvKeeper, [NextV2]_varsV2, UNCHANGED keeperVars
    PROVE  IInvKeeper'
<1>1. IInvV2 /\ KeeperShape /\ RoundsStored /\ SettlementInv /\ NothingAbandoned
  BY DEF IInvKeeper
<1>2. pass' = pass /\ guard' = guard /\ lastStatus' = lastStatus
  BY DEF keeperVars
<1>3. IInvV2'
  BY <1>1, NextIInvV2
<1>4. KeeperShape'
  BY <1>1, <1>2 DEF KeeperShape, PassShape
<1>5. RoundsStored'
  <2> SUFFICES ASSUME NEW p \in Pass, pass[p].at # "idle" PROVE Stored(RoundOf(p))'
    BY <1>2 DEF RoundsStored
  <2>1. PICK s \in RoundId : s = pass[p].round
    BY <1>1 DEF KeeperShape, PassShape
  <2>2. Stored(s)'
    BY <1>1, <2>1, EndedStays DEF RoundsStored, RoundOf
  <2> QED BY <1>2, <2>1, <2>2 DEF RoundOf, Stored
<1>6. SettlementInv'
  BY <1>1, <1>2 DEF SettlementInv, ReservationHeld, OneSettlementAtATime, Settling, RoundOf
<1>7. NothingAbandoned'
  BY <1>1, <1>2, EndedStays DEF NothingAbandoned
<1> QED BY <1>3, <1>4, <1>5, <1>6, <1>7 DEF IInvKeeper

\* Initially no pass is under way and nothing is stored.
LEMMA InitIInvKeeper == KeeperInit => IInvKeeper
<1> SUFFICES ASSUME KeeperInit PROVE IInvKeeper
  OBVIOUS
<1>1. IInvV2
  BY InitIInvV2 DEF KeeperInit
<1>2. \A p \in Pass : DOMAIN pass[p] = PassField /\ pass[p].at = "idle"
  BY DEF KeeperInit, Idle, PassField
<1>3. KeeperShape
  BY <1>2 DEF KeeperInit, KeeperShape, PassShape, GuardStatus, Stage
<1>4. RoundsStored /\ ReservationHeld
  BY <1>2 DEF RoundsStored, ReservationHeld
<1>5. OneSettlementAtATime
  BY <1>2 DEF KeeperInit, OneSettlementAtATime, Settling
<1>6. NothingAbandoned
  BY DEF KeeperInit, NothingAbandoned, Terminal
<1> QED BY <1>1, <1>3, <1>4, <1>5, <1>6 DEF IInvKeeper, SettlementInv

\* Every step of the keeper process and of everybody else keeps the invariant.
LEMMA NextIInvKeeper == IInvKeeper /\ [KeeperNext]_keeperAllVars => IInvKeeper'
<1> SUFFICES ASSUME IInvKeeper, [KeeperNext]_keeperAllVars PROVE IInvKeeper'
  OBVIOUS
<1>1. CASE UNCHANGED keeperAllVars
  BY <1>1, OtherStep DEF keeperAllVars
<1>2. CASE NextV2 /\ UNCHANGED keeperVars
  BY <1>2, OtherStep
<1> QED BY <1>1, <1>2, WorkStep, FaultStep, SkipStep, RestartStep DEF KeeperNext

\* Seen from the chain, a keeper that is scheduled, fails and restarts at any
\* point takes only steps the contract allows anybody.
LEMMA NextIsRoundStep == IInvKeeper /\ [KeeperNext]_keeperAllVars => [NextV2]_varsV2
BY WorkIsRoundStep DEF KeeperNext, keeperAllVars, Fault, SkipUnread, Restart

---------------------------------------------------------------------------
(* The error codes: the first condition that fails decides.                *)

\* The answer of a call is its first failed check, or none failed.
LEMMA FirstFailedFacts ==
    ASSUME NEW checks, DOMAIN checks \in SUBSET Nat
    PROVE  \/ FirstFailed(checks) = Ok /\ \A i \in DOMAIN checks : ~ checks[i][1]
           \/ \E i \in DOMAIN checks : checks[i][1] /\ FirstFailed(checks) = checks[i][2]
<1> DEFINE failed == {i \in DOMAIN checks : checks[i][1]}
<1>1. CASE failed = {}
  BY <1>1 DEF FirstFailed
<1>2. CASE failed # {}
  <2>1. \E i \in failed : \A j \in failed : i <= j
    <3>1. failed \subseteq Nat
      OBVIOUS
    <3>2. PICK i \in failed : \A j \in failed : ~ (<<j, i>> \in OpToRel(<, Nat))
      BY <1>2, <3>1, NatLessThanWellFounded, WFMin, Zenon
    <3>3. \A j \in failed : ~ (j < i)
      BY <3>1, <3>2 DEF OpToRel
    <3> QED BY <3>1, <3>3
  <2>2. PICK i \in failed : FirstFailed(checks) = checks[i][2]
    BY <1>2, <2>1 DEF FirstFailed
  <2> QED BY <2>2
<1> QED BY <1>1, <1>2

\* A reveal of a round in its reveal phase fails for what this bidder sealed
\* or for its window.
LEMMA RevealErrorFacts ==
    ASSUME NEW r, NEW b, NEW e
    PROVE  /\ RevealError(r, b, e) \in {Ok} \cup ErrorCode
           /\ roundV2[r].status = "Revealing" => RevealError(r, b, e) \in {Ok} \cup ToleratedReveal
<1> DEFINE round == roundV2[r]
           auction == round.mode = "Auction"
           amount == IF e.amount = None THEN 0 ELSE e.amount
           checks == <<
            <<round.status = "Settled", "AlreadySettled">>,
            <<round.status = "Voided", "RoundVoided">>,
            <<round.status # "Revealing", "RevealNotOpen">>,
            <<now > round.reveal_deadline, "RevealWindowClosed">>,
            <<SubmissionOf(r, b).revealed_envelope # None, "AlreadyRevealed">>,
            <<SubmissionOf(r, b).commitment # Sha256(e), "HashMismatch">>,
            <<~ e.decodes, "MalformedPayload">>,
            <<auction /\ e.amount = None, "MalformedPayload">>,
            <<auction /\ amount <= 0, "InvalidAmount">>,
            <<auction /\ amount > SubmissionOf(r, b).escrow, "BidExceedsEscrow">>,
            <<~ auction /\ SubmissionOf(r, b).escrow # 0, "EscrowNotAllowed">> >>
<1>1. RevealError(r, b, e) = FirstFailed(checks)
  BY DEF RevealError
<1>2. DOMAIN checks = 1 .. 11
  OBVIOUS
<1>3. /\ checks[1][1] <=> round.status = "Settled"
      /\ checks[2][1] <=> round.status = "Voided"
      /\ checks[3][1] <=> round.status # "Revealing"
  OBVIOUS
<1>4. \A i \in 1 .. 11 : checks[i][2] \in ErrorCode
  BY DEF ErrorCode
<1>5. \A i \in 4 .. 11 : checks[i][2] \in ToleratedReveal
  BY DEF ToleratedReveal, InvalidSubmission
<1> HIDE DEF checks
<1>6. FirstFailed(checks) = Ok \/ \E i \in 1 .. 11 : checks[i][1] /\ FirstFailed(checks) = checks[i][2]
  BY <1>2, FirstFailedFacts
<1>7. \A i \in 1 .. 11 : i = 1 \/ i = 2 \/ i = 3 \/ i \in 4 .. 11
  OBVIOUS
<1> QED BY <1>1, <1>3, <1>4, <1>5, <1>6, <1>7

---------------------------------------------------------------------------
(* The reveal phase: what a pass has seen of a round that is past its      *)
(* commits stays true until the round's reveal deadline.                   *)

\* A round is decided or ended only after its reveal deadline.
EndsLate(r) ==
    roundV2[r].status \in {"Cleared", "Settled", "Voided"} => now > roundV2[r].reveal_deadline

\* What has been revealed was accepted as valid.
RevealedIsValid(r) ==
    \A b \in Account :
        Committed(r, b) /\ SubmissionOf(r, b).revealed_envelope # None => SubmissionOf(r, b).valid

RevealSound(r) == Stored(r) => EndsLate(r) /\ RevealedIsValid(r)

RevealsSound == \A r \in RoundId : RevealSound(r)

\* A step past the commits: terms and seals stay, valid bids stay valid.
SealsStay(r) ==
    /\ roundV2'[r].status # "Open" /\ now <= now'
    /\ roundV2'[r].mode = roundV2[r].mode
    /\ roundV2'[r].reveal_deadline = roundV2[r].reveal_deadline
    /\ \A b \in Account :
        /\ Committed(r, b)' <=> Committed(r, b)
        /\ Committed(r, b) =>
               /\ SubmissionOf(r, b)'.commitment = SubmissionOf(r, b).commitment
               /\ SubmissionOf(r, b)'.escrow = SubmissionOf(r, b).escrow
               /\ SubmissionOf(r, b).valid => SubmissionOf(r, b)'.valid

Onward(r) ==
    /\ RevealSound(r)'
    /\ Stored(r) /\ roundV2[r].status # "Open" => SealsStay(r)

\* A round the step is not about.
LEMMA SameOnward ==
    ASSUME TypeOKV2, NEW r \in RoundId, RevealSound(r), roundV2'[r] = roundV2[r],
           submissionV2'[r] = submissionV2[r], now' \in Int, now <= now'
    PROVE  Onward(r)
<1>1. RevealedIsValid(r) => RevealedIsValid(r)'
  BY DEF RevealedIsValid, Committed, SubmissionOf
<1>2. now \in Int /\ (Stored(r) => roundV2[r].reveal_deadline \in Int)
  BY U64Assumption, LedgerAssumption DEF TypeOKV2, LedgerTypeOK, Stored, RoundRecord, Time
<1>3. Stored(r) /\ EndsLate(r) => EndsLate(r)'
  BY <1>2 DEF EndsLate
<1> QED BY <1>1, <1>3 DEF Onward, RevealSound, SealsStay, Stored, Committed, SubmissionOf

\* A new round is open and has no submission.
LEMMA CreateOnward ==
    ASSUME IInvV2, NEW operator \in Account, NEW q \in RequestV2, NEW policy, NEW version,
           NEW reveal, CreateRoundV2Impl(operator, q, policy, version, reveal),
           NEW r \in RoundId, RevealSound(r)
    PROVE  Onward(r)
<1>1. /\ roundCounter < MaxRounds /\ roundCounter \in 0 .. MaxRounds /\ MaxRounds \in Nat
  BY LedgerAssumption DEF CreateRoundV2Impl, IInvV2, TypeOKV2, LedgerTypeOK
<1> PICK id \in RoundId : id = NextRoundId
  BY <1>1 DEF NextRoundId, RoundId
<1>2. /\ roundV2' = [roundV2 EXCEPT ![id] = NewRound(operator, q, version)]
      /\ submissionV2' = submissionV2 /\ now' = now
  BY DEF CreateRoundV2Impl
<1>3. now \in Int
  BY LedgerAssumption, U64Assumption DEF IInvV2, TypeOKV2, LedgerTypeOK, Time
<1>4. CASE r # id
  BY <1>2, <1>3, <1>4, SameOnward DEF IInvV2, TypeOKV2
<1>5. CASE r = id
  <2>1. ~ Stored(r)
    BY <1>1, <1>5 DEF IInvV2, Counted, NextRoundId
  <2>2. \A x \in Account : ~ Committed(r, x)
    BY <2>1, EmptyIndex DEF IInvV2, RoundInv, IndexExact
  <2>3. roundV2'[r].status = "Open"
    <3>1. roundV2'[r] = NewRound(operator, q, version)
      BY <1>2, <1>5 DEF IInvV2, TypeOKV2
    <3> QED BY <3>1 DEF NewRound
  <2> QED BY <1>2, <2>1, <2>2, <2>3 DEF Onward, RevealSound, EndsLate, RevealedIsValid, Committed
<1> QED BY <1>4, <1>5

\* commit_v2 acts on open rounds only and seals afresh.
LEMMA CommitOnward ==
    ASSUME IInvV2, NEW r \in RoundId, NEW b \in Account, NEW e \in Envelope,
           NEW escrow \in EscrowV2, CommitV2(r, b, e, escrow), RevealSound(r)
    PROVE  Onward(r)
<1> DEFINE new == [commitment |-> Sha256(e), escrow |-> escrow, revealed_envelope |-> None,
                   revealed_amount |-> None, valid |-> FALSE, settled |-> FALSE]
           round == [roundV2[r] EXCEPT !.bidders = IndexWith(r, b)]
<1>1. Stored(r) /\ roundV2[r].status = "Open" /\ roundV2[r] \in RoundRecord
  BY DEF CommitV2, IInvV2, TypeOKV2, Stored
<1>2. /\ submissionV2' = [submissionV2 EXCEPT ![r] = [submissionV2[r] EXCEPT ![b] = new]]
      /\ roundV2' = [roundV2 EXCEPT ![r] = round]
  BY DEF CommitV2
<1>3. round.status = "Open"
  BY <1>1 DEF RoundRecord
<1>4. new.revealed_envelope = None
  OBVIOUS
<1> HIDE DEF new, round
<1>5. /\ roundV2'[r].status = "Open" /\ submissionV2'[r][b] = new
      /\ \A x \in Account \ {b} : submissionV2'[r][x] = submissionV2[r][x]
  BY <1>2, <1>3 DEF IInvV2, TypeOKV2
<1>6. RevealedIsValid(r)'
  BY <1>1, <1>4, <1>5 DEF RevealSound, RevealedIsValid, Committed, SubmissionOf
<1> QED BY <1>1, <1>5, <1>6 DEF Onward, RevealSound, EndsLate

\* open_reveal_v2 and the choice of a winner leave the submissions alone.
LEMMA StatusOnward ==
    ASSUME IInvV2, NEW r \in RoundId, TermsKept(r), RevealSound(r),
           submissionV2'[r] = submissionV2[r], now' = now,
           \/ roundV2'[r].status = "Revealing"
           \/ roundV2'[r].status = "Cleared" /\ now > roundV2[r].reveal_deadline
    PROVE  Onward(r)
<1>1. now <= now
  BY LedgerAssumption, U64Assumption DEF IInvV2, TypeOKV2, LedgerTypeOK, Time
<1>2. RevealedIsValid(r)'
  BY DEF RevealSound, TermsKept, RevealedIsValid, Committed, SubmissionOf
<1> QED BY <1>1, <1>2 DEF Onward, RevealSound, EndsLate, TermsKept, SealsStay, Committed, SubmissionOf

\* reveal_v2 makes the revealed bid valid.
LEMMA RevealOnward ==
    ASSUME IInvV2, NEW r \in RoundId, NEW b \in Account, NEW e \in Envelope, RevealV2(r, b, e),
           RevealSound(r)
    PROVE  Onward(r) /\ SubmissionOf(r, b)'.valid
<1> DEFINE new == [submissionV2[r][b] EXCEPT !.revealed_envelope = e,
                                             !.revealed_amount = e.amount, !.valid = TRUE]
<1>1. /\ submissionV2[r][b] \in SubmissionRecord /\ e.amount \in Int \cup {None}
      /\ Stored(r) /\ roundV2[r].status = "Revealing" /\ Committed(r, b)
  BY RoundV2Assumption DEF RevealV2, Committed, IInvV2, TypeOKV2
<1>2. /\ submissionV2' = [submissionV2 EXCEPT ![r] = [submissionV2[r] EXCEPT ![b] = new]]
      /\ roundV2' = roundV2 /\ now' = now
  BY DEF RevealV2, ledgerVars
<1>3. /\ new.escrow = submissionV2[r][b].escrow /\ new.valid
      /\ new.commitment = submissionV2[r][b].commitment /\ new # None
  <2>1. new \in SubmissionRecord
    BY <1>1 DEF SubmissionRecord
  <2> QED BY <1>1, <2>1, NoneIsNoValue DEF SubmissionRecord
<1> HIDE DEF new
<1>4. /\ submissionV2'[r][b] = new
      /\ \A x \in Account \ {b} : submissionV2'[r][x] = submissionV2[r][x]
  BY <1>2 DEF IInvV2, TypeOKV2
<1>5. RevealSound(r)'
  BY <1>1, <1>2, <1>3, <1>4 DEF RevealSound, EndsLate, RevealedIsValid, Committed, SubmissionOf
<1>6. now <= now
  BY LedgerAssumption, U64Assumption DEF IInvV2, TypeOKV2, LedgerTypeOK, Time
<1>7. SealsStay(r)
  BY <1>1, <1>2, <1>3, <1>4, <1>6 DEF SealsStay, Committed, SubmissionOf
<1> QED BY <1>3, <1>4, <1>5, <1>7 DEF Onward, SubmissionOf

\* clear_v2, settle_v2 and void_v2 end a round after its reveal deadline.
LEMMA EndOnward ==
    ASSUME IInvV2, NEW r \in RoundId, Stored(r), NEW status \in {"Settled", "Voided"},
           roundV2' = [roundV2 EXCEPT ![r].status = status],
           submissionV2' = AllSettled(r) \/ submissionV2' = submissionV2,
           now > roundV2[r].reveal_deadline, now' = now, RevealSound(r)
    PROVE  Onward(r)
<1>1. TermsKept(r) /\ roundV2'[r].status = status
  BY StatusKeepsTerms DEF IInvV2, Status
<1>2. ASSUME NEW b \in Account
      PROVE  /\ Committed(r, b)' <=> Committed(r, b)
             /\ Committed(r, b) =>
                    /\ SubmissionOf(r, b)'.commitment = SubmissionOf(r, b).commitment
                    /\ SubmissionOf(r, b)'.escrow = SubmissionOf(r, b).escrow
                    /\ SubmissionOf(r, b)'.valid = SubmissionOf(r, b).valid
                    /\ SubmissionOf(r, b)'.revealed_envelope = SubmissionOf(r, b).revealed_envelope
  BY AllSettledFacts DEF Committed, SubmissionOf
<1>3. now <= now
  BY LedgerAssumption, U64Assumption DEF IInvV2, TypeOKV2, LedgerTypeOK, Time
<1>4. RevealSound(r)'
  BY <1>1, <1>2 DEF RevealSound, EndsLate, RevealedIsValid, TermsKept
<1>5. SealsStay(r)
  BY <1>1, <1>2, <1>3 DEF SealsStay, TermsKept
<1> QED BY <1>4, <1>5 DEF Onward

\* A call about round s, seen from round r.
LEMMA CallOnward ==
    ASSUME IInvV2, RevealsSound, CallV2, NEW r \in RoundId
    PROVE  Onward(r)
<1>0. RevealSound(r) /\ TypeOKV2 /\ now \in Int /\ now <= now
  BY LedgerAssumption, U64Assumption DEF RevealsSound, IInvV2, TypeOKV2, LedgerTypeOK, Time
<1>1. ASSUME NEW op \in Account, NEW q \in RequestV2,
             CreateRoundV2(op, q) \/ CreatePartnerRoundV2(op, q) \/ CreateRoundV3(op, q)
      PROVE  Onward(r)
  BY <1>0, <1>1, CreateOnward DEF CreateRoundV2, CreatePartnerRoundV2, CreateRoundV3
<1>2. ASSUME NEW s \in RoundId, OthersKept(s), now' = now, s = r => Onward(r) PROVE Onward(r)
  BY <1>0, <1>2, SameOnward DEF OthersKept
<1>3. ASSUME NEW s \in RoundId, NEW b \in Account, NEW e \in Envelope, NEW x \in EscrowV2,
             CommitV2(s, b, e, x)
      PROVE  Onward(r)
  <2>1. now' = now /\ OthersKept(s)
    BY <1>3, CommitKeepsTerms DEF CommitV2
  <2> QED BY <1>0, <1>2, <1>3, <2>1, CommitOnward
<1>4. ASSUME NEW s \in RoundId, NEW c \in Account, OpenRevealV2(s, c) PROVE Onward(r)
  <2>1. /\ TermsKept(s) /\ roundV2'[s].status = "Revealing" /\ OthersKept(s)
        /\ submissionV2' = submissionV2 /\ now' = now
    BY <1>4, StatusKeepsTerms DEF OpenRevealV2, IInvV2, Status, OthersKept, ledgerVars
  <2> QED BY <1>0, <1>2, <2>1, StatusOnward
<1>5. ASSUME NEW s \in RoundId, NEW b \in Account, NEW e \in Envelope, RevealV2(s, b, e)
      PROVE  Onward(r)
  <2>1. now' = now /\ OthersKept(s)
    BY <1>5 DEF RevealV2, OthersKept, ledgerVars, IInvV2, TypeOKV2
  <2> QED BY <1>0, <1>2, <1>5, <2>1, RevealOnward
<1>6. ASSUME NEW s \in RoundId, Stored(s), NEW status \in {"Settled", "Voided"},
             roundV2' = [roundV2 EXCEPT ![s].status = status],
             submissionV2' = AllSettled(s) \/ submissionV2' = submissionV2,
             now > roundV2[s].reveal_deadline, now' = now
      PROVE  Onward(r)
  <2>1. OthersKept(s)
    <3>1. \A t \in RoundId \ {s} : roundV2'[t] = roundV2[t]
      BY <1>0, <1>6, StatusKeepsTerms DEF Status
    <3> QED BY <1>6, <3>1, AllSettledFacts DEF OthersKept
  <2> QED BY <1>0, <1>2, <1>6, <2>1, EndOnward
<1>7. ASSUME NEW s \in RoundId, ClearV2(s) PROVE Onward(r)
  <2>1. Stored(s) /\ now > roundV2[s].reveal_deadline /\ now' = now
    BY <1>7 DEF ClearV2
  <2>2. CASE FinalizeReceiptOnly(s) \/ VoidForNoValidBid(s)
    BY <1>6, <2>1, <2>2 DEF FinalizeReceiptOnly, VoidForNoValidBid, VoidRound, RefundAllV2
  <2>3. CASE SelectWinner(s)
    <3>1. /\ TermsKept(s) /\ OthersKept(s) /\ roundV2'[s].status = "Cleared"
          /\ submissionV2' = submissionV2
      BY <1>7, <2>3, SelectKeepsTerms DEF SelectWinner
    <3> QED BY <1>0, <1>2, <2>1, <3>1, StatusOnward
  <2> QED BY <1>7, <2>2, <2>3 DEF ClearV2
<1>8. ASSUME NEW s \in RoundId, SettleV2(s) PROVE Onward(r)
  <2>1. Stored(s) /\ now > roundV2[s].reveal_deadline
    BY <1>8 DEF SettleV2, RevealsSound, RevealSound, EndsLate
  <2> QED BY <1>6, <1>8, <2>1 DEF SettleV2
<1>9. ASSUME NEW s \in RoundId, VoidV2(s) PROVE Onward(r)
  <2>1. Stored(s) /\ now > SatAdd(roundV2[s].reveal_deadline, VoidGrace)
    BY <1>9 DEF VoidV2, VoidDueV2
  <2>2. roundV2[s].reveal_deadline \in 0 .. U64Max /\ U64Max \in Nat /\ VoidGrace \in Nat
    BY <1>0, <2>1, U64Assumption, RoundTypesAssumption DEF TypeOKV2, Stored, RoundRecord, Time
  <2>3. now > roundV2[s].reveal_deadline
    BY <1>0, <2>1, <2>2 DEF SatAdd
  <2> QED BY <1>6, <1>9, <2>1, <2>3 DEF VoidV2, VoidRound, RefundAllV2
<1> QED BY <1>1, <1>3, <1>4, <1>5, <1>7, <1>8, <1>9 DEF CallV2

\* Whatever happens on chain, commits stay closed and valid bids valid.
LEMMA StepOnward ==
    ASSUME IInvV2, RevealsSound, [NextV2]_varsV2
    PROVE  RevealsSound' /\ \A r \in RoundId : Onward(r)
<1>1. CASE CallV2
  BY <1>1, CallOnward DEF RevealsSound, Onward
<1>2. CASE UNCHANGED storageV2 /\ (LedgerNext \/ now' = now)
  <2>1. now \in Int /\ now' \in Int /\ now <= now' /\ TypeOKV2
    BY <1>2, LedgerAssumption, U64Assumption
       DEF IInvV2, TypeOKV2, LedgerTypeOK, Time, LedgerNext, CloseLedger, PublishBeacon
  <2>2. \A r \in RoundId : Onward(r)
    BY <1>2, <2>1, SameOnward DEF RevealsSound, storageV2
  <2> QED BY <2>2 DEF RevealsSound, Onward
<1> QED BY <1>1, <1>2 DEF NextV2, varsV2, ledgerVars

---------------------------------------------------------------------------
(* The reveal loop of a pass.                                              *)

PassRecord == [at : Stage, round : RoundId \cup {None},
               todo : Seq(Account) \cup {None}, envelope : Envelope \cup {None},
               skipped : SUBSET Account, failure : Failure \cup {None}]

BeforeLoop == {"stale", "void", "keep", "open", "sweep"}

\* In the loop, or just through it.
InLoop(p) == \/ pass[p].at \in {"look", "reveal"}
             \/ pass[p].at = "close" /\ pass[p].todo = <<>>

\* Bidder b is still to come, was recorded as skipped, or has a valid bid.
Provided(p, b) ==
    \/ b \in Range(pass[p].todo)
    \/ b \in pass[p].skipped
    \/ SubmissionOf(RoundOf(p), b).valid

\* The loop forgets nobody it could reveal; what it is about to reveal of a
\* faithful bidder is what was committed to.
LoopSound(p) ==
    /\ pass[p].at \in BeforeLoop => pass[p].todo = None
    /\ InLoop(p) =>
           /\ roundV2[RoundOf(p)].status # "Open"
           /\ now <= roundV2[RoundOf(p)].reveal_deadline =>
                  \A b \in Account : Revealable(RoundOf(p), b) => Provided(p, b)
    /\ pass[p].at = "reveal" =>
           \A b \in Faithful : b = Head(pass[p].todo) /\ Committed(RoundOf(p), b) =>
               Sha256(pass[p].envelope) = SubmissionOf(RoundOf(p), b).commitment

IInvLoop ==
    /\ IInvKeeper
    /\ KeeperTypeOK
    /\ RevealsSound
    /\ \A p \in Pass : LoopSound(p)

\* A bid that can be revealed after a step could be revealed before it.
LEMMA RevealableBefore ==
    ASSUME NEW r \in RoundId, SealsStay(r), NEW b \in Account, Revealable(r, b)'
    PROVE  Revealable(r, b)
<1>1. Committed(r, b) /\ b \in Faithful
  BY DEF SealsStay, Revealable
<1>2. Matching(r, b)' = Matching(r, b)
  BY <1>1 DEF SealsStay, Matching
<1>3. \A e \in Envelope : AmountAccepted(r, b, e)' <=> AmountAccepted(r, b, e)
  BY <1>1 DEF SealsStay, AmountAccepted
<1> QED BY <1>1, <1>2, <1>3 DEF Revealable, Matching

\* A pass that does not move.
LEMMA LoopStays ==
    ASSUME IInvV2, NEW q \in Pass, LoopSound(q), pass'[q] = pass[q],
           pass[q].at # "idle" => RoundOf(q) \in RoundId /\ Stored(RoundOf(q)),
           \A r \in RoundId : Onward(r), now' \in Int
    PROVE  LoopSound(q)'
<1>1. CASE pass[q].at = "idle"
  BY <1>1 DEF LoopSound, InLoop, BeforeLoop
<1>2. CASE pass[q].at # "idle" /\ ~ InLoop(q)
  BY <1>2 DEF LoopSound, InLoop
<1>3. CASE InLoop(q)
  <2>1. PICK r \in RoundId : r = RoundOf(q)
    BY <1>3 DEF InLoop
  <2>2. /\ SealsStay(r) /\ Stored(r) /\ roundV2[r] \in RoundRecord
        /\ r = pass[q].round /\ r = pass'[q].round /\ InLoop(q)' /\ pass[q].at \notin BeforeLoop
    BY <1>3, <2>1 DEF LoopSound, InLoop, Onward, RoundOf, BeforeLoop, IInvV2, TypeOKV2, Stored
  <2>3. ASSUME now' <= roundV2'[r].reveal_deadline, NEW b \in Account, Revealable(r, b)'
        PROVE  Provided(q, b)'
    <3>1. now <= roundV2[r].reveal_deadline
      <4>1. roundV2[r].reveal_deadline \in Int /\ now \in Int
        BY <2>2, U64Assumption, LedgerAssumption
           DEF RoundRecord, Time, IInvV2, TypeOKV2, LedgerTypeOK
      <4> QED BY <2>2, <2>3, <4>1 DEF SealsStay
    <3>2. Revealable(r, b)
      BY <2>2, <2>3, RevealableBefore
    <3>3. Provided(q, b) /\ Committed(r, b)
      BY <1>3, <2>1, <3>1, <3>2 DEF LoopSound, Revealable
    <3>4. SubmissionOf(r, b).valid => SubmissionOf(r, b)'.valid
      BY <2>2, <3>3 DEF SealsStay
    <3> QED BY <2>2, <3>3, <3>4 DEF Provided, RoundOf, SubmissionOf
  <2>4. ASSUME pass[q].at = "reveal", NEW b \in Faithful, b = Head(pass[q].todo), Committed(r, b)'
        PROVE  Sha256(pass[q].envelope) = SubmissionOf(r, b)'.commitment
    <3>1. b \in Account
      BY KeeperAssumption
    <3>2. Committed(r, b) /\ SubmissionOf(r, b)'.commitment = SubmissionOf(r, b).commitment
      BY <2>2, <2>4, <3>1 DEF SealsStay
    <3> QED BY <2>1, <2>4, <3>2 DEF LoopSound
  <2>5. roundV2'[r].status # "Open"
    BY <2>2 DEF SealsStay
  <2> QED BY <1>3, <2>2, <2>3, <2>4, <2>5 DEF LoopSound, RoundOf, Committed, SubmissionOf
<1> QED BY <1>1, <1>2, <1>3

\* Pass p moves to a record of the given fields, the others do not move.
MovedTo(p, rec) ==
    /\ rec \in PassRecord
    /\ pass'[p] = rec
    /\ \A q \in Pass \ {p} : pass'[q] = pass[q]
    /\ pass' \in [Pass -> PassRecord]

\* Outside the loop only the stage matters.
LEMMA GotoMovedTo ==
    ASSUME KeeperTypeOK, NEW p \in Pass, NEW stage \in Stage, Goto(p, stage)
    PROVE  \E rec : /\ MovedTo(p, rec) /\ rec.at = stage /\ rec.round = pass[p].round
                    /\ rec.todo = pass[p].todo /\ rec.skipped = pass[p].skipped
                    /\ rec.envelope = pass[p].envelope /\ rec.failure = pass[p].failure
<1> DEFINE rec == [pass[p] EXCEPT !.at = stage]
<1>1. pass \in [Pass -> PassRecord] /\ pass[p] \in PassRecord
  BY DEF KeeperTypeOK, PassRecord
<1>2. /\ rec \in PassRecord /\ rec.at = stage /\ rec.round = pass[p].round
      /\ rec.todo = pass[p].todo /\ rec.skipped = pass[p].skipped
      /\ rec.envelope = pass[p].envelope /\ rec.failure = pass[p].failure
  BY <1>1 DEF PassRecord
<1>3. pass' = [pass EXCEPT ![p] = rec]
  BY DEF Goto
<1> HIDE DEF rec
<1> QED BY <1>1, <1>2, <1>3 DEF MovedTo

\* A pass that is done, or throws.
LEMMA IdleMovedTo ==
    ASSUME KeeperTypeOK, NEW p \in Pass, NEW failure \in Failure \cup {None},
           pass' = [pass EXCEPT ![p] = Idle(failure)]
    PROVE  MovedTo(p, Idle(failure)) /\ Idle(failure).at = "idle"
                                     /\ Idle(failure).failure = failure
<1>1. Idle(failure) \in PassRecord /\ Idle(failure).at = "idle" /\ Idle(failure).failure = failure
  BY DEF Idle, PassRecord, Stage
<1> QED BY <1>1 DEF MovedTo, KeeperTypeOK, PassRecord

\* get_bidders_v2 lists everybody who committed.
LEMMA EnterLoopMovedTo ==
    ASSUME IInvV2, KeeperTypeOK, NEW p \in Pass, EnterLoop(p), RoundOf(p) \in RoundId,
           Stored(RoundOf(p))
    PROVE  \E rec : /\ MovedTo(p, rec) /\ rec.at = "look" /\ rec.round = pass[p].round
                    /\ \A b \in Account : Committed(RoundOf(p), b) => b \in Range(rec.todo)
<1> DEFINE index == roundV2[RoundOf(p)].bidders
           rec == [pass[p] EXCEPT !.at = "look", !.todo = index]
<1>1. pass \in [Pass -> PassRecord] /\ pass[p] \in PassRecord
  BY DEF KeeperTypeOK, PassRecord
<1>2. index \in Seq(Account)
  BY DEF IInvV2, TypeOKV2, Stored, RoundRecord
<1>3. \A b \in Account : Committed(RoundOf(p), b) => b \in Range(index)
  BY DEF IInvV2, RoundInv, IndexExact
<1>4. pass' = [pass EXCEPT ![p] = rec]
  BY DEF EnterLoop
<1> HIDE DEF index
<1>5. rec \in PassRecord /\ rec.at = "look" /\ rec.round = pass[p].round /\ rec.todo = index
  BY <1>1, <1>2 DEF PassRecord, Stage
<1> HIDE DEF rec
<1> QED BY <1>1, <1>3, <1>4, <1>5 DEF MovedTo

\* What is left of a list of bidders after its head.
LEMMA RangeTail ==
    ASSUME NEW s \in Seq(Account), s # <<>>
    PROVE  Tail(s) \in Seq(Account) /\ \A b \in Range(s) : b = Head(s) \/ b \in Range(Tail(s))
<1>1. Tail(s) \in Seq(Account) /\ Len(s) \in Nat /\ Len(Tail(s)) = Len(s) - 1
      /\ DOMAIN s = 1 .. Len(s) /\ DOMAIN Tail(s) = 1 .. Len(Tail(s))
  OBVIOUS
<1>2. ASSUME NEW i \in DOMAIN s PROVE s[i] = Head(s) \/ s[i] \in Range(Tail(s))
  <2>1. CASE i = 1
    BY <2>1
  <2>2. CASE i # 1
    <3>1. i - 1 \in DOMAIN Tail(s) /\ Tail(s)[i - 1] = s[i]
      BY <1>1, <2>2
    <3> QED BY <3>1 DEF Range
  <2> QED BY <2>1, <2>2
<1> QED BY <1>1, <1>2 DEF Range

\* On to the next bidder.
Advance(p, skipped, envelope) ==
    pass' = [pass EXCEPT ![p] = [pass[p] EXCEPT !.at = "look", !.todo = Tail(pass[p].todo),
                                                !.envelope = envelope, !.skipped = skipped]]

\* Only the head leaves the list.
HeadPassed(p, rec) ==
    \A b \in Range(pass[p].todo) : b = Head(pass[p].todo) \/ b \in Range(rec.todo)

\* Moving on in the reveal loop, as a record.
LEMMA NextBidderMovedTo ==
    ASSUME KeeperTypeOK, NEW p \in Pass, pass[p].todo \in Seq(Account), pass[p].todo # <<>>,
           NEW skipped \in SUBSET Account, NEW envelope \in Envelope \cup {None},
           Advance(p, skipped, envelope)
    PROVE  \E rec : /\ MovedTo(p, rec) /\ rec.at = "look" /\ rec.round = pass[p].round
                    /\ rec.skipped = skipped /\ HeadPassed(p, rec)
<1> DEFINE rest == Tail(pass[p].todo)
           rec == [pass[p] EXCEPT !.at = "look", !.todo = rest,
                                  !.envelope = envelope, !.skipped = skipped]
<1>1. pass \in [Pass -> PassRecord] /\ pass[p] \in PassRecord
  BY DEF KeeperTypeOK, PassRecord
<1>2. /\ rest \in Seq(Account)
      /\ \A b \in Range(pass[p].todo) : b = Head(pass[p].todo) \/ b \in Range(rest)
  BY RangeTail
<1>3. pass' = [pass EXCEPT ![p] = rec]
  BY DEF Advance
<1> HIDE DEF rest
<1>4. /\ rec \in PassRecord /\ rec.at = "look" /\ rec.round = pass[p].round
      /\ rec.skipped = skipped /\ rec.todo = rest
  BY <1>1, <1>2 DEF PassRecord, Stage
<1> HIDE DEF rec
<1> QED BY <1>1, <1>2, <1>3, <1>4 DEF MovedTo, HeadPassed

\* A reveal of a seal that opens to an acceptable bid is refused only to a
\* bidder who is revealed already.
LEMMA RevealAccepted ==
    ASSUME NEW r, NEW b, NEW e, roundV2[r].status = "Revealing", roundV2[r].mode \in RoundMode,
           now <= roundV2[r].reveal_deadline, now \in Int, roundV2[r].reveal_deadline \in Int,
           SubmissionOf(r, b).revealed_envelope = None,
           SubmissionOf(r, b).commitment = Sha256(e), SubmissionOf(r, b).escrow \in Int,
           e.decodes, e.amount \in Int \cup {None}, AmountAccepted(r, b, e)
    PROVE  RevealError(r, b, e) = Ok
<1> DEFINE round == roundV2[r]
           auction == round.mode = "Auction"
           amount == IF e.amount = None THEN 0 ELSE e.amount
           escrow == SubmissionOf(r, b).escrow
<1>1. /\ round.status # "Settled" /\ round.status # "Voided" /\ round.status = "Revealing"
      /\ ~ (now > round.reveal_deadline)
  OBVIOUS
<1>2. ~ (auction /\ e.amount = None) /\ ~ (~ auction /\ escrow # 0)
  BY DEF AmountAccepted
<1>3. ~ (auction /\ amount <= 0) /\ ~ (auction /\ amount > escrow)
  <2>1. escrow \in Int
    OBVIOUS
  <2>2. auction => amount \in Int /\ amount > 0 /\ amount <= escrow
    BY DEF AmountAccepted
  <2> HIDE DEF auction, amount, escrow
  <2> QED BY <2>1, <2>2
<1> DEFINE checks == <<
            <<round.status = "Settled", "AlreadySettled">>,
            <<round.status = "Voided", "RoundVoided">>,
            <<round.status # "Revealing", "RevealNotOpen">>,
            <<now > round.reveal_deadline, "RevealWindowClosed">>,
            <<SubmissionOf(r, b).revealed_envelope # None, "AlreadyRevealed">>,
            <<SubmissionOf(r, b).commitment # Sha256(e), "HashMismatch">>,
            <<~ e.decodes, "MalformedPayload">>,
            <<auction /\ e.amount = None, "MalformedPayload">>,
            <<auction /\ amount <= 0, "InvalidAmount">>,
            <<auction /\ amount > escrow, "BidExceedsEscrow">>,
            <<~ auction /\ escrow # 0, "EscrowNotAllowed">> >>
<1>4. RevealError(r, b, e) = FirstFailed(checks)
  BY DEF RevealError
<1>5. DOMAIN checks = 1 .. 11
  OBVIOUS
<1>6. \A i \in 1 .. 11 : ~ checks[i][1]
  <2>1. ~ checks[1][1] /\ ~ checks[2][1] /\ ~ checks[3][1] /\ ~ checks[4][1]
    BY <1>1
  <2>2. ~ checks[5][1] /\ ~ checks[6][1] /\ ~ checks[7][1]
    OBVIOUS
  <2>3. ~ checks[8][1] /\ ~ checks[11][1]
    BY <1>2
  <2>4. ~ checks[9][1] /\ ~ checks[10][1]
    BY <1>3
  <2> HIDE DEF checks
  <2>5. \A i \in 1 .. 11 : i \in {1, 2, 3, 4, 5, 6, 7, 8, 9, 10, 11}
    OBVIOUS
  <2> QED BY <2>1, <2>2, <2>3, <2>4, <2>5
<1> HIDE DEF checks
<1> QED BY <1>4, <1>5, <1>6, FirstFailedFacts

\* A rejected call throws a code of the contract.
LEMMA ErrorsAreCodes ==
    ASSUME NEW r, NEW b, NEW e, NEW caller
    PROVE  /\ OpenRevealError(r, caller) \in {Ok} \cup ErrorCode
           /\ RevealError(r, b, e) \in {Ok} \cup ErrorCode
           /\ ClearError(r) \in {Ok} \cup ErrorCode
           /\ SettleError(r) \in {Ok} \cup ErrorCode
           /\ VoidError(r) \in {Ok} \cup ErrorCode
<1>1. ASSUME NEW checks, NEW n \in Nat, DOMAIN checks = 1 .. n,
             \A i \in 1 .. n : checks[i][2] \in ErrorCode
      PROVE  FirstFailed(checks) \in {Ok} \cup ErrorCode
  BY <1>1, FirstFailedFacts
<1>2. OpenRevealError(r, caller) \in {Ok} \cup ErrorCode
  <2> DEFINE round == roundV2[r]
             v3 == round.protocol_version = 3
             checks == <<
            <<round.status = "Settled", "AlreadySettled">>,
            <<round.status = "Voided", "RoundVoided">>,
            <<round.status = "Cleared", "AlreadyCleared">>,
            <<round.status = "Revealing", "RevealAlreadyOpen">>,
            <<now <= round.commit_deadline, "CommitNotClosed">>,
            <<v3 /\ now < TimeOfRound(round.reveal_round), "CommitNotClosed">>,
            <<v3 /\ now > round.reveal_deadline, "RevealWindowClosed">>,
            <<v3 /\ revealV3[r].policy # None /\ now < revealV3[r].policy
                 /\ caller # round.operator, "Unauthorized">>,
            <<~ HasSignature(round.reveal_round), "InvalidDrandSignature">> >>
  <2>1. DOMAIN checks = 1 .. 9 /\ \A i \in 1 .. 9 : checks[i][2] \in ErrorCode
    BY DEF ErrorCode
  <2>2. OpenRevealError(r, caller) = FirstFailed(checks)
    BY DEF OpenRevealError
  <2> HIDE DEF checks
  <2> QED BY <1>1, <2>1, <2>2
<1>3. RevealError(r, b, e) \in {Ok} \cup ErrorCode
  BY RevealErrorFacts
<1>4. ClearError(r) \in {Ok} \cup ErrorCode
  <2> DEFINE round == roundV2[r]
             checks == <<
            <<round.status = "Cleared", "AlreadyCleared">>,
            <<round.status = "Settled", "AlreadySettled">>,
            <<round.status = "Voided", "RoundVoided">>,
            <<round.status # "Revealing", "RevealNotOpen">>,
            <<now <= round.reveal_deadline, "RevealStillOpen">> >>
  <2>1. DOMAIN checks = 1 .. 5 /\ \A i \in 1 .. 5 : checks[i][2] \in ErrorCode
    BY DEF ErrorCode
  <2>2. ClearError(r) = FirstFailed(checks)
    BY DEF ClearError
  <2> HIDE DEF checks
  <2> QED BY <1>1, <2>1, <2>2
<1>5. SettleError(r) \in {Ok} \cup ErrorCode
  <2> DEFINE round == roundV2[r]
             checks == <<
            <<round.status = "Settled", "AlreadySettled">>,
            <<round.status = "Voided", "RoundVoided">>,
            <<round.mode # "Auction" \/ round.status # "Cleared", "NotCleared">> >>
  <2>1. DOMAIN checks = 1 .. 3 /\ \A i \in 1 .. 3 : checks[i][2] \in ErrorCode
    BY DEF ErrorCode
  <2>2. SettleError(r) = FirstFailed(checks)
    BY DEF SettleError
  <2> HIDE DEF checks
  <2> QED BY <1>1, <2>1, <2>2
<1>6. VoidError(r) \in {Ok} \cup ErrorCode
  <2> DEFINE round == roundV2[r]
             checks == <<
            <<round.status = "Voided", "RoundVoided">>,
            <<round.status = "Settled", "AlreadySettled">>,
            <<round.status # "Open" \/ ~ VoidDueV2(r), "NotVoidable">> >>
  <2>1. DOMAIN checks = 1 .. 3 /\ \A i \in 1 .. 3 : checks[i][2] \in ErrorCode
    BY DEF ErrorCode
  <2>2. VoidError(r) = FirstFailed(checks)
    BY DEF VoidError
  <2> HIDE DEF checks
  <2> QED BY <1>1, <2>1, <2>2
<1> QED BY <1>2, <1>3, <1>4, <1>5, <1>6
\* Outside the loop there is nobody to provide for.
LEMMA QuietSound ==
    ASSUME NEW p \in Pass, NEW rec, MovedTo(p, rec), rec.at \notin {"look", "reveal"},
           rec.at \in BeforeLoop => rec.todo = None, rec.at = "close" => rec.todo # <<>>
    PROVE  LoopSound(p)'
BY DEF LoopSound, InLoop, MovedTo

\* A pass that moves on in the loop.
LEMMA LoopMoves ==
    ASSUME IInvV2, NEW p \in Pass, LoopSound(p), InLoop(p), NEW r \in RoundId, r = RoundOf(p),
           Stored(r), Onward(r), now' \in Int, pass'[p].round = pass[p].round, InLoop(p)',
           \A b \in Account :
               /\ now <= roundV2[r].reveal_deadline
               /\ Revealable(r, b)
               /\ Provided(p, b)
               => Provided(p, b)',
           pass'[p].at = "reveal" =>
               \A b \in Faithful : b = Head(pass'[p].todo) /\ Committed(r, b)' =>
                   Sha256(pass'[p].envelope) = SubmissionOf(r, b)'.commitment
    PROVE  LoopSound(p)'
<1>1. /\ SealsStay(r) /\ roundV2[r] \in RoundRecord
      /\ r = pass[p].round /\ r = pass'[p].round /\ pass'[p].at \notin BeforeLoop
  BY DEF LoopSound, InLoop, Onward, RoundOf, BeforeLoop, IInvV2, TypeOKV2, Stored
<1>2. ASSUME now' <= roundV2'[r].reveal_deadline, NEW b \in Account, Revealable(r, b)'
      PROVE  Provided(p, b)'
  <2>1. now <= roundV2[r].reveal_deadline
    <3>1. now \in Int
      BY LedgerAssumption, U64Assumption DEF IInvV2, TypeOKV2, LedgerTypeOK, Time
    <3>2. roundV2[r].reveal_deadline \in Int
      BY <1>1, U64Assumption DEF RoundRecord, Time
    <3> QED BY <1>1, <1>2, <3>1, <3>2 DEF SealsStay
  <2>2. Revealable(r, b)
    BY <1>1, <1>2, RevealableBefore
  <2>3. Provided(p, b)
    BY <2>1, <2>2 DEF LoopSound
  <2> QED BY <2>1, <2>2, <2>3
<1>3. roundV2'[r].status # "Open"
  BY <1>1 DEF SealsStay
<1>4. RoundOf(p)' = r
  BY <1>1 DEF RoundOf
<1>5. now' <= roundV2[RoundOf(p)]'.reveal_deadline =>
          \A b \in Account : Revealable(RoundOf(p), b)' => Provided(p, b)'
  BY <1>2, <1>4 DEF Revealable, Committed, Matching, AmountAccepted, SubmissionOf
<1>6. pass'[p].at = "reveal" =>
          \A b \in Faithful : b = Head(pass'[p].todo) /\ Committed(RoundOf(p), b)' =>
              Sha256(pass'[p].envelope) = SubmissionOf(RoundOf(p), b)'.commitment
  BY <1>4 DEF Committed, SubmissionOf
<1> QED BY <1>1, <1>3, <1>4, <1>5, <1>6 DEF LoopSound

\* The bidders of the index are all to come.
LEMMA EnterSound ==
    ASSUME IInvV2, KeeperTypeOK, NEW p \in Pass, EnterLoop(p), RoundOf(p) \in RoundId,
           Stored(RoundOf(p)), StatusOf(p) = "Revealing", UNCHANGED varsV2
    PROVE  LoopSound(p)' /\ \E rec : MovedTo(p, rec)
<1>1. PICK rec : /\ MovedTo(p, rec) /\ rec.at = "look" /\ rec.round = pass[p].round
                 /\ \A b \in Account : Committed(RoundOf(p), b) => b \in Range(rec.todo)
  BY EnterLoopMovedTo
<1>2. /\ pass'[p] = rec /\ RoundOf(p)' = RoundOf(p) /\ roundV2' = roundV2
      /\ submissionV2' = submissionV2
  BY <1>1 DEF MovedTo, RoundOf, varsV2, storageV2
<1>3. \A b \in Account : Revealable(RoundOf(p), b)' => Provided(p, b)'
  BY <1>1, <1>2 DEF Revealable, Committed, Provided
<1>4. LoopSound(p)'
  BY <1>1, <1>2, <1>3 DEF LoopSound, InLoop, StatusOf, BeforeLoop
<1> QED BY <1>1, <1>4
---------------------------------------------------------------------------
(* What each step of a pass does to its loop.                              *)

\* The pass keeps its type and its loop stays sound.
Carried(p) == LoopSound(p)' /\ \E rec : MovedTo(p, rec)

\* A pass that goes on outside the reveal loop carries its promise.
LEMMA GotoCarried ==
    ASSUME KeeperTypeOK, NEW p \in Pass, NEW stage \in Stage \ {"look", "reveal"}, Goto(p, stage),
           stage \in BeforeLoop => pass[p].todo = None, stage = "close" => pass[p].todo # <<>>
    PROVE  Carried(p)
<1>1. PICK rec : MovedTo(p, rec) /\ rec.at = stage /\ rec.todo = pass[p].todo
  BY GotoMovedTo
<1> QED BY <1>1, QuietSound DEF Carried

\* A pass that ends owes nothing.
LEMMA IdleCarried ==
    ASSUME KeeperTypeOK, NEW p \in Pass, NEW failure \in Failure \cup {None},
           pass' = [pass EXCEPT ![p] = Idle(failure)]
    PROVE  Carried(p)
<1>1. MovedTo(p, Idle(failure)) /\ Idle(failure).at = "idle"
  BY IdleMovedTo
<1> QED BY <1>1, QuietSound DEF Carried, BeforeLoop

\* A call that fails: the pass throws the code, or a trap.
LEMMA ThrowCarried ==
    ASSUME KeeperTypeOK, NEW p \in Pass, NEW error \in {Ok, "Trap"} \cup ErrorCode, error # Ok,
           Throw(p, error)
    PROVE  Carried(p)
BY IdleCarried DEF Throw, Failure

\* Up to the loop.
LEMMA OpeningSound ==
    ASSUME IInvLoop, NEW p \in Pass,
           \/ \E r \in RoundId : Start(p, r)
           \/ CheckStale(p) \/ SubmitVoid(p) \/ Keep(p) \/ SubmitOpen(p) \/ Sweep(p)
    PROVE  Carried(p)
<1>0. KeeperTypeOK /\ IInvV2 /\ LoopSound(p) /\ KeeperShape /\ RoundsStored
  BY DEF IInvLoop, IInvKeeper
<1>n. None # <<>>
  BY KeeperAssumption
<1>1. ASSUME NEW r \in RoundId, Start(p, r) PROVE Carried(p)
  <2> DEFINE rec == [Idle(None) EXCEPT !.at = "stale", !.round = r]
  <2>1. rec \in PassRecord /\ rec.at = "stale" /\ rec.todo = None
    BY DEF Idle, PassRecord, Stage
  <2>2. pass' = [pass EXCEPT ![p] = rec]
    BY <1>1 DEF Start
  <2> HIDE DEF rec
  <2>3. MovedTo(p, rec)
    BY <1>0, <2>1, <2>2 DEF MovedTo, KeeperTypeOK, PassRecord
  <2> QED BY <2>1, <2>3, QuietSound DEF Carried
<1>2. ASSUME pass[p].at \in BeforeLoop, NEW stage \in BeforeLoop \cup {"close"}, Goto(p, stage)
      PROVE  Carried(p)
  <2>1. pass[p].todo = None
    BY <1>0, <1>2 DEF LoopSound
  <2>2. stage \in Stage \ {"look", "reveal"}
    BY DEF BeforeLoop, Stage
  <2> QED BY <1>0, <1>2, <1>n, <2>1, <2>2, GotoCarried
<1>3. CASE CheckStale(p)
  BY <1>2, <1>3 DEF CheckStale, BeforeLoop
<1>4. CASE SubmitVoid(p)
  <2>1. VoidError(RoundOf(p)) \in {Ok} \cup ErrorCode
    BY ErrorsAreCodes
  <2>2. CASE Goto(p, "keep")
    BY <1>2, <1>4, <2>2 DEF SubmitVoid, BeforeLoop
  <2>3. CASE VoidError(RoundOf(p)) # Ok /\ Throw(p, VoidError(RoundOf(p)))
    BY <1>0, <2>1, <2>3, ThrowCarried
  <2>4. CASE Throw(p, "Trap")
    BY <1>0, <2>4, ThrowCarried DEF Ok
  <2> QED BY <1>4, <2>2, <2>3, <2>4 DEF SubmitVoid, Submit
<1>5. CASE SubmitOpen(p)
  <2> DEFINE error == OpenRevealError(RoundOf(p), KeeperAccount)
  <2>1. error \in {Ok} \cup ErrorCode
    BY ErrorsAreCodes
  <2>2. CASE Goto(p, "sweep")
    BY <1>2, <1>5, <2>2 DEF SubmitOpen, BeforeLoop
  <2>3. CASE error # Ok /\ Throw(p, error)
    BY <1>0, <2>1, <2>3, ThrowCarried
  <2>4. CASE Throw(p, "Trap")
    BY <1>0, <2>4, ThrowCarried DEF Ok
  <2> QED BY <1>5, <2>2, <2>3, <2>4 DEF SubmitOpen, Submit
<1>6. CASE (Keep(p) \/ Sweep(p)) /\ StatusOf(p) = "Revealing" /\ EnterLoop(p)
  <2>1. pass[p].at # "idle" /\ UNCHANGED varsV2
    BY <1>6 DEF Keep, Sweep, ReadOnly
  <2>2. RoundOf(p) \in RoundId /\ Stored(RoundOf(p))
    BY <1>0, <2>1 DEF KeeperShape, PassShape, RoundOf, RoundsStored
  <2> QED BY <1>0, <1>6, <2>1, <2>2, EnterSound DEF Carried
<1>7. CASE (Keep(p) \/ Sweep(p)) /\ ~ (StatusOf(p) = "Revealing" /\ EnterLoop(p))
  BY <1>2, <1>7 DEF Keep, Sweep, BeforeLoop
<1> QED BY <1>1, <1>3, <1>4, <1>5, <1>6, <1>7

\* After the loop.
LEMMA ClosingSound ==
    ASSUME IInvLoop, NEW p \in Pass,
           \/ Close(p) \/ SubmitClear(p) \/ AfterClear(p) \/ SettleReply(p) \/ Finish(p)
    PROVE  Carried(p)
<1>0. KeeperTypeOK
  BY DEF IInvLoop
<1>1. ASSUME NEW stage \in {"clear", "settle", "settling", "finish"}, Goto(p, stage)
      PROVE  Carried(p)
  <2>1. stage \in Stage \ {"look", "reveal"} /\ stage \notin BeforeLoop /\ stage # "close"
    BY DEF BeforeLoop, Stage
  <2> QED BY <1>0, <1>1, <2>1, GotoCarried
<1>2. CASE Close(p) \/ AfterClear(p)
  BY <1>1, <1>2 DEF Close, AfterClear, Reserve
<1>3. CASE SubmitClear(p)
  <2>1. ClearError(RoundOf(p)) \in {Ok} \cup ErrorCode
    BY ErrorsAreCodes
  <2>2. CASE Goto(p, "settle")
    BY <1>1, <2>2
  <2>3. CASE ClearError(RoundOf(p)) # Ok /\ Throw(p, ClearError(RoundOf(p)))
    BY <1>0, <2>1, <2>3, ThrowCarried
  <2>4. CASE Throw(p, "Trap")
    BY <1>0, <2>4, ThrowCarried DEF Ok
  <2> QED BY <1>3, <2>2, <2>3, <2>4 DEF SubmitClear, Submit
<1>4. CASE SettleReply(p)
  <2>1. SettleError(RoundOf(p)) \in {Ok} \cup ErrorCode
    BY ErrorsAreCodes
  <2>2. CASE Goto(p, "finish")
    BY <1>1, <2>2
  <2>3. CASE SettleError(RoundOf(p)) # Ok /\ Throw(p, SettleError(RoundOf(p)))
    BY <1>0, <2>1, <2>3, ThrowCarried
  <2>4. CASE Throw(p, "Trap")
    BY <1>0, <2>4, ThrowCarried DEF Ok
  <2> QED BY <1>4, <2>2, <2>3, <2>4 DEF SettleReply, Submit
<1>5. CASE Finish(p)
  BY <1>0, <1>5, IdleCarried DEF Finish
<1> QED BY <1>2, <1>3, <1>4, <1>5

\* The head of the list is behind the pass: whoever is left is to come,
\* skipped or valid.
LEMMA AdvanceSound ==
    ASSUME IInvLoop, NEW p \in Pass, pass[p].at \in {"look", "reveal"}, pass[p].todo # <<>>,
           NEW r \in RoundId, r = RoundOf(p),
           NEW skipped \in SUBSET Account, pass[p].skipped \subseteq skipped,
           NEW envelope \in Envelope \cup {None},
           Advance(p, skipped, envelope),
           [NextV2]_varsV2,
           \A b \in Account :
               /\ b = Head(pass[p].todo)
               /\ now <= roundV2[r].reveal_deadline
               /\ Revealable(r, b)
               => b \in skipped \/ SubmissionOf(r, b)'.valid
    PROVE  Carried(p)
<1>0. /\ KeeperTypeOK /\ IInvV2 /\ LoopSound(p) /\ KeeperShape /\ RoundsStored /\ RevealsSound
  BY DEF IInvLoop, IInvKeeper
<1>1. Stored(r) /\ pass[p].todo \in Seq(Account)
  BY <1>0 DEF RoundsStored, KeeperShape, PassShape
<1>2. PICK rec : /\ MovedTo(p, rec) /\ rec.at = "look" /\ rec.round = pass[p].round
                 /\ rec.skipped = skipped /\ HeadPassed(p, rec)
  BY <1>0, <1>1, NextBidderMovedTo
<1>3. pass'[p] = rec /\ RoundOf(p)' = r
  BY <1>2 DEF MovedTo, RoundOf
<1>4. Onward(r) /\ SealsStay(r)
  BY <1>0, <1>1, StepOnward DEF Onward, LoopSound, InLoop
<1>5. ASSUME NEW b \in Account, now <= roundV2[r].reveal_deadline, Revealable(r, b), Provided(p, b)
      PROVE  Provided(p, b)'
  <2>1. CASE b \in Range(pass[p].todo) /\ b # Head(pass[p].todo)
    BY <1>2, <1>3, <2>1 DEF Provided, HeadPassed
  <2>2. CASE b \in Range(pass[p].todo) /\ b = Head(pass[p].todo)
    <3>1. b \in skipped \/ SubmissionOf(r, b)'.valid
      BY <1>5, <2>2
    <3> QED BY <1>2, <1>3, <3>1 DEF Provided, SubmissionOf
  <2>3. CASE b \in pass[p].skipped
    BY <1>2, <1>3, <2>3 DEF Provided
  <2>4. CASE SubmissionOf(r, b).valid
    <3>1. SubmissionOf(r, b)'.valid
      BY <1>4, <1>5, <2>4 DEF SealsStay, Revealable
    <3> QED BY <1>3, <3>1 DEF Provided, SubmissionOf
  <2> QED BY <1>5, <2>1, <2>2, <2>3, <2>4 DEF Provided
<1>6. now' \in Int
  <2>1. TypeOKV2'
    BY <1>0, NextIInvV2 DEF IInvV2
  <2> QED BY <2>1, LedgerAssumption, U64Assumption DEF TypeOKV2, LedgerTypeOK, Time
<1>7. InLoop(p) /\ InLoop(p)' /\ pass'[p].round = pass[p].round /\ pass'[p].at # "reveal"
  BY <1>2, <1>3 DEF InLoop
<1>8. LoopSound(p)'
  BY <1>0, <1>1, <1>4, <1>5, <1>6, <1>7, LoopMoves
<1> QED BY <1>2, <1>8 DEF Carried

\* One bidder of the loop: passed over because there is nothing to reveal, or
\* about to be revealed.
LEMMA LookSound ==
    ASSUME IInvLoop, NEW p \in Pass, Look(p)
    PROVE  Carried(p)
<1>0. /\ KeeperTypeOK /\ IInvV2 /\ LoopSound(p) /\ KeeperShape /\ RoundsStored /\ RevealsSound
      /\ UNCHANGED varsV2 /\ pass[p].at = "look"
  BY DEF IInvLoop, IInvKeeper, Look, ReadOnly
<1>1. PICK r \in RoundId : r = RoundOf(p)
  BY <1>0 DEF KeeperShape, PassShape, RoundOf
<1>2. /\ Stored(r) /\ pass \in [Pass -> PassRecord] /\ pass[p] \in PassRecord
      /\ pass[p].skipped \in SUBSET Account
  BY <1>0, <1>1 DEF RoundsStored, KeeperTypeOK, PassRecord
<1>3. Onward(r)
  BY <1>0, StepOnward
<1>4. now' \in Int
  BY <1>0, LedgerAssumption, U64Assumption
     DEF varsV2, ledgerVars, IInvV2, TypeOKV2, LedgerTypeOK, Time
<1>5. ASSUME NEW rec, MovedTo(p, rec), rec.round = pass[p].round, rec.todo = pass[p].todo,
             rec.skipped = pass[p].skipped,
             \/ rec.at = "close" /\ rec.todo = <<>>
             \/ rec.at = "reveal" /\ rec.envelope \in Opened(r, Head(rec.todo))
      PROVE  Carried(p)
  <2>1. pass'[p] = rec /\ RoundOf(p)' = r /\ submissionV2' = submissionV2
    BY <1>0, <1>1, <1>5 DEF MovedTo, RoundOf, varsV2, storageV2
  <2>2. \A b \in Account : Provided(p, b) => Provided(p, b)'
    BY <1>1, <1>5, <2>1 DEF Provided, SubmissionOf
  <2>3. ASSUME pass'[p].at = "reveal", NEW b \in Faithful, b = Head(pass'[p].todo)
        PROVE  Sha256(pass'[p].envelope) = SubmissionOf(r, b)'.commitment
    BY <1>5, <2>1, <2>3 DEF Opened, Matching, SubmissionOf
  <2>4. InLoop(p) /\ InLoop(p)' /\ pass'[p].round = pass[p].round
    BY <1>0, <1>5, <2>1 DEF InLoop
  <2>5. LoopSound(p)'
    BY <1>0, <1>1, <1>2, <1>3, <1>4, <2>2, <2>3, <2>4, LoopMoves
  <2> QED BY <1>5, <2>5 DEF Carried
<1>6. CASE pass[p].todo = <<>> /\ Goto(p, "close")
  <2>1. PICK rec : /\ MovedTo(p, rec) /\ rec.at = "close" /\ rec.round = pass[p].round
                   /\ rec.todo = pass[p].todo /\ rec.skipped = pass[p].skipped
    BY <1>0, <1>6, GotoMovedTo DEF Stage
  <2> QED BY <1>5, <1>6, <2>1
<1>7. CASE /\ pass[p].todo # <<>> /\ NextBidder(p)
           /\ \/ SubmissionOf(r, Head(pass[p].todo)).revealed_envelope # None
              \/ Head(pass[p].todo) \notin Faithful
  <2>1. Advance(p, pass[p].skipped, None)
    BY <1>2, <1>7 DEF NextBidder, Advance, PassRecord
  <2>2. ASSUME NEW b \in Account, b = Head(pass[p].todo), Revealable(r, b)
        PROVE  SubmissionOf(r, b)'.valid
    <3>1. SubmissionOf(r, b).valid
      BY <1>0, <1>2, <1>7, <2>2 DEF Revealable, RevealsSound, RevealSound, RevealedIsValid
    <3> QED BY <1>0, <3>1 DEF SubmissionOf, varsV2, storageV2
  <2> QED BY <1>0, <1>1, <1>2, <1>7, <2>1, <2>2, AdvanceSound
<1>8. ASSUME NEW e \in Opened(r, Head(pass[p].todo)),
             pass' = [pass EXCEPT ![p].at = "reveal", ![p].envelope = e]
      PROVE  Carried(p)
  <2> DEFINE rec == [pass[p] EXCEPT !.at = "reveal", !.envelope = e]
  <2>1. /\ rec \in PassRecord /\ rec.at = "reveal" /\ rec.round = pass[p].round
        /\ rec.todo = pass[p].todo /\ rec.skipped = pass[p].skipped /\ rec.envelope = e
    <3>1. e \in Envelope
      BY <1>8 DEF Opened, Matching
    <3> QED BY <1>2, <3>1 DEF PassRecord, Stage
  <2>2. pass' = [pass EXCEPT ![p] = rec]
    BY <1>2, <1>8
  <2> HIDE DEF rec
  <2>3. MovedTo(p, rec)
    BY <1>2, <2>1, <2>2 DEF MovedTo
  <2> QED BY <1>5, <1>8, <2>1, <2>3
<1> QED BY <1>1, <1>6, <1>7, <1>8 DEF Look
\* reveal_v2 of the head is accepted, or refused for a reason that leaves no
\* revealable bid behind before the deadline, or ends the pass.
LEMMA SubmitRevealSound ==
    ASSUME IInvLoop, NEW p \in Pass, SubmitReveal(p)
    PROVE  Carried(p)
<1>0. /\ KeeperTypeOK /\ IInvV2 /\ LoopSound(p) /\ KeeperShape /\ RoundsStored /\ RevealsSound
      /\ pass[p].at = "reveal"
  BY DEF IInvLoop, IInvKeeper, SubmitReveal
<1>1. PICK r \in RoundId : r = RoundOf(p)
  BY <1>0 DEF KeeperShape, PassShape, RoundOf
<1>2. /\ Stored(r) /\ pass \in [Pass -> PassRecord] /\ pass[p] \in PassRecord
      /\ pass[p].skipped \in SUBSET Account
  BY <1>0, <1>1 DEF RoundsStored, KeeperTypeOK, PassRecord
<1>3. pass[p].todo \in Seq(Account) /\ pass[p].todo # <<>> /\ pass[p].envelope \in Envelope
  BY <1>0 DEF KeeperShape, PassShape
<1> PICK b \in Account : b = Head(pass[p].todo)
  BY <1>3
<1> PICK e \in Envelope : e = pass[p].envelope
  BY <1>3
<1>4. roundV2[r].status # "Open"
  BY <1>0, <1>1 DEF LoopSound, InLoop
<1>5. ASSUME NextBidder(p), [NextV2]_varsV2,
             now <= roundV2[r].reveal_deadline /\ Revealable(r, b) => SubmissionOf(r, b)'.valid
      PROVE  Carried(p)
  <2>1. Advance(p, pass[p].skipped, None)
    BY <1>2, <1>5 DEF NextBidder, Advance, PassRecord
  <2> QED BY <1>0, <1>1, <1>2, <1>3, <1>5, <2>1, AdvanceSound
<1>6. CASE RevealV2(r, b, e) /\ NextBidder(p)
  <2>1. [NextV2]_varsV2
    BY <1>3, <1>6 DEF NextV2, CallV2
  <2>2. SubmissionOf(r, b)'.valid
    BY <1>0, <1>3, <1>6, RevealOnward DEF RevealsSound
  <2> QED BY <1>5, <1>6, <2>1, <2>2
<1>7. CASE RevealError(r, b, e) \in ToleratedReveal /\ NextBidder(p) /\ UNCHANGED varsV2
  <2>1. ASSUME now <= roundV2[r].reveal_deadline, Revealable(r, b) PROVE SubmissionOf(r, b).valid
    <3>1. /\ Committed(r, b) /\ b \in Faithful
          /\ \A x \in Matching(r, b) : x.decodes /\ AmountAccepted(r, b, x)
      BY <2>1 DEF Revealable
    <3>2. Sha256(e) = SubmissionOf(r, b).commitment
      BY <1>0, <1>1, <3>1 DEF LoopSound
    <3>3. e.decodes /\ AmountAccepted(r, b, e)
      BY <1>3, <3>1, <3>2 DEF Matching
    <3>4. roundV2[r] \in RoundRecord /\ SubmissionOf(r, b) \in SubmissionRecord
      BY <1>0, <1>2, <3>1 DEF IInvV2, TypeOKV2, Stored, Committed, SubmissionOf
    <3>5. now \in Int
      BY <1>0, LedgerAssumption, U64Assumption DEF IInvV2, TypeOKV2, LedgerTypeOK, Time
    <3>6. roundV2[r].reveal_deadline \in Int /\ roundV2[r].mode \in RoundMode
      BY <3>4, U64Assumption DEF RoundRecord, Time
    <3>7. SubmissionOf(r, b).escrow \in Int
      BY <3>4 DEF SubmissionRecord
    <3>8. roundV2[r].status = "Revealing"
      <4>1. roundV2[r].status \in Status
        BY <3>4 DEF RoundRecord
      <4>2. EndsLate(r)
        BY <1>0, <1>2 DEF RevealsSound, RevealSound
      <4>3. ~ (now > roundV2[r].reveal_deadline)
        BY <2>1, <3>5, <3>6
      <4> QED BY <1>4, <4>1, <4>2, <4>3 DEF Status, EndsLate
    <3>9. e.amount \in Int \cup {None}
      BY <1>3, RoundV2Assumption
    <3>10. SubmissionOf(r, b).revealed_envelope # None
      <4>1. RevealError(r, b, e) # Ok
        BY <1>7 DEF ToleratedReveal, InvalidSubmission, Ok
      <4> QED BY <2>1, <3>2, <3>3, <3>5, <3>6, <3>7, <3>8, <3>9, <4>1, RevealAccepted
    <3> QED BY <1>0, <1>2, <3>1, <3>10 DEF RevealsSound, RevealSound, RevealedIsValid
  <2>2. SubmissionOf(r, b)' = SubmissionOf(r, b)
    BY <1>7 DEF SubmissionOf, varsV2, storageV2
  <2> QED BY <1>5, <1>7, <2>1, <2>2
<1>8. CASE RevealError(r, b, e) # Ok /\ Throw(p, RevealError(r, b, e))
  <2>1. RevealError(r, b, e) \in {Ok} \cup ErrorCode
    BY ErrorsAreCodes
  <2> QED BY <1>0, <1>8, <2>1, ThrowCarried
<1> QED BY <1>1, <1>6, <1>7, <1>8 DEF SubmitReveal

\* A bidder whose state cannot be read goes on record.
LEMMA SkipSound ==
    ASSUME IInvLoop, NEW p \in Pass, SkipUnread(p)
    PROVE  Carried(p)
<1> DEFINE b == Head(pass[p].todo)
           more == pass[p].skipped \cup {b}
<1>0. /\ KeeperTypeOK /\ KeeperShape /\ pass[p].at = "look" /\ pass[p].todo # <<>>
      /\ UNCHANGED varsV2
  BY DEF IInvLoop, IInvKeeper, SkipUnread
<1>1. PICK r \in RoundId : r = RoundOf(p)
  BY <1>0 DEF KeeperShape, PassShape, RoundOf
<1>2. /\ pass \in [Pass -> PassRecord] /\ pass[p] \in PassRecord
      /\ pass[p].skipped \in SUBSET Account /\ pass[p].envelope \in Envelope \cup {None}
  BY <1>0 DEF KeeperTypeOK, PassRecord
<1>3. pass[p].todo \in Seq(Account)
  BY <1>0 DEF KeeperShape, PassShape
<1>4. more \in SUBSET Account /\ pass[p].skipped \subseteq more /\ b \in more
  BY <1>0, <1>2, <1>3
<1>5. Advance(p, more, pass[p].envelope)
  <2>1. pass' = [pass EXCEPT ![p] = [pass[p] EXCEPT !.todo = Tail(pass[p].todo), !.skipped = more]]
    BY <1>2 DEF SkipUnread
  <2> HIDE DEF more
  <2>2. [pass[p] EXCEPT !.todo = Tail(pass[p].todo), !.skipped = more]
            = [pass[p] EXCEPT !.at = "look", !.todo = Tail(pass[p].todo),
                              !.envelope = pass[p].envelope, !.skipped = more]
    BY <1>0, <1>2 DEF PassRecord
  <2> QED BY <2>1, <2>2 DEF Advance
<1> HIDE DEF more
<1> QED BY <1>0, <1>1, <1>2, <1>4, <1>5, AdvanceSound

---------------------------------------------------------------------------
(* The whole process.                                                      *)

\* A step of one pass, whatever goes wrong in it.
LEMMA PassCarried ==
    ASSUME IInvLoop, NEW p \in Pass, Work(p) \/ Fault(p) \/ SkipUnread(p)
    PROVE  Carried(p)
<1>1. CASE Work(p)
  BY <1>1, OpeningSound, LookSound, SubmitRevealSound, ClosingSound DEF Work
<1>2. CASE Fault(p)
  BY <1>2, IdleCarried DEF Fault, Throw, Failure, IInvLoop
<1> QED BY <1>1, <1>2, SkipSound

\* The invariant of the loop, step by step.
LEMMA NextIInvLoop == IInvLoop /\ [KeeperNext]_keeperAllVars => IInvLoop'
<1> SUFFICES ASSUME IInvLoop, [KeeperNext]_keeperAllVars PROVE IInvLoop'
  OBVIOUS
<1>1. IInvKeeper /\ KeeperTypeOK /\ RevealsSound /\ \A q \in Pass : LoopSound(q)
  BY DEF IInvLoop
<1>2. IInvV2 /\ KeeperShape /\ RoundsStored
  BY <1>1 DEF IInvKeeper
<1>3. IInvKeeper' /\ [NextV2]_varsV2
  BY <1>1, NextIInvKeeper, NextIsRoundStep
<1>4. RevealsSound' /\ \A r \in RoundId : Onward(r)
  BY <1>1, <1>2, <1>3, StepOnward
<1>5. now' \in Int
  <2>1. TypeOKV2'
    BY <1>3 DEF IInvKeeper, IInvV2
  <2> QED BY <2>1, LedgerAssumption, U64Assumption DEF TypeOKV2, LedgerTypeOK, Time
<1>6. ASSUME NEW q \in Pass, pass'[q] = pass[q] PROVE LoopSound(q)'
  <2>1. pass[q].at # "idle" => RoundOf(q) \in RoundId /\ Stored(RoundOf(q))
    BY <1>2 DEF KeeperShape, PassShape, RoundOf, RoundsStored
  <2> QED BY <1>1, <1>2, <1>4, <1>5, <1>6, <2>1, LoopStays
<1>7. faults' \in 0 .. MaxFaults
  <2>1. faults' = faults \/ (faults < MaxFaults /\ faults' = faults + 1)
    BY DEF KeeperNext, keeperAllVars, keeperVars, Work, Start, CheckStale, SubmitVoid, Keep,
           SubmitOpen, Sweep, Look, SubmitReveal, Close, SubmitClear, AfterClear, SettleReply,
           Finish, Fault, SkipUnread, Restart, ReadOnly
  <2>2. faults \in 0 .. MaxFaults /\ MaxFaults \in Nat
    BY <1>1, KeeperAssumption DEF KeeperTypeOK
  <2> QED BY <2>1, <2>2
<1>8. pass \in [Pass -> PassRecord]
  BY <1>1 DEF KeeperTypeOK, PassRecord
<1>9. pass' \in [Pass -> PassRecord] /\ \A q \in Pass : LoopSound(q)'
  <2>1. CASE UNCHANGED pass
    BY <1>6, <1>8, <2>1
  <2>2. ASSUME NEW p \in Pass, Work(p) \/ Fault(p) \/ SkipUnread(p)
        PROVE  pass' \in [Pass -> PassRecord] /\ \A q \in Pass : LoopSound(q)'
    <3>1. LoopSound(p)' /\ \E rec : MovedTo(p, rec)
      BY <2>2, PassCarried DEF Carried
    <3> QED BY <1>6, <3>1 DEF MovedTo
  <2>3. CASE Restart
    <3>1. Idle(None) \in PassRecord /\ Idle(None).at = "idle"
      BY DEF Idle, PassRecord, Stage
    <3>2. pass' = [p \in Pass |-> Idle(None)]
      BY <2>3 DEF Restart
    <3> HIDE DEF Idle
    <3> QED BY <3>1, <3>2 DEF LoopSound, InLoop, BeforeLoop
  <2> QED BY <2>1, <2>2, <2>3 DEF KeeperNext, keeperAllVars, keeperVars
<1>10. KeeperTypeOK'
  <2>1. KeeperShape'
    BY <1>3 DEF IInvKeeper
  <2> QED BY <1>7, <1>9, <2>1 DEF KeeperShape, PassShape, KeeperTypeOK, PassRecord, RoundOf
<1> QED BY <1>3, <1>4, <1>9, <1>10 DEF IInvLoop

\* At the start no pass is under way.
LEMMA InitIInvLoop == KeeperInit => IInvLoop
<1> SUFFICES ASSUME KeeperInit PROVE IInvLoop
  OBVIOUS
<1>1. IInvKeeper /\ KeeperShape
  BY InitIInvKeeper DEF IInvKeeper
<1>2. Idle(None) \in PassRecord /\ Idle(None).at = "idle"
  BY DEF Idle, PassRecord, Stage
<1>3. pass = [p \in Pass |-> Idle(None)] /\ faults = 0
  BY DEF KeeperInit
<1>4. KeeperTypeOK
  <2>1. pass \in [Pass -> PassRecord]
    BY <1>2, <1>3
  <2>2. faults \in 0 .. MaxFaults
    BY <1>3, KeeperAssumption
  <2> QED BY <1>1, <2>1, <2>2 DEF KeeperShape, PassShape, KeeperTypeOK, PassRecord, RoundOf
<1>5. \A p \in Pass : LoopSound(p)
  BY <1>2, <1>3 DEF LoopSound, InLoop, BeforeLoop
<1>6. RevealsSound
  BY DEF KeeperInit, InitV2, StorageInitV2, RevealsSound, RevealSound, Stored
<1> QED BY <1>1, <1>4, <1>5, <1>6 DEF IInvLoop

\* Only a round that has moved on makes a reveal fail a pass: whatever this
\* bidder sealed is tolerated.
LEMMA RevealStopsNoPass ==
    ASSUME IInvLoop, [KeeperNext]_keeperAllVars, NEW p \in Pass,
           pass[p].at = "reveal", pass'[p].at = "idle",
           pass'[p].failure \notin {None, "Network"}
    PROVE  roundV2[RoundOf(p)].status # "Revealing"
<1>1. pass \in [Pass -> PassRecord] /\ pass'[p] # pass[p]
  BY DEF IInvLoop, KeeperTypeOK, PassRecord
<1>2. ~ Restart /\ ~ (UNCHANGED pass)
  BY <1>1 DEF Restart, Idle
<1>3. PICK q \in Pass : Work(q) \/ Fault(q) \/ SkipUnread(q)
  BY <1>2 DEF KeeperNext, keeperAllVars, keeperVars
<1>4. q = p
  BY <1>1, <1>3, PassCarried DEF Carried, MovedTo
<1>5. ~ Fault(p)
  BY <1>1 DEF Fault, Throw, Idle
<1>6. SubmitReveal(p)
  BY <1>3, <1>4, <1>5 DEF Work, Start, CheckStale, SubmitVoid, Keep, SubmitOpen, Sweep, Look,
     Close, SubmitClear, AfterClear, SettleReply, Finish, SkipUnread
<1>7. ~ NextBidder(p)
  <2>1. pass[p] \in PassRecord
    BY <1>1
  <2> QED BY <1>1, <2>1 DEF NextBidder, PassRecord
<1>8. PICK b, e : RevealError(RoundOf(p), b, e) # Ok
                 /\ RevealError(RoundOf(p), b, e) \notin ToleratedReveal
  BY <1>6, <1>7 DEF SubmitReveal
<1> QED BY <1>8, RevealErrorFacts

---------------------------------------------------------------------------
(* What the status server and the dry run tell operators.                  *)

\* A call is accepted exactly when none of its checks fails.
LEMMA AcceptedFacts ==
    ASSUME NEW r, NEW b, NEW e, NEW caller
    PROVE  /\ Accepts(OpenRevealError(r, caller)) <=>
                 /\ roundV2[r].status \notin {"Settled", "Voided", "Cleared", "Revealing"}
                 /\ ~ (now <= roundV2[r].commit_deadline)
                 /\ roundV2[r].protocol_version = 3 =>
                        /\ ~ (now < TimeOfRound(roundV2[r].reveal_round))
                        /\ ~ (now > roundV2[r].reveal_deadline)
                        /\ ~ (/\ revealV3[r].policy # None /\ now < revealV3[r].policy
                              /\ caller # roundV2[r].operator)
                 /\ HasSignature(roundV2[r].reveal_round)
           /\ Accepts(ClearError(r)) <=>
                 /\ roundV2[r].status = "Revealing"
                 /\ ~ (now <= roundV2[r].reveal_deadline)
           /\ Accepts(SettleError(r)) <=>
                 roundV2[r].mode = "Auction" /\ roundV2[r].status = "Cleared"
           /\ Accepts(VoidError(r)) <=> roundV2[r].status = "Open" /\ VoidDueV2(r)
<1>1. ASSUME NEW checks, NEW n \in Nat, DOMAIN checks = 1 .. n,
             \A i \in 1 .. n : checks[i][2] \in ErrorCode
      PROVE  FirstFailed(checks) = Ok <=> \A i \in 1 .. n : ~ checks[i][1]
  <2>1. Ok \notin ErrorCode
    BY DEF Ok, ErrorCode
  <2> QED BY <1>1, <2>1, FirstFailedFacts
<1>2. Accepts(OpenRevealError(r, caller)) <=>
                 /\ roundV2[r].status \notin {"Settled", "Voided", "Cleared", "Revealing"}
                 /\ ~ (now <= roundV2[r].commit_deadline)
                 /\ roundV2[r].protocol_version = 3 =>
                        /\ ~ (now < TimeOfRound(roundV2[r].reveal_round))
                        /\ ~ (now > roundV2[r].reveal_deadline)
                        /\ ~ (/\ revealV3[r].policy # None /\ now < revealV3[r].policy
                              /\ caller # roundV2[r].operator)
                 /\ HasSignature(roundV2[r].reveal_round)
  <2> DEFINE round == roundV2[r]
             v3 == round.protocol_version = 3
             checks == <<
            <<round.status = "Settled", "AlreadySettled">>,
            <<round.status = "Voided", "RoundVoided">>,
            <<round.status = "Cleared", "AlreadyCleared">>,
            <<round.status = "Revealing", "RevealAlreadyOpen">>,
            <<now <= round.commit_deadline, "CommitNotClosed">>,
            <<v3 /\ now < TimeOfRound(round.reveal_round), "CommitNotClosed">>,
            <<v3 /\ now > round.reveal_deadline, "RevealWindowClosed">>,
            <<v3 /\ revealV3[r].policy # None /\ now < revealV3[r].policy
                 /\ caller # round.operator, "Unauthorized">>,
            <<~ HasSignature(round.reveal_round), "InvalidDrandSignature">> >>
  <2>1. DOMAIN checks = 1 .. 9 /\ \A i \in 1 .. 9 : checks[i][2] \in ErrorCode
    BY DEF ErrorCode
  <2>2. OpenRevealError(r, caller) = FirstFailed(checks)
    BY DEF OpenRevealError
  <2>3. /\ checks[1][1] <=> round.status = "Settled"
        /\ checks[2][1] <=> round.status = "Voided"
        /\ checks[3][1] <=> round.status = "Cleared"
        /\ checks[4][1] <=> round.status = "Revealing"
        /\ checks[5][1] <=> now <= round.commit_deadline
        /\ checks[6][1] <=> v3 /\ now < TimeOfRound(round.reveal_round)
        /\ checks[7][1] <=> v3 /\ now > round.reveal_deadline
        /\ checks[8][1] <=> v3 /\ revealV3[r].policy # None /\ now < revealV3[r].policy
                               /\ caller # round.operator
        /\ checks[9][1] <=> ~ HasSignature(round.reveal_round)
    OBVIOUS
  <2> HIDE DEF checks
  <2>4. (\A i \in 1 .. 9 : ~ checks[i][1]) <=>
            /\ ~ checks[1][1] /\ ~ checks[2][1] /\ ~ checks[3][1] /\ ~ checks[4][1]
            /\ ~ checks[5][1] /\ ~ checks[6][1] /\ ~ checks[7][1] /\ ~ checks[8][1]
            /\ ~ checks[9][1]
    <3>1. \A i \in 1 .. 9 : i = 1 \/ i = 2 \/ i = 3 \/ i = 4 \/ i = 5 \/ i = 6 \/ i = 7
                            \/ i = 8 \/ i = 9
      OBVIOUS
    <3> QED BY <3>1
  <2>5. Accepts(OpenRevealError(r, caller)) <=> \A i \in 1 .. 9 : ~ checks[i][1]
    BY <1>1, <2>1, <2>2 DEF Accepts
  <2> QED BY <2>3, <2>4, <2>5
<1>3. Accepts(ClearError(r)) <=>
          roundV2[r].status = "Revealing" /\ ~ (now <= roundV2[r].reveal_deadline)
  <2> DEFINE round == roundV2[r]
             checks == <<
            <<round.status = "Cleared", "AlreadyCleared">>,
            <<round.status = "Settled", "AlreadySettled">>,
            <<round.status = "Voided", "RoundVoided">>,
            <<round.status # "Revealing", "RevealNotOpen">>,
            <<now <= round.reveal_deadline, "RevealStillOpen">> >>
  <2>1. DOMAIN checks = 1 .. 5 /\ \A i \in 1 .. 5 : checks[i][2] \in ErrorCode
    BY DEF ErrorCode
  <2>2. ClearError(r) = FirstFailed(checks)
    BY DEF ClearError
  <2>3. /\ checks[1][1] <=> round.status = "Cleared"
        /\ checks[2][1] <=> round.status = "Settled"
        /\ checks[3][1] <=> round.status = "Voided"
        /\ checks[4][1] <=> round.status # "Revealing"
        /\ checks[5][1] <=> now <= round.reveal_deadline
    OBVIOUS
  <2> HIDE DEF checks
  <2>4. \A i \in 1 .. 5 : i = 1 \/ i = 2 \/ i = 3 \/ i = 4 \/ i = 5
    OBVIOUS
  <2>5. Accepts(ClearError(r)) <=> \A i \in 1 .. 5 : ~ checks[i][1]
    BY <1>1, <2>1, <2>2 DEF Accepts
  <2> QED BY <2>3, <2>4, <2>5
<1>4. Accepts(SettleError(r)) <=> roundV2[r].mode = "Auction" /\ roundV2[r].status = "Cleared"
  <2> DEFINE round == roundV2[r]
             checks == <<
            <<round.status = "Settled", "AlreadySettled">>,
            <<round.status = "Voided", "RoundVoided">>,
            <<round.mode # "Auction" \/ round.status # "Cleared", "NotCleared">> >>
  <2>1. DOMAIN checks = 1 .. 3 /\ \A i \in 1 .. 3 : checks[i][2] \in ErrorCode
    BY DEF ErrorCode
  <2>2. SettleError(r) = FirstFailed(checks)
    BY DEF SettleError
  <2>3. /\ checks[1][1] <=> round.status = "Settled"
        /\ checks[2][1] <=> round.status = "Voided"
        /\ checks[3][1] <=> (round.mode # "Auction" \/ round.status # "Cleared")
    OBVIOUS
  <2> HIDE DEF checks
  <2>4. \A i \in 1 .. 3 : i = 1 \/ i = 2 \/ i = 3
    OBVIOUS
  <2>5. Accepts(SettleError(r)) <=> \A i \in 1 .. 3 : ~ checks[i][1]
    BY <1>1, <2>1, <2>2 DEF Accepts
  <2> QED BY <2>3, <2>4, <2>5
<1>5. Accepts(VoidError(r)) <=> roundV2[r].status = "Open" /\ VoidDueV2(r)
  <2> DEFINE round == roundV2[r]
             checks == <<
            <<round.status = "Voided", "RoundVoided">>,
            <<round.status = "Settled", "AlreadySettled">>,
            <<round.status # "Open" \/ ~ VoidDueV2(r), "NotVoidable">> >>
  <2>1. DOMAIN checks = 1 .. 3 /\ \A i \in 1 .. 3 : checks[i][2] \in ErrorCode
    BY DEF ErrorCode
  <2>2. VoidError(r) = FirstFailed(checks)
    BY DEF VoidError
  <2>3. /\ checks[1][1] <=> round.status = "Voided"
        /\ checks[2][1] <=> round.status = "Settled"
        /\ checks[3][1] <=> (round.status # "Open" \/ ~ VoidDueV2(r))
    OBVIOUS
  <2> HIDE DEF checks
  <2>4. \A i \in 1 .. 3 : i = 1 \/ i = 2 \/ i = 3
    OBVIOUS
  <2>5. Accepts(VoidError(r)) <=> \A i \in 1 .. 3 : ~ checks[i][1]
    BY <1>1, <2>1, <2>2 DEF Accepts
  <2> QED BY <2>3, <2>4, <2>5
<1> QED BY <1>2, <1>3, <1>4, <1>5

\* The reveal window is closed only after the deadline, and what is revealed
\* is not accepted again.
LEMMA RevealRefused ==
    ASSUME NEW r, NEW b, NEW e
    PROVE  /\ RevealError(r, b, e) = "RevealWindowClosed" => now > roundV2[r].reveal_deadline
           /\ Accepts(RevealError(r, b, e)) => SubmissionOf(r, b).revealed_envelope = None
<1> DEFINE round == roundV2[r]
           auction == round.mode = "Auction"
           amount == IF e.amount = None THEN 0 ELSE e.amount
           checks == <<
            <<round.status = "Settled", "AlreadySettled">>,
            <<round.status = "Voided", "RoundVoided">>,
            <<round.status # "Revealing", "RevealNotOpen">>,
            <<now > round.reveal_deadline, "RevealWindowClosed">>,
            <<SubmissionOf(r, b).revealed_envelope # None, "AlreadyRevealed">>,
            <<SubmissionOf(r, b).commitment # Sha256(e), "HashMismatch">>,
            <<~ e.decodes, "MalformedPayload">>,
            <<auction /\ e.amount = None, "MalformedPayload">>,
            <<auction /\ amount <= 0, "InvalidAmount">>,
            <<auction /\ amount > SubmissionOf(r, b).escrow, "BidExceedsEscrow">>,
            <<~ auction /\ SubmissionOf(r, b).escrow # 0, "EscrowNotAllowed">> >>
<1>1. RevealError(r, b, e) = FirstFailed(checks)
  BY DEF RevealError
<1>2. DOMAIN checks = 1 .. 11
  OBVIOUS
<1>3. /\ checks[4][1] <=> now > round.reveal_deadline
      /\ checks[5][1] <=> SubmissionOf(r, b).revealed_envelope # None
  OBVIOUS
<1>4. \A i \in 1 .. 11 : checks[i][2] # Ok
  BY DEF Ok
<1>5. \A i \in 1 .. 11 : i # 4 => checks[i][2] # "RevealWindowClosed"
  OBVIOUS
<1> HIDE DEF checks
<1>6. \/ FirstFailed(checks) = Ok /\ \A i \in 1 .. 11 : ~ checks[i][1]
      \/ \E i \in 1 .. 11 : checks[i][1] /\ FirstFailed(checks) = checks[i][2]
  BY <1>2, FirstFailedFacts
<1>7. Ok # "RevealWindowClosed"
  BY DEF Ok
<1>8. FirstFailed(checks) = "RevealWindowClosed" => checks[4][1]
  BY <1>5, <1>6, <1>7
<1>9. FirstFailed(checks) = Ok => ~ checks[5][1]
  BY <1>4, <1>6
<1> QED BY <1>1, <1>3, <1>8, <1>9 DEF Accepts

\* An index with as many revealed bidders as it is long has no other bidder.
LEMMA AllRevealed ==
    ASSUME NEW r, NEW n \in Nat, NEW R,
           roundV2[r].bidders \in [1 .. n -> R],
           n <= CountRevealed(r), NEW b \in Bidders(r)
    PROVE  SubmissionOf(r, b).revealed_envelope # None
<1> DEFINE f == roundV2[r].bidders
           S == Bidders(r)
           T == {x \in S : SubmissionOf(r, x).revealed_envelope # None}
<1>1. f \in Surjection(1 .. n, S)
  BY DEF Bidders, Range, Surjection
<1>2. IsFiniteSet(1 .. n) /\ Cardinality(1 .. n) = n
  BY FS_Interval
<1>3. IsFiniteSet(S) /\ Cardinality(S) <= n
  BY <1>1, <1>2, FS_Surjection
<1>4. T \in SUBSET S
  OBVIOUS
<1> HIDE DEF S, f
<1>5. Cardinality(T) <= Cardinality(S) /\ (Cardinality(S) = Cardinality(T) => S = T)
      /\ Cardinality(T) \in Nat /\ Cardinality(S) \in Nat
  BY <1>3, <1>4, FS_Subset, FS_CardinalityType
<1>6. Cardinality(T) >= n
  BY DEF CountRevealed, S
<1>7. S = T
  BY <1>3, <1>5, <1>6
<1> QED BY <1>7 DEF S

\* The numbers of a stored round that the clock is compared with.
LEMMA RoundNumbers ==
    ASSUME IInvV2, NEW r \in RoundId, Stored(r)
    PROVE  /\ now \in Int /\ roundV2[r].commit_deadline \in Int /\ roundV2[r].reveal_deadline \in Int
           /\ TimeOfRound(roundV2[r].reveal_round) \in Int
           /\ VoidDueV2(r) <=> now > roundV2[r].reveal_deadline + VoidGrace
           /\ HasSignature(roundV2[r].reveal_round) => TimeOfRound(roundV2[r].reveal_round) <= now
<1>1. roundV2[r] \in RoundRecord /\ now \in 0 .. MaxNow /\ BeaconsDue
  BY DEF IInvV2, TypeOKV2, LedgerTypeOK, Stored
<1>2. /\ roundV2[r].commit_deadline \in Time /\ roundV2[r].reveal_deadline \in Time
      /\ roundV2[r].reveal_round \in Nat
  BY <1>1 DEF RoundRecord
<1>3. U64Max \in Nat /\ MaxNow \in 0 .. U64Max
  BY LedgerAssumption, U64Assumption DEF Time
<1>4. TimeOfRound(roundV2[r].reveal_round) \in Int
  BY <1>2, <1>3, TimeOfRoundInTime DEF Time
<1>5. VoidDueV2(r) <=> now > roundV2[r].reveal_deadline + VoidGrace
  BY <1>1, <1>2, <1>3, RoundTypesAssumption DEF VoidDueV2, SatAdd, Time
<1>6. HasSignature(roundV2[r].reveal_round) => TimeOfRound(roundV2[r].reveal_round) <= now
  BY <1>1 DEF HasSignature, BeaconsDue
<1> QED BY <1>1, <1>2, <1>3, <1>4, <1>5, <1>6 DEF Time

\* decideKeeperDryRunAction, phase by phase.
LEMMA PhaseFacts ==
    ASSUME IInvV2, PoliciesSound, NEW r \in RoundId, Stored(r), NEW revealed
    PROVE  /\ PhaseOf(r, revealed, now) = "stale-open" <=>
                  roundV2[r].status = "Open" /\ VoidDueV2(r)
           /\ PhaseOf(r, revealed, now) = "ready-to-clear" <=>
                  roundV2[r].status = "Revealing" /\ now > roundV2[r].reveal_deadline
           /\ PhaseOf(r, revealed, now) = "ready-to-settle" <=> roundV2[r].status = "Cleared"
           /\ PhaseOf(r, revealed, now) = "complete" <=> roundV2[r].status \in Terminal
           /\ PhaseOf(r, revealed, now) = "awaiting-void" =>
                  roundV2[r].protocol_version = 3 /\ now > roundV2[r].reveal_deadline
           /\ PhaseOf(r, revealed, now) = "awaiting-owner" => OwnersTurn(r, now)
           /\ PhaseOf(r, revealed, now) = "awaiting-clear" =>
                  revealed # None /\ ~ (revealed < Len(roundV2[r].bidders))
<1> DEFINE status == roundV2[r].status
           deadline == roundV2[r].reveal_deadline
           v3 == RevealStateOf(r) # None
           turn == OwnersTurn(r, now)
<1>1. status \in Status
  BY DEF IInvV2, TypeOKV2, Stored, RoundRecord
<1>2. now \in Int /\ deadline \in Int /\ (VoidDueV2(r) <=> now > deadline + VoidGrace)
  BY RoundNumbers
<1>3. v3 => roundV2[r].protocol_version = 3
  BY DEF RevealStateOf
<1> HIDE DEF v3, turn, status, deadline
<1>4. OpenPhase(r, now) =
          CASE now > deadline + VoidGrace -> "stale-open"
            [] now <= deadline + VoidGrace /\ v3 /\ now > deadline -> "awaiting-void"
            [] now <= deadline /\ turn -> "awaiting-owner"
            [] OTHER -> "awaiting-drand"
  BY DEF OpenPhase, v3, turn, deadline
<1>5. VoidGrace \in Nat
  BY RoundTypesAssumption
<1>6. /\ OpenPhase(r, now) = "stale-open" <=> VoidDueV2(r)
      /\ OpenPhase(r, now) \in {"stale-open", "awaiting-void", "awaiting-owner", "awaiting-drand"}
      /\ OpenPhase(r, now) = "awaiting-void" => v3 /\ now > deadline
      /\ OpenPhase(r, now) = "awaiting-owner" => turn
  <2>1. CASE now > deadline + VoidGrace
    <3>1. ~ (now <= deadline + VoidGrace) /\ ~ (now <= deadline)
      BY <1>2, <1>5, <2>1
    <3> QED BY <1>2, <1>4, <2>1, <3>1
  <2>2. CASE ~ (now > deadline + VoidGrace) /\ v3 /\ now > deadline
    <3>1. now <= deadline + VoidGrace /\ ~ (now <= deadline)
      BY <1>2, <1>5, <2>2
    <3> QED BY <1>2, <1>4, <2>2, <3>1
  <2>3. CASE ~ (now > deadline + VoidGrace) /\ ~ (v3 /\ now > deadline)
    <3>1. CASE now <= deadline /\ turn
      BY <1>2, <1>4, <2>3, <3>1
    <3>2. CASE ~ (now <= deadline /\ turn)
      BY <1>2, <1>4, <2>3, <3>2
    <3> QED BY <3>1, <3>2
  <2> QED BY <2>1, <2>2, <2>3
<1>7. /\ RevealingPhase(r, revealed, now) \in {"ready-to-clear", "revealing", "awaiting-clear"}
      /\ RevealingPhase(r, revealed, now) = "ready-to-clear" <=> now > deadline
      /\ RevealingPhase(r, revealed, now) = "awaiting-clear" =>
             revealed # None /\ ~ (revealed < Len(roundV2[r].bidders))
  <2> DEFINE some == revealed = None \/ revealed < Len(roundV2[r].bidders)
  <2>1. RevealingPhase(r, revealed, now) =
            CASE now > deadline -> "ready-to-clear"
              [] now <= deadline /\ some -> "revealing"
              [] OTHER -> "awaiting-clear"
    BY DEF RevealingPhase, deadline
  <2>2. some \/ (revealed # None /\ ~ (revealed < Len(roundV2[r].bidders)))
    OBVIOUS
  <2> HIDE DEF some
  <2>3. CASE now > deadline
    <3>1. ~ (now <= deadline)
      BY <1>2, <2>3
    <3> QED BY <2>1, <2>3, <3>1
  <2>4. CASE ~ (now > deadline)
    BY <1>2, <2>1, <2>2, <2>4
  <2> QED BY <2>3, <2>4
<1>8. PhaseOf(r, revealed, now) =
          CASE status = "Open" -> OpenPhase(r, now)
            [] status = "Revealing" -> RevealingPhase(r, revealed, now)
            [] status = "Cleared" -> "ready-to-settle"
            [] OTHER -> "complete"
  BY DEF PhaseOf, status
<1>9. /\ status = "Open" => PhaseOf(r, revealed, now) = OpenPhase(r, now)
      /\ status = "Revealing" => PhaseOf(r, revealed, now) = RevealingPhase(r, revealed, now)
      /\ status = "Cleared" => PhaseOf(r, revealed, now) = "ready-to-settle"
      /\ status \in {"Settled", "Voided"} => PhaseOf(r, revealed, now) = "complete"
  BY <1>8
<1>10. CASE status = "Open"
  BY <1>3, <1>6, <1>9, <1>10 DEF Terminal, status, deadline, turn
<1>11. CASE status = "Revealing"
  BY <1>7, <1>9, <1>11 DEF Terminal, status, deadline
<1>12. CASE status = "Cleared"
  BY <1>9, <1>12 DEF Terminal, status
<1>13. CASE status \in {"Settled", "Voided"}
  BY <1>9, <1>13 DEF Terminal, status
<1> QED BY <1>1, <1>10, <1>11, <1>12, <1>13 DEF Status

\* revealReady, against the checks open_reveal_v2 makes for the keeper.
LEMMA ReadyFacts ==
    ASSUME IInvV2, PoliciesSound, NEW r \in RoundId, Stored(r)
    PROVE  /\ OwnersTurn(r, now) <=> /\ roundV2[r].protocol_version = 3
                                     /\ revealV3[r].policy # None /\ now < revealV3[r].policy
           /\ RevealReady(r, now) /\ HasSignature(roundV2[r].reveal_round) =>
                  Accepts(OpenRevealError(r, KeeperAccount))
           /\ Accepts(OpenRevealError(r, KeeperAccount)) /\ NotItsOwn(r) =>
                  RevealReady(r, now) \/ now > roundV2[r].reveal_deadline
           /\ OwnersTurn(r, now) /\ NotItsOwn(r) => ~ Accepts(OpenRevealError(r, KeeperAccount))
<1> DEFINE v3 == roundV2[r].protocol_version = 3
           turn == revealV3[r].policy # None /\ now < revealV3[r].policy
           deadline == roundV2[r].reveal_deadline
           commits == roundV2[r].commit_deadline
           due == TimeOfRound(roundV2[r].reveal_round)
           signed == HasSignature(roundV2[r].reveal_round)
           own == KeeperAccount = roundV2[r].operator
           open == roundV2[r].status = "Open"
           accepted == Accepts(OpenRevealError(r, KeeperAccount))
<1>1. OwnersTurn(r, now) <=> v3 /\ turn
  BY DEF OwnersTurn, RevealStateOf, PoliciesSound, PolicySound
<1>2. roundV2[r].status \in Status
  BY DEF IInvV2, TypeOKV2, Stored, RoundRecord
<1>3. now \in Int /\ commits \in Int /\ deadline \in Int /\ due \in Int /\ (signed => due <= now)
  BY RoundNumbers
<1>4. accepted <=> /\ open /\ ~ (now <= commits) /\ signed
                   /\ v3 => ~ (now < due) /\ ~ (now > deadline) /\ ~ (turn /\ ~ own)
  BY <1>2, AcceptedFacts DEF Status
<1>5. RevealReady(r, now) <=> open /\ now > commits /\ now >= due /\ now <= deadline /\ ~ (v3 /\ turn)
  BY <1>1 DEF RevealReady
<1>6. NotItsOwn(r) <=> ~ own
  BY DEF NotItsOwn
<1> HIDE DEF v3, turn, deadline, commits, due, signed, own, open, accepted
<1>7. RevealReady(r, now) /\ signed => accepted
  BY <1>3, <1>4, <1>5
<1>8. accepted /\ NotItsOwn(r) => RevealReady(r, now) \/ now > deadline
  BY <1>3, <1>4, <1>5, <1>6
<1>9. OwnersTurn(r, now) /\ NotItsOwn(r) => ~ accepted
  BY <1>1, <1>4, <1>6
<1> QED BY <1>1, <1>7, <1>8, <1>9 DEF v3, turn, deadline, signed, accepted

\* What the status server says of a stored round, conjunct by conjunct.
LEMMA AdviceOfInvariant ==
    ASSUME IInvKeeper, PoliciesSound
    PROVE  AdviceMatchesContract
<1>0. IInvV2 /\ KeeperShape /\ NothingAbandoned
  BY DEF IInvKeeper
<1> SUFFICES ASSUME NEW r \in RoundId, Stored(r), NEW revealed \in RevealedCounts(r)
             PROVE
        LET view == RoundStatusView(r, revealed, now)
            opening(c) == OpenRevealError(r, c)
        IN  /\ view.phase = "stale-open" <=> Accepts(VoidError(r))
            /\ view.phase = "ready-to-clear" <=> Accepts(ClearError(r))
            /\ view.phase = "ready-to-settle" <=> Accepts(SettleError(r))
            /\ view.phase = "awaiting-void" => \A c \in Account : ~ Accepts(opening(c))
            /\ view.phase = "awaiting-owner" /\ NotItsOwn(r) => ~ Accepts(opening(KeeperAccount))
            /\ view.phase = "complete" <=> view.status \in Terminal
            /\ view.settlement = "terminal" => view.status \in Terminal
            /\ view.revealReady /\ HasSignature(roundV2[r].reveal_round) =>
                   Accepts(opening(KeeperAccount))
            /\ Accepts(opening(KeeperAccount)) /\ NotItsOwn(r) =>
                   view.revealReady \/ now > roundV2[r].reveal_deadline
            /\ view.revealWindowOpen =>
                   \A b \in Bidders(r), e \in Envelope : RevealError(r, b, e) # "RevealWindowClosed"
            /\ view.phase = "awaiting-clear" =>
                   \A b \in Bidders(r), e \in Envelope : ~ Accepts(RevealError(r, b, e))
  BY DEF AdviceMatchesContract
<1> DEFINE view == RoundStatusView(r, revealed, now)
           phase == PhaseOf(r, revealed, now)
<1>1. /\ view.phase = phase /\ view.status = roundV2[r].status
      /\ view.revealReady = RevealReady(r, now) /\ view.settlement = Indicator(r)
      /\ view.revealWindowOpen = (roundV2[r].status = "Revealing"
                                  /\ now <= roundV2[r].reveal_deadline)
  BY DEF RoundStatusView
<1>2. /\ roundV2[r].status \in Status /\ roundV2[r].bidders \in Seq(Account)
      /\ roundV2[r].status = "Cleared" => roundV2[r].mode = "Auction"
  BY <1>0 DEF IInvV2, TypeOKV2, RoundInv, RoundSound, Stored, RoundRecord
<1>3. /\ now \in Int /\ roundV2[r].reveal_deadline \in Int
  BY <1>0, RoundNumbers
<1> HIDE DEF view, phase
<1>4. phase = "stale-open" <=> Accepts(VoidError(r))
  BY <1>0, PhaseFacts, AcceptedFacts DEF phase
<1>5. phase = "ready-to-clear" <=> Accepts(ClearError(r))
  BY <1>0, <1>3, PhaseFacts, AcceptedFacts DEF phase
<1>6. phase = "ready-to-settle" <=> Accepts(SettleError(r))
  BY <1>0, <1>2, PhaseFacts, AcceptedFacts DEF phase
<1>7. phase = "awaiting-void" => \A c \in Account : ~ Accepts(OpenRevealError(r, c))
  BY <1>0, PhaseFacts, AcceptedFacts DEF phase
<1>8. phase = "awaiting-owner" /\ NotItsOwn(r) => ~ Accepts(OpenRevealError(r, KeeperAccount))
  BY <1>0, PhaseFacts, ReadyFacts DEF phase
<1>9. phase = "complete" <=> roundV2[r].status \in Terminal
  BY <1>0, PhaseFacts DEF phase
<1>10. Indicator(r) = "terminal" => roundV2[r].status \in Terminal
  BY <1>0 DEF Indicator, NothingAbandoned
<1>11. /\ RevealReady(r, now) /\ HasSignature(roundV2[r].reveal_round) =>
              Accepts(OpenRevealError(r, KeeperAccount))
       /\ Accepts(OpenRevealError(r, KeeperAccount)) /\ NotItsOwn(r) =>
              RevealReady(r, now) \/ now > roundV2[r].reveal_deadline
  BY <1>0, ReadyFacts
<1>12. now <= roundV2[r].reveal_deadline =>
           \A b \in Bidders(r), e \in Envelope : RevealError(r, b, e) # "RevealWindowClosed"
  BY <1>3, RevealRefused
<1>13. phase = "awaiting-clear" =>
           \A b \in Bidders(r), e \in Envelope : ~ Accepts(RevealError(r, b, e))
  <2> SUFFICES ASSUME phase = "awaiting-clear", NEW b \in Bidders(r), NEW e \in Envelope
               PROVE  ~ Accepts(RevealError(r, b, e))
    OBVIOUS
  <2>1. revealed # None /\ ~ (revealed < Len(roundV2[r].bidders))
    BY <1>0, PhaseFacts DEF phase
  <2>2. revealed = CountRevealed(r)
    BY <2>1 DEF RevealedCounts
  <2>3. PICK n \in Nat : n = Len(roundV2[r].bidders) /\ roundV2[r].bidders \in [1 .. n -> Account]
    BY <1>2
  <2>4. n <= CountRevealed(r)
    <3>1. IsFiniteSet(Bidders(r))
      <4>1. roundV2[r].bidders \in Surjection(1 .. n, Bidders(r))
        BY <2>3 DEF Bidders, Range, Surjection
      <4>2. IsFiniteSet(1 .. n)
        BY FS_Interval
      <4> QED BY <4>1, <4>2, FS_Surjection
    <3>2. {x \in Bidders(r) : SubmissionOf(r, x).revealed_envelope # None} \in SUBSET Bidders(r)
      OBVIOUS
    <3>3. CountRevealed(r) \in Nat
      BY <3>1, <3>2, FS_Subset, FS_CardinalityType DEF CountRevealed
    <3> QED BY <2>1, <2>2, <2>3, <3>3
  <2>5. SubmissionOf(r, b).revealed_envelope # None
    BY <2>3, <2>4, AllRevealed
  <2> QED BY <2>5, RevealRefused
<1> QED BY <1>1, <1>4, <1>5, <1>6, <1>7, <1>8, <1>9, <1>10, <1>11, <1>12, <1>13 DEF view

---------------------------------------------------------------------------
(* Theorems.                                                               *)

\* The keeper on top of the contract keeps the invariant of both.
THEOREM KeeperInvariant == KeeperSpec => []IInvKeeper
BY InitIInvKeeper, NextIInvKeeper, PTL DEF KeeperSpec

\* And the invariant of the reveal loop.
THEOREM LoopInvariant == KeeperSpec => []IInvLoop
BY InitIInvLoop, NextIInvLoop, PTL DEF KeeperSpec

\* submitSettlement and markRetryable: however many passes share a guard,
\* whatever fails and whenever the process restarts, one settlement of a round
\* is under way at a time, and a reservation ends with its attempt.
THEOREM OneSettlement == KeeperSpec => []OneSettlementAtATime
<1>1. IInvKeeper => OneSettlementAtATime
  BY DEF IInvKeeper, SettlementInv
<1> QED BY <1>1, KeeperInvariant, PTL

\* The guard's terminal entries and the watch loop's filter on the stored
\* status never cover a round that has not ended on chain.
THEOREM NoRoundAbandoned == KeeperSpec => []NothingAbandoned
<1>1. IInvKeeper => NothingAbandoned
  BY DEF IInvKeeper
<1> QED BY <1>1, KeeperInvariant, PTL

\* The keeper has no power of its own: with it, the contract behaves as without.
THEOREM KeeperIsPermissionless == KeeperSpec => SpecV2
<1>1. KeeperInit => InitV2
  BY DEF KeeperInit
<1> QED BY <1>1, NextIsRoundStep, KeeperInvariant, PTL DEF KeeperSpec, SpecV2

\* Every pass, guard entry and queue entry keeps its type, and a failing pass
\* throws a code of the contract, a trap or a network error.
THEOREM KeeperTypes == KeeperSpec => []KeeperTypeOK
<1>1. IInvLoop => KeeperTypeOK
  BY DEF IInvLoop
<1> QED BY <1>1, LoopInvariant, PTL

\* keepRoundV2: the reveal loop forgets nobody it could have revealed, whoever
\* else reveals meanwhile, whatever the others sealed and wherever it was
\* interrupted; who could not be read is on record.
THEOREM NobodyLeftBehind == KeeperSpec => []LoopLeavesNobodyBehind
<1>1. IInvLoop => LoopLeavesNobodyBehind
  <2> SUFFICES ASSUME IInvLoop, NEW p \in Pass, pass[p].at = "close", pass[p].todo = <<>>,
                      now <= roundV2[RoundOf(p)].reveal_deadline,
                      NEW b \in Account \ pass[p].skipped, Revealable(RoundOf(p), b)
               PROVE  SubmissionOf(RoundOf(p), b).valid
    BY DEF LoopLeavesNobodyBehind
  <2>1. Provided(p, b)
    BY DEF IInvLoop, LoopSound, InLoop
  <2>2. b \notin Range(pass[p].todo)
    BY DEF Range
  <2> QED BY <2>1, <2>2 DEF Provided
<1> QED BY <1>1, LoopInvariant, PTL

\* The reveal loop's catch, with INVALID_SUBMISSION: whatever one bidder sealed,
\* its reveal ends no pass; only a round that has left its reveal phase does.
THEOREM OneBidEndsNoPass == KeeperSpec => OneBidStopsNoPass
<1>1. IInvLoop /\ [KeeperNext]_keeperAllVars =>
          [\A p \in Pass :
              pass[p].at = "reveal" /\ pass'[p].at = "idle"
              /\ pass'[p].failure \notin {None, "Network"} =>
                  roundV2[RoundOf(p)].status # "Revealing"]_keeperAllVars
  BY RevealStopsNoPass
<1> QED BY <1>1, LoopInvariant, PTL DEF KeeperSpec, OneBidStopsNoPass

\* buildRoundStatus and decideKeeperDryRunAction: whatever the passes have done
\* and wherever they were interrupted, what operators are told to call the
\* contract accepts, what they are told to wait for it refuses, and no round
\* is reported over that has not ended.
THEOREM AdviceSound == KeeperSpec => []AdviceMatchesContract
<1>1. KeeperInit => IInvKeeper /\ PoliciesSound
  BY InitIInvKeeper, InitPoliciesSound DEF KeeperInit
<1>2. IInvKeeper /\ PoliciesSound /\ [KeeperNext]_keeperAllVars => (IInvKeeper /\ PoliciesSound)'
  BY NextIInvKeeper, NextIsRoundStep, StepKeepsPolicies DEF IInvKeeper
<1>3. IInvKeeper /\ PoliciesSound => AdviceMatchesContract
  BY AdviceOfInvariant
<1> QED BY <1>1, <1>2, <1>3, PTL DEF KeeperSpec
=============================================================================
