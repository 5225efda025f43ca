---------------------------- MODULE Parts_proofs ----------------------------
(***************************************************************************)
(* The parts of the system that touch no other, each for every value of    *)
(* its constants and any number of steps: the clearing loop, the storage   *)
(* of a seal, the calls of the SDK client, the bidding agent with its      *)
(* appraisal server, and the auction room.                                 *)
(***************************************************************************)
EXTENDS ClearingLoop, SealTtl, SdkCalls, BidderAgent, AuctionRoom, TLAPS

---------------------------------------------------------------------------
(* The clearing loop finds the winning bid, for every sequence of bids and *)
(* either rule; and there is never a second winner.                        *)

\* What the loop has established about the bids before position next.
PrefixWinner ==
    /\ ~ found => \A j \in 1 .. next - 1 : Offers[j] = None
    /\ found =>
        /\ winner \in 1 .. next - 1
        /\ Offers[winner] # None
        /\ best = Offers[winner]
        /\ \A j \in 1 .. next - 1 : j # winner /\ Offers[j] # None =>
              /\ ~ Beats(rule, Offers[j], best)
              /\ j < winner => Beats(rule, best, Offers[j])

LoopInv == TypeOK /\ PrefixWinner

\* Of two winning positions neither is earlier: clear has one outcome.
LEMMA WinnersEqual ==
    ASSUME NEW theRule, NEW offers \in Seq(Int \cup {None}),
           NEW i \in WinningBids(theRule, offers), NEW j \in WinningBids(theRule, offers)
    PROVE  i = j
<1>1. i \in Nat /\ j \in Nat /\ i \in Valid(offers) /\ j \in Valid(offers)
  BY DEF WinningBids, Valid
<1>2. CASE i < j
  <2>1. Beats(theRule, offers[j], offers[i])
    BY <1>1, <1>2 DEF WinningBids
  <2>2. ~ Beats(theRule, offers[j], offers[i])
    BY <1>1, <1>2 DEF WinningBids
  <2> QED BY <2>1, <2>2
<1>3. CASE j < i
  <2>1. Beats(theRule, offers[i], offers[j])
    BY <1>1, <1>3 DEF WinningBids
  <2>2. ~ Beats(theRule, offers[i], offers[j])
    BY <1>1, <1>3 DEF WinningBids
  <2> QED BY <2>1, <2>2
<1> QED BY <1>1, <1>2, <1>3

\* What clear compares are integers or the absence of an amount.
LEMMA OffersType ==
    ASSUME TypeOK
    PROVE  /\ Len(bids) \in Nat
           /\ DOMAIN Offers = 1 .. Len(bids)
           /\ \A j \in 1 .. Len(bids) :
                 /\ bids[j] \in BidRecord
                 /\ Offers[j] = IF bids[j].valid THEN bids[j].amount ELSE None
                 /\ Offers[j] \in Int \cup {None}
<1>1. /\ Len(bids) \in Nat /\ DOMAIN bids = 1 .. Len(bids)
      /\ \A j \in 1 .. Len(bids) : bids[j] \in BidRecord
  BY DEF TypeOK
<1> QED BY <1>1, ClearingLoopAssumption DEF Offers, BidRecord

\* Before the first bidder the loop of clear has found nothing.
LEMMA InitLoopInv == InitLoop => LoopInv
<1> SUFFICES ASSUME InitLoop PROVE LoopInv
  OBVIOUS
<1>1. bids \in Seq(BidRecord)
  BY ClearingLoopAssumption DEF InitLoop
<1>2. TypeOK
  <2>1. Len(bids) \in Nat
    BY <1>1
  <2>2. winner \in (1 .. Len(bids)) \cup {None} /\ found \in BOOLEAN
    BY DEF InitLoop
  <2> QED BY <1>1, <2>1, <2>2 DEF InitLoop, TypeOK
<1>3. PrefixWinner
  BY DEF InitLoop, PrefixWinner
<1> QED BY <1>2, <1>3 DEF LoopInv

\* A bid that clear passes over changes no winner.
LEMMA SkipLoopInv == LoopInv /\ Skip => LoopInv'
<1> SUFFICES ASSUME LoopInv, Skip PROVE LoopInv'
  OBVIOUS
<1> USE DEF LoopInv
<1>0. Offers' = Offers
  BY DEF Skip, Offers
<1>1. next \in 1 .. Len(bids) /\ Len(bids) \in Nat
  BY OffersType DEF TypeOK, Skip, Done
<1>2. Offers[next] = None
  BY OffersType, <1>1 DEF Skip
<1>3. TypeOK'
  BY <1>1 DEF TypeOK, Skip
<1>4. 1 .. next' - 1 = (1 .. next - 1) \cup {next}
  BY <1>1 DEF Skip
<1>5. PrefixWinner'
  BY <1>0, <1>1, <1>2, <1>4 DEF PrefixWinner, Skip, Beats
<1> QED BY <1>3, <1>5

\* After comparing a bid clear holds the winner among the bids it has seen.
LEMMA CompareLoopInv == LoopInv /\ Compare => LoopInv'
<1> SUFFICES ASSUME LoopInv, Compare PROVE LoopInv'
  OBVIOUS
<1> USE DEF LoopInv
<1>0. Offers' = Offers /\ rule' = rule /\ bids' = bids
  BY DEF Compare, Offers
<1>1. next \in 1 .. Len(bids) /\ Len(bids) \in Nat /\ next' = next + 1
  BY OffersType DEF TypeOK, Compare, Done
<1>2. Offers[next] = bids[next].amount /\ Offers[next] \in Int /\ Offers[next] # None
  BY OffersType, <1>1, ClearingLoopAssumption DEF Compare
<1>3. TypeOK'
  <2>1. rule' \in ClearingRule /\ bids' \in Seq(BidRecord) /\ next' \in 1 .. Len(bids') + 1
    BY <1>0, <1>1 DEF TypeOK
  <2>2. winner' \in (1 .. Len(bids')) \cup {None} /\ best' \in Int /\ found' \in BOOLEAN
    BY <1>0, <1>1, <1>2 DEF TypeOK, Compare
  <2> QED BY <2>1, <2>2 DEF TypeOK
<1>4. 1 .. next' - 1 = (1 .. next - 1) \cup {next}
  BY <1>1
<1>5. \A j \in 1 .. next - 1 : Offers[j] # None => Offers[j] \in Int
  BY OffersType, <1>1
<1> SUFFICES PrefixWinner'
  BY <1>3
<1>6. CASE Better
  <2>1. winner' = next /\ best' = Offers[next] /\ found' = TRUE
    BY <1>2, <1>6 DEF Compare
  <2>2. CASE ~ found
    BY <1>0, <1>1, <1>2, <1>4, <2>1, <2>2 DEF PrefixWinner
  <2>3. CASE found
    <3>1. /\ winner \in 1 .. next - 1 /\ best = Offers[winner] /\ best \in Int
          /\ Beats(rule, Offers[next], best)
      BY <1>2, <1>5, <1>6, <2>3 DEF PrefixWinner, Better
    <3>2. ASSUME NEW j \in 1 .. next - 1, Offers[j] # None
          PROVE  ~ Beats(rule, Offers[j], Offers[next]) /\ Beats(rule, Offers[next], Offers[j])
      <4>1. j = winner \/ ~ Beats(rule, Offers[j], best)
        BY <2>3, <3>2 DEF PrefixWinner
      <4> QED BY <1>2, <1>5, <3>1, <3>2, <4>1 DEF Beats
    <3> QED BY <1>0, <1>1, <1>2, <1>4, <2>1, <3>2 DEF PrefixWinner
  <2> QED BY <2>2, <2>3
<1>7. CASE ~ Better
  <2>1. found /\ ~ Beats(rule, Offers[next], best)
    BY <1>2, <1>7 DEF Better
  <2>2. winner' = winner /\ best' = best /\ found' = found
    BY <1>7 DEF Compare
  <2> QED BY <1>0, <1>1, <1>4, <2>1, <2>2 DEF PrefixWinner
<1> QED BY <1>6, <1>7

\* The loop invariant of clear and clear_v2 holds at every step.
THEOREM LoopInvariant == SpecLoop => []LoopInv
<1>1. LoopInv /\ [NextLoop]_loopVars => LoopInv'
  <2>1. ASSUME LoopInv, UNCHANGED loopVars PROVE LoopInv'
    <3>1. TypeOK'
      BY <2>1 DEF LoopInv, TypeOK, loopVars
    <3>2. Offers' = Offers
      BY <2>1 DEF Offers, loopVars
    <3>3. PrefixWinner'
      BY <2>1, <3>2 DEF LoopInv, PrefixWinner, Beats, loopVars
    <3> QED BY <3>1, <3>3 DEF LoopInv
  <2> QED BY <2>1, SkipLoopInv, CompareLoopInv DEF NextLoop
<1> QED BY <1>1, InitLoopInv, PTL DEF SpecLoop

\* At the end of the index the prefix clear has seen is the whole ballot.
LEMMA InvariantGivesWinner == LoopInv => LoopPicksWinner
<1> SUFFICES ASSUME LoopInv, Done
             PROVE  /\ found <=> Valid(Offers) # {}
                    /\ found => winner \in WinningBids(rule, Offers) /\ best = Offers[winner]
  BY DEF LoopPicksWinner
<1>1. DOMAIN Offers = 1 .. next - 1
  BY OffersType DEF LoopInv, TypeOK, Done
<1> QED BY <1>1 DEF LoopInv, PrefixWinner, Valid, WinningBids

\* clear and clear_v2 pick the winner the clearing rule defines: the best
\* valid amount, the earliest bidder among equals.
THEOREM ClearingCorrect == SpecLoop => []LoopPicksWinner
<1> QED BY LoopInvariant, InvariantGivesWinner, PTL

---------------------------------------------------------------------------
(* Seals outlive their round, for every schedule within the cap on TTL     *)
(* extensions and every pace of ledgers not faster than the five seconds   *)
(* storage.rs reckons with.                                                *)

\* From creation to the end of the buffer a round fits in one extension.  v2
\* and v3 rounds do: 30 days and one for the buffer, against 60.
RoundsFitOneBump ==
    \A s \in Schedule :
        s.reveal_deadline + PostRevealBuffer <= LedgerCloseSecs * PersistentBump

FitsU64 == \A s \in Schedule : s.reveal_deadline + PostRevealBuffer <= U64Max

LedgersNotFaster == \A secs \in CloseSecs : secs >= LedgerCloseSecs

\* The ledgers a committed seal has left are enough for the seconds its round
\* and the buffer have left; the 4 is what the division rounds off.
Covers ==
    liveUntil # Absent /\ now <= round.reveal_deadline + PostRevealBuffer =>
        LedgerCloseSecs * (liveUntil - sequence) + (LedgerCloseSecs - 1)
            >= round.reveal_deadline + PostRevealBuffer - now

SealInv ==
    /\ now \in Nat
    /\ sequence \in Nat
    /\ round \in Schedule
    /\ status \in {"Open", "Revealing"}
    /\ liveUntil \in Int \cup {Absent}
    /\ Covers

\* How the contract's TTL constants compare, from their definitions.
LEMMA ConstantTypes ==
    /\ LedgersPerDay \in Nat /\ PersistentBump \in Nat /\ TempThreshold \in Nat
    /\ U32Max \in Nat /\ U64Max \in Nat /\ MinTempTtl \in Nat /\ PostRevealBuffer \in Nat
    /\ PostRevealBuffer = 5 * LedgersPerDay
    /\ LedgersPerDay <= TempThreshold
    /\ TempThreshold <= PersistentBump /\ PersistentBump <= U32Max
    /\ MinTempTtl - 1 < TempThreshold - LedgersPerDay
    /\ \A s \in Schedule : s.commit_deadline \in Nat /\ s.reveal_deadline \in Nat
                           /\ s.commit_deadline < s.reveal_deadline
BY SealTtlAssumption, U64Assumption DEF LedgerCloseSecs

\* The conversion to ledgers loses nothing when the round fits.
LEMMA BumpCovers ==
    ASSUME RoundsFitOneBump, FitsU64, NEW s \in Schedule, NEW t \in Nat
    PROVE  LET bump == SealTtlFor(s.reveal_deadline, t)
           IN  /\ bump \in Nat
               /\ bump >= TempThreshold
               /\ t <= s.reveal_deadline =>
                    5 * bump + 4 >= s.reveal_deadline + PostRevealBuffer - t
<1> DEFINE secs == SatAdd(SatSub(s.reveal_deadline, t), PostRevealBuffer)
           ledgers == secs \div 5
           want == AtLeast(ledgers, TempThreshold)
<1>1. /\ s.reveal_deadline \in Nat
      /\ s.reveal_deadline + PostRevealBuffer <= 5 * PersistentBump
      /\ s.reveal_deadline + PostRevealBuffer <= U64Max
  BY ConstantTypes DEF RoundsFitOneBump, FitsU64, LedgerCloseSecs
<1>2. /\ secs \in Nat /\ secs <= 5 * PersistentBump
      /\ t <= s.reveal_deadline => secs = s.reveal_deadline - t + PostRevealBuffer
  BY <1>1, ConstantTypes DEF SatAdd, SatSub
<1>3. ledgers \in Nat /\ ledgers <= PersistentBump /\ 5 * ledgers + 4 >= secs
  <2> HIDE DEF secs
  <2> QED BY <1>2, ConstantTypes
<1>4. /\ want \in Nat /\ want >= TempThreshold /\ want >= ledgers
      /\ want <= PersistentBump /\ want <= U32Max
  <2> HIDE DEF ledgers
  <2> QED BY <1>3, ConstantTypes DEF AtLeast
<1>5. want % (U32Max + 1) = want
  <2> HIDE DEF want
  <2> QED BY <1>4, ConstantTypes
<1>6. SealTtlFor(s.reveal_deadline, t) = want
  <2>1. SealTtlFor(s.reveal_deadline, t) = AtMost(want % (U32Max + 1), PersistentBump)
    BY DEF SealTtlFor, LedgerCloseSecs
  <2> HIDE DEF want
  <2> QED BY <2>1, <1>4, <1>5, ConstantTypes DEF AtMost
<1> HIDE DEF want, ledgers, secs
<1> QED BY <1>1, <1>2, <1>3, <1>4, <1>6, ConstantTypes

\* Extending never shortens an entry.
LEMMA ExtendedNotShorter ==
    ASSUME RoundsFitOneBump, FitsU64, SealInv, NEW until \in Int
    PROVE  Extended(until) \in Int /\ Extended(until) >= until
<1> DEFINE bump == SealTtlFor(round.reveal_deadline, now)
<1>1. bump \in Nat
  BY BumpCovers DEF SealInv
<1> HIDE DEF bump
<1>2. Extended(until) = ExtendTtl(until, SatSub(bump, LedgersPerDay), bump)
  BY DEF Extended, bump
<1> QED BY <1>1, <1>2 DEF SealInv, ExtendTtl, AtLeast

\* A fresh entry is always extended, and by enough.
LEMMA FreshExtended ==
    ASSUME RoundsFitOneBump, FitsU64, SealInv, now <= round.reveal_deadline
    PROVE  LET until == Extended(sequence + MinTempTtl - 1)
           IN  /\ until \in Int
               /\ 5 * (until - sequence) + 4 >= round.reveal_deadline + PostRevealBuffer - now
<1> DEFINE bump == SealTtlFor(round.reveal_deadline, now)
<1>1. /\ bump \in Nat /\ bump >= TempThreshold
      /\ 5 * bump + 4 >= round.reveal_deadline + PostRevealBuffer - now
  BY BumpCovers DEF SealInv
<1>2. Extended(sequence + MinTempTtl - 1) =
         ExtendTtl(sequence + MinTempTtl - 1, SatSub(bump, LedgersPerDay), bump)
  BY DEF Extended
<1> HIDE DEF bump
<1>3. ExtendTtl(sequence + MinTempTtl - 1, SatSub(bump, LedgersPerDay), bump)
         = AtLeast(sequence + bump, sequence + MinTempTtl - 1)
  BY <1>1, ConstantTypes DEF SealInv, ExtendTtl, SatSub
<1> DEFINE until == AtLeast(sequence + bump, sequence + MinTempTtl - 1)
<1>4. until \in Int /\ until >= sequence + bump
  BY <1>1, ConstantTypes DEF SealInv, AtLeast
<1>5. round.reveal_deadline \in Nat
  BY ConstantTypes DEF SealInv
<1> HIDE DEF until
<1>6. Extended(sequence + MinTempTtl - 1) = until
  BY <1>2, <1>3 DEF until
<1> QED BY <1>1, <1>4, <1>5, <1>6, ConstantTypes DEF SealInv

\* Commits, openings, reads and the passing of time keep every seal covered.
LEMMA StepSealInv ==
    ASSUME RoundsFitOneBump, FitsU64, LedgersNotFaster
    PROVE  SealInv /\ [Next]_vars => SealInv'
<1> SUFFICES ASSUME SealInv, [Next]_vars PROVE SealInv'
  OBVIOUS
<1>0. round.reveal_deadline \in Nat /\ round.commit_deadline < round.reveal_deadline
      /\ round.commit_deadline \in Nat
  BY ConstantTypes DEF SealInv
\* A seal that is extended in place keeps covering its round.
<1>a. ASSUME liveUntil # Absent, liveUntil' = Extended(liveUntil), now' = now,
             sequence' = sequence, round' = round
      PROVE  liveUntil' \in Int \cup {Absent} /\ Covers'
  <2>1. liveUntil \in Int /\ liveUntil' \in Int /\ liveUntil' >= liveUntil
    BY <1>a, ExtendedNotShorter DEF SealInv
  <2> QED BY <1>0, <1>a, <2>1, ConstantTypes DEF SealInv, Covers, LedgerCloseSecs
<1>1. CASE Commit
  <2>1. now <= round.reveal_deadline
    BY <1>0, <1>1 DEF Commit, SealInv
  <2>2. CASE Live
    BY <1>1, <1>a, <2>2 DEF Commit, Live, SealInv
  <2>3. CASE ~ Live
    <3>1. liveUntil' = Extended(sequence + MinTempTtl - 1)
      BY <1>1, <2>3 DEF Commit
    <3>2. /\ liveUntil' \in Int
          /\ 5 * (liveUntil' - sequence) + 4 >= round.reveal_deadline + PostRevealBuffer - now
      BY <2>1, <3>1, FreshExtended
    <3> QED BY <1>0, <1>1, <3>2, ConstantTypes DEF Commit, SealInv, Covers, LedgerCloseSecs
  <2> QED BY <2>2, <2>3
<1>2. CASE OpenReveal
  <2>1. CASE Live
    BY <1>2, <1>a, <2>1 DEF OpenReveal, Live, SealInv
  <2>2. CASE ~ Live
    BY <1>2, <2>2 DEF OpenReveal, SealInv, Covers
  <2> QED BY <2>1, <2>2
<1>3. CASE GetSeal
  BY <1>3, <1>a DEF GetSeal, Live, SealInv
<1>4. ASSUME NEW secs \in CloseSecs, CloseLedger(secs) PROVE SealInv'
  <2>1. secs \in Nat /\ secs >= 5
    BY SealTtlAssumption DEF LedgersNotFaster, LedgerCloseSecs
  <2>2. /\ now' = now + secs /\ sequence' = sequence + 1
        /\ round' = round /\ status' = status /\ liveUntil' = liveUntil
    BY <1>4 DEF CloseLedger
  <2>3. Covers'
    BY <1>0, <2>1, <2>2, ConstantTypes DEF SealInv, Covers, LedgerCloseSecs
  <2> QED BY <2>1, <2>2, <2>3 DEF SealInv
<1>5. CASE UNCHANGED vars
  BY <1>5 DEF vars, SealInv, Covers
<1> QED BY <1>1, <1>2, <1>3, <1>4, <1>5 DEF Next

\* Before the first commit there is no seal to cover.
LEMMA InitSealInv == Init => SealInv
BY SealTtlAssumption DEF Init, SealInv, Covers

\* An entry that covers the reveal window is live throughout it.
LEMMA CoversMeansReadable == SealInv => SealReadable
<1> SUFFICES ASSUME SealInv, liveUntil # Absent,
                    now <= round.reveal_deadline + PostRevealBuffer
             PROVE  sequence <= liveUntil
  BY DEF SealReadable, Live
<1>1. round.reveal_deadline \in Nat
  BY ConstantTypes DEF SealInv
<1> QED BY <1>1, ConstantTypes DEF SealInv, Covers, LedgerCloseSecs

\* A committed seal stays readable through its round's reveal window and the
\* polling buffer, however commits, openings and reads are interleaved, when
\* the round fits one TTL extension and ledgers close no faster than assumed.
THEOREM SealOutlivesRound ==
    ASSUME RoundsFitOneBump, FitsU64, LedgersNotFaster
    PROVE  Spec => []SealReadable
<1>1. SealInv /\ [Next]_vars => SealInv'
  BY StepSealInv
<1> QED BY <1>1, InitSealInv, CoversMeansReadable, PTL DEF Spec

---------------------------------------------------------------------------
(* The calls of the SDK client: what a call reports of its transaction,    *)
(* against the ledger, whatever its retries, its signer and the pool do.   *)

\* A transaction as assembled so far.
BuiltTx == [id : 1 .. sdk.built, seq : Nat, value : CallValue \cup {NoValue}]

\* The call has a transaction; it has not sent it yet.
InCall == call.at \in {"sign", "signing", "send", "confirm"}
Unsent == call.at \in {"sign", "signing", "send"}

SdkTypes ==
    /\ sdk = [signer |-> sdk.signer, route |-> sdk.route, validated |-> sdk.validated,
              hashes |-> sdk.hashes, calls |-> sdk.calls, built |-> sdk.built]
    /\ sdk.built \in 0 .. MaxTx
    /\ call \in [at : {"idle", "validate", "build", "sign", "signing", "send", "confirm"},
                 want : CallValue \cup {NoValue}, tx : BuiltTx \cup {NoTx}, attempt : Int]
    /\ verdict \in [TxId -> {"none", "ok", "failed", "unknown"}]
    /\ final \in [TxId -> {"NOT_FOUND", "SUCCESS", "FAILED"}]
    /\ account \in [seq : Nat, value : CallValue \cup {NoValue}, open : BOOLEAN]
    /\ pool \subseteq BuiltTx

\* The transaction of a call is the last one assembled, carries what the call
\* commits, and has no verdict before the call ends.
CallOwnsLastTx ==
    /\ call.at \in {"validate", "build"} => call.tx = NoTx
    /\ InCall => call.tx # NoTx /\ verdict[call.tx.id] = "none"
    /\ call.tx # NoTx =>
        /\ call.tx.id = sdk.built
        /\ call.tx.value = call.want
        /\ call.tx.seq <= account.seq + 1

\* What is not sent has no verdict and no outcome; what waits in the pool has
\* no outcome, and is told from every other transaction by its hash.
Waiting ==
    /\ \A i \in TxId : i > sdk.built => verdict[i] = "none" /\ final[i] = "NOT_FOUND"
    /\ Unsent => final[call.tx.id] = "NOT_FOUND" /\ \A tx \in pool : tx.id # call.tx.id
    /\ \A tx \in pool :
        /\ final[tx.id] = "NOT_FOUND"
        /\ verdict[tx.id] # "failed"
        /\ \A other \in pool : other.id = tx.id => other = tx
        /\ call.tx # NoTx /\ tx.id = call.tx.id => tx = call.tx

\* No transaction in the pool comes after the one of the last call; once that
\* one is in, the rest are overtaken and its value stays.
LastTxIsLast ==
    /\ \A tx \in pool :
        /\ tx.seq <= account.seq + 1
        /\ call.tx # NoTx => tx.seq <= call.tx.seq
    /\ call.tx # NoTx /\ final[call.tx.id] = "SUCCESS" =>
        /\ account.value = call.tx.value
        /\ call.tx.seq <= account.seq

SdkInv == SdkTypes /\ CallOwnsLastTx /\ Waiting /\ LastTxIsLast /\ VerdictsHold

\* A call is settled: what it says is recorded for its transaction, if any.
LEMMA EndsFacts ==
    ASSUME SdkInv, NEW told \in {"ok", "failed", "unknown"}, Ends(told)
    PROVE  /\ call' = [call EXCEPT !.at = "idle"]
           /\ verdict' \in [TxId -> {"none", "ok", "failed", "unknown"}]
           /\ \A i \in TxId : verdict'[i] # verdict[i] =>
                call.tx # NoTx /\ i = call.tx.id /\ verdict'[i] = told
<1>1. CASE call.tx = NoTx
  BY <1>1 DEF SdkInv, SdkTypes, Ends, Goes
<1>2. CASE call.tx # NoTx
  <2>1. call.tx.id \in TxId
    BY <1>2, MaxTxAssumption DEF SdkInv, SdkTypes, BuiltTx, TxId
  <2> QED BY <1>2, <2>1 DEF SdkInv, SdkTypes, Ends, Goes, TxId
<1> QED BY <1>1, <1>2

\* A call that ends without sending anything and without another transaction.
LEMMA EndsKeeps ==
    ASSUME SdkInv, NEW told \in {"ok", "failed", "unknown"}, Ends(told),
           sdk'.built = sdk.built,
           sdk' = [signer |-> sdk'.signer, route |-> sdk'.route, validated |-> sdk'.validated,
                   hashes |-> sdk'.hashes, calls |-> sdk'.calls, built |-> sdk'.built],
           UNCHANGED <<account, pool, final>>,
           told = "ok" /\ call.tx # NoTx => final[call.tx.id] = "SUCCESS",
           told = "failed" /\ call.tx # NoTx =>
               final[call.tx.id] # "SUCCESS" /\ \A tx \in pool : tx.id # call.tx.id
    PROVE  SdkInv'
<1>1. /\ call' = [call EXCEPT !.at = "idle"]
      /\ verdict' \in [TxId -> {"none", "ok", "failed", "unknown"}]
      /\ \A i \in TxId : verdict'[i] # verdict[i] =>
            call.tx # NoTx /\ i = call.tx.id /\ verdict'[i] = told
  BY EndsFacts
<1>2. call'.at = "idle" /\ call'.tx = call.tx /\ call'.want = call.want
  BY <1>1 DEF SdkInv, SdkTypes
<1>3. BuiltTx' = BuiltTx
  BY DEF BuiltTx
<1>4. pool \subseteq [id : TxId, seq : Nat, value : CallValue \cup {NoValue}]
  BY MaxTxAssumption DEF SdkInv, SdkTypes, BuiltTx, TxId
<1>5. SdkTypes'
  BY <1>1, <1>3 DEF SdkInv, SdkTypes
<1>6. CallOwnsLastTx'
  BY <1>2 DEF SdkInv, CallOwnsLastTx, InCall
<1>7. Waiting'
  <2>1. ASSUME NEW i \in TxId, i > sdk.built
        PROVE  verdict'[i] = "none" /\ final[i] = "NOT_FOUND"
    <3>1. call.tx # NoTx => call.tx.id = sdk.built
      BY DEF SdkInv, CallOwnsLastTx
    <3>2. call.tx # NoTx => i # call.tx.id
      BY <3>1, <2>1 DEF SdkInv, SdkTypes, TxId
    <3> QED BY <1>1, <3>2, <2>1 DEF SdkInv, Waiting
  <2>2. ASSUME NEW tx \in pool
        PROVE  /\ final[tx.id] = "NOT_FOUND"
               /\ verdict'[tx.id] # "failed"
               /\ \A other \in pool : other.id = tx.id => other = tx
               /\ call.tx # NoTx /\ tx.id = call.tx.id => tx = call.tx
    <3>1. tx.id \in TxId
      BY <1>4
    <3> QED BY <3>1, <1>1 DEF SdkInv, Waiting
  <2> QED BY <2>1, <2>2, <1>2 DEF Waiting, Unsent
<1>8. LastTxIsLast'
  BY <1>2 DEF SdkInv, LastTxIsLast
<1>9. VerdictsHold'
  BY <1>1 DEF SdkInv, VerdictsHold
<1> QED BY <1>5, <1>6, <1>7, <1>8, <1>9 DEF SdkInv

\* The call goes on with the transaction it has, or with none.
LEMMA StepKeeps ==
    ASSUME SdkInv, UNCHANGED <<verdict, account, pool, final>>,
           sdk'.built = sdk.built,
           sdk' = [signer |-> sdk'.signer, route |-> sdk'.route, validated |-> sdk'.validated,
                   hashes |-> sdk'.hashes, calls |-> sdk'.calls, built |-> sdk'.built],
           call' \in [at : {"idle", "validate", "build", "sign", "signing", "send", "confirm"},
                      want : CallValue \cup {NoValue}, tx : BuiltTx \cup {NoTx}, attempt : Int],
           call'.tx # NoTx => call'.tx = call.tx /\ call'.want = call.want,
           call'.at \in {"validate", "build"} => call'.tx = NoTx,
           InCall' => Unsent /\ Unsent' /\ call'.tx = call.tx
    PROVE  SdkInv'
<1>3. BuiltTx' = BuiltTx
  BY DEF BuiltTx
<1>5. SdkTypes'
  BY <1>3 DEF SdkInv, SdkTypes
<1>4. Unsent' => Unsent /\ call'.tx = call.tx
  BY DEF InCall, Unsent
<1>6. CallOwnsLastTx'
  BY DEF SdkInv, CallOwnsLastTx, InCall, Unsent
<1>7. Waiting'
  BY <1>4 DEF SdkInv, Waiting
<1>8. LastTxIsLast'
  BY DEF SdkInv, LastTxIsLast
<1>9. VerdictsHold'
  BY DEF SdkInv, VerdictsHold
<1> QED BY <1>5, <1>6, <1>7, <1>8, <1>9 DEF SdkInv

\* A transaction is assembled at the sequence number after the account's.
LEMMA BuildKeeps ==
    ASSUME SdkInv, Build
    PROVE  SdkInv'
<1> DEFINE tx == [id |-> sdk.built + 1, seq |-> account.seq + 1, value |-> call.want]
<1>1. /\ sdk' = [signer |-> sdk.signer, route |-> sdk.route, validated |-> sdk.validated,
                 hashes |-> sdk.hashes, calls |-> sdk.calls, built |-> sdk.built + 1]
      /\ sdk'.built = sdk.built + 1
      /\ sdk'.built \in 1 .. MaxTx
  BY MaxTxAssumption DEF SdkInv, SdkTypes, Build
<1>2. /\ call' = [call EXCEPT !.at = "sign", !.tx = tx]
      /\ UNCHANGED <<verdict, account, pool, final>>
  BY DEF Build
<1>3. BuiltTx \subseteq BuiltTx' /\ tx \in BuiltTx'
  <2>1. 1 .. sdk.built \subseteq 1 .. sdk'.built
    BY <1>1 DEF SdkInv, SdkTypes
  <2>2. BuiltTx' = [id : 1 .. sdk'.built, seq : Nat, value : CallValue \cup {NoValue}]
    BY DEF BuiltTx
  <2>3. sdk.built + 1 \in 1 .. sdk'.built /\ account.seq + 1 \in Nat
        /\ call.want \in CallValue \cup {NoValue}
    BY <1>1, MaxTxAssumption DEF SdkInv, SdkTypes
  <2> QED BY <2>1, <2>2, <2>3 DEF BuiltTx
<1>4. tx # NoTx
  <2>1. tx \in [id : Nat, seq : Nat, value : CallValue \cup {NoValue}]
    BY <1>3, <1>1, MaxTxAssumption DEF BuiltTx
  <2> QED BY <2>1, NoTxAssumption
<1>5. call'.at = "sign" /\ call'.tx = tx /\ call'.want = call.want
      /\ tx.id = sdk.built + 1 /\ tx.seq = account.seq + 1 /\ tx.value = call.want
  BY <1>2 DEF SdkInv, SdkTypes
<1>6. verdict[tx.id] = "none" /\ final[tx.id] = "NOT_FOUND"
  <2>1. sdk.built + 1 \in TxId /\ sdk.built + 1 > sdk.built
    BY <1>1, MaxTxAssumption DEF SdkInv, SdkTypes, TxId
  <2> QED BY <2>1 DEF SdkInv, Waiting
<1>7. \A t \in pool : t.id # tx.id /\ t.id \in TxId
  BY MaxTxAssumption DEF SdkInv, SdkTypes, BuiltTx, TxId
<1> HIDE DEF tx
<1>8. SdkTypes'
  <2>1. call' \in [at : {"idle", "validate", "build", "sign", "signing", "send", "confirm"},
                   want : CallValue \cup {NoValue}, tx : BuiltTx' \cup {NoTx}, attempt : Int]
    BY <1>2, <1>3 DEF SdkInv, SdkTypes
  <2>2. sdk'.built \in 0 .. MaxTx
    BY <1>1, MaxTxAssumption
  <2> QED BY <1>1, <1>2, <1>3, <2>1, <2>2 DEF SdkInv, SdkTypes
<1>9. CallOwnsLastTx'
  <2>1. account.seq + 1 <= account.seq + 1
    BY DEF SdkInv, SdkTypes
  <2> QED BY <1>1, <1>2, <1>4, <1>5, <1>6, <2>1 DEF CallOwnsLastTx, InCall
<1>10. Waiting'
  <2>1. ASSUME NEW i \in TxId, i > sdk'.built
        PROVE  verdict[i] = "none" /\ final[i] = "NOT_FOUND"
    <3>1. i > sdk.built
      BY <2>1, <1>1, MaxTxAssumption DEF SdkInv, SdkTypes, TxId
    <3> QED BY <3>1 DEF SdkInv, Waiting
  <2> QED BY <2>1, <1>2, <1>5, <1>6, <1>7 DEF SdkInv, Waiting, Unsent
<1>11. LastTxIsLast'
  BY <1>2, <1>5, <1>6 DEF SdkInv, LastTxIsLast
<1>12. VerdictsHold'
  BY <1>2 DEF SdkInv, VerdictsHold
<1> QED BY <1>8, <1>9, <1>10, <1>11, <1>12 DEF SdkInv

\* The transaction of the call is sent, or may be.
LEMMA SendKeeps ==
    ASSUME SdkInv, At("send"), pool' = pool \cup {call.tx},
           UNCHANGED <<sdk, account, final>>,
           call' \in {[call EXCEPT !.at = "confirm"], [call EXCEPT !.at = "idle"]},
           verdict' = [verdict EXCEPT ![call.tx.id] = "unknown"] \/ UNCHANGED verdict,
           call'.at = "confirm" => UNCHANGED verdict
    PROVE  SdkInv'
<1>1. /\ call'.tx = call.tx /\ call'.want = call.want
      /\ call'.at \in {"confirm", "idle"}
      /\ call.tx # NoTx /\ call.tx \in BuiltTx /\ call.tx.id \in TxId
      /\ call.tx.id = sdk.built /\ verdict[call.tx.id] = "none"
  BY MaxTxAssumption DEF SdkInv, SdkTypes, CallOwnsLastTx, InCall, At, BuiltTx, TxId
<1>2. BuiltTx' = BuiltTx
  BY DEF BuiltTx
<1>3. final[call.tx.id] = "NOT_FOUND" /\ \A tx \in pool : tx.id # call.tx.id
  BY DEF SdkInv, Waiting, Unsent, At
<1>4. verdict' \in [TxId -> {"none", "ok", "failed", "unknown"}]
  BY <1>1 DEF SdkInv, SdkTypes
<1>5. \A i \in TxId : verdict'[i] # verdict[i] =>
        i = call.tx.id /\ verdict'[i] = "unknown" /\ call'.at # "confirm"
  BY <1>1 DEF SdkInv, SdkTypes
<1>6. SdkTypes'
  BY <1>1, <1>2, <1>4 DEF SdkInv, SdkTypes
<1>7. CallOwnsLastTx'
  BY <1>1, <1>5 DEF SdkInv, CallOwnsLastTx, InCall
<1>8. \A tx \in pool : tx.id \in TxId
  BY MaxTxAssumption DEF SdkInv, SdkTypes, BuiltTx, TxId
<1>9. Waiting'
  <2>1. ASSUME NEW i \in TxId, i > sdk.built
        PROVE  verdict'[i] = "none" /\ final[i] = "NOT_FOUND"
    <3>1. i # call.tx.id
      BY <1>1, <2>1 DEF SdkInv, SdkTypes, TxId
    <3> QED BY <3>1, <1>5, <2>1 DEF SdkInv, Waiting
  <2>2. ASSUME NEW tx \in pool'
        PROVE  /\ final[tx.id] = "NOT_FOUND"
               /\ verdict'[tx.id] # "failed"
               /\ \A other \in pool' : other.id = tx.id => other = tx
               /\ tx.id = call.tx.id => tx = call.tx
    BY <1>1, <1>3, <1>5, <1>8 DEF SdkInv, Waiting
  <2> QED BY <2>1, <2>2, <1>1 DEF Waiting, Unsent
<1>10. LastTxIsLast'
  <2>1. call.tx.seq <= account.seq + 1 /\ call.tx.seq <= call.tx.seq
    BY <1>1 DEF SdkInv, CallOwnsLastTx, BuiltTx
  <2> QED BY <1>1, <1>3, <2>1 DEF SdkInv, LastTxIsLast
<1>11. VerdictsHold'
  BY <1>3, <1>5 DEF SdkInv, VerdictsHold
<1> QED BY <1>6, <1>7, <1>9, <1>10, <1>11 DEF SdkInv

\* After a bad sequence number the call goes back to assemble a fresh one.
LEMMA RetryKeeps ==
    ASSUME SdkInv, SendBadSeq, Retries
    PROVE  SdkInv'
<1>1. /\ call' = [call EXCEPT !.at = "build", !.attempt = @ + 1, !.tx = NoTx]
      /\ verdict' = [verdict EXCEPT ![call.tx.id] = "failed"]
      /\ UNCHANGED <<sdk, wallet, account, pool, final>>
      /\ call.at = "send"
  BY DEF SendBadSeq, At
<1>2. call.tx # NoTx /\ call.tx.id \in TxId /\ call.tx.id = sdk.built
  BY <1>1, MaxTxAssumption DEF SdkInv, SdkTypes, CallOwnsLastTx, InCall, BuiltTx, TxId
<1>3. final[call.tx.id] = "NOT_FOUND" /\ \A tx \in pool : tx.id # call.tx.id
  BY <1>1 DEF SdkInv, Waiting, Unsent
<1>4. call'.at = "build" /\ call'.tx = NoTx
  BY <1>1 DEF SdkInv, SdkTypes
<1>5. \A i \in TxId : verdict'[i] = IF i = call.tx.id THEN "failed" ELSE verdict[i]
  BY <1>1 DEF SdkInv, SdkTypes
<1>6. BuiltTx' = BuiltTx
  BY <1>1 DEF BuiltTx
<1>7. SdkTypes'
  <2>1. call' \in [at : {"idle", "validate", "build", "sign", "signing", "send", "confirm"},
                   want : CallValue \cup {NoValue}, tx : BuiltTx \cup {NoTx}, attempt : Int]
    <3>1. call.attempt + 1 \in Int /\ call.want \in CallValue \cup {NoValue}
      BY DEF SdkInv, SdkTypes
    <3>2. call' = [at |-> "build", want |-> call.want, tx |-> NoTx, attempt |-> call.attempt + 1]
      BY <1>1 DEF SdkInv, SdkTypes
    <3> QED BY <3>1, <3>2
  <2> QED BY <1>1, <1>2, <1>6, <2>1 DEF SdkInv, SdkTypes
<1>8. CallOwnsLastTx'
  BY <1>4 DEF CallOwnsLastTx, InCall
<1>9. Waiting'
  <2>1. ASSUME NEW i \in TxId, i > sdk.built
        PROVE  verdict'[i] = "none" /\ final[i] = "NOT_FOUND"
    <3>1. i # call.tx.id
      BY <1>2, <2>1 DEF SdkInv, SdkTypes, TxId
    <3> QED BY <3>1, <1>5, <2>1 DEF SdkInv, Waiting
  <2>2. \A tx \in pool : tx.id \in TxId
    BY MaxTxAssumption DEF SdkInv, SdkTypes, BuiltTx, TxId
  <2> QED BY <2>1, <2>2, <1>1, <1>3, <1>4, <1>5 DEF SdkInv, Waiting, Unsent
<1>10. LastTxIsLast'
  BY <1>1, <1>4 DEF SdkInv, LastTxIsLast
<1>11. VerdictsHold'
  BY <1>1, <1>3, <1>5 DEF SdkInv, VerdictsHold
<1> QED BY <1>7, <1>8, <1>9, <1>10, <1>11 DEF SdkInv

\* The ledger includes the transaction that is next in sequence, which is
\* never one whose call has ended in a failure.
LEMMA IncludeKeeps ==
    ASSUME SdkInv, NEW tx \in pool, Include(tx)
    PROVE  SdkInv'
<1>1. /\ account' = [account EXCEPT !.seq = tx.seq,
                                    !.value = IF account.open THEN tx.value ELSE @]
      /\ final' = [final EXCEPT ![tx.id] = IF account.open THEN "SUCCESS" ELSE "FAILED"]
      /\ pool' = pool \ {tx}
      /\ tx.seq = account.seq + 1
      /\ UNCHANGED <<sdk, wallet, call, verdict>>
  BY DEF Include
<1>2. tx \in BuiltTx /\ tx.id \in TxId /\ tx.seq \in Nat
  BY MaxTxAssumption DEF SdkInv, SdkTypes, BuiltTx, TxId
<1>3. BuiltTx' = BuiltTx
  BY <1>1 DEF BuiltTx
<1>4. /\ account'.seq = account.seq + 1
      /\ account'.value = IF account.open THEN tx.value ELSE account.value
      /\ account.open \in BOOLEAN /\ account.seq \in Nat
  BY <1>1 DEF SdkInv, SdkTypes
<1>5. \A i \in TxId : final'[i] = IF i = tx.id THEN IF account.open THEN "SUCCESS" ELSE "FAILED"
                                 ELSE final[i]
  BY <1>1 DEF SdkInv, SdkTypes
<1>6. SdkTypes'
  <2>1. account' \in [seq : Nat, value : CallValue \cup {NoValue}, open : BOOLEAN]
    BY <1>1, <1>2 DEF SdkInv, SdkTypes, BuiltTx
  <2>2. final' \in [TxId -> {"NOT_FOUND", "SUCCESS", "FAILED"}]
    BY <1>1, <1>2 DEF SdkInv, SdkTypes
  <2> QED BY <1>1, <1>3, <2>1, <2>2 DEF SdkInv, SdkTypes
<1>7. \A t \in pool' : t \in pool /\ t.id # tx.id /\ t.id \in TxId
  BY <1>1, MaxTxAssumption DEF SdkInv, Waiting, SdkTypes, BuiltTx, TxId
<1>8. call.tx # NoTx => call.tx.id \in TxId /\ call.tx.seq \in Nat
  BY MaxTxAssumption DEF SdkInv, SdkTypes, BuiltTx, TxId
<1>9. CallOwnsLastTx'
  BY <1>1, <1>4, <1>8 DEF SdkInv, CallOwnsLastTx, InCall
<1>10. Waiting'
  <2>1. ASSUME NEW i \in TxId, i > sdk.built
        PROVE  final'[i] = "NOT_FOUND"
    <3>1. i # tx.id
      BY <1>2, <2>1 DEF SdkInv, SdkTypes, BuiltTx, TxId
    <3> QED BY <3>1, <1>5, <2>1 DEF SdkInv, Waiting
  <2>2. Unsent => call.tx.id # tx.id /\ call.tx.id \in TxId
    BY <1>8 DEF SdkInv, Waiting, Unsent, CallOwnsLastTx, InCall
  <2> QED BY <2>1, <2>2, <1>1, <1>5, <1>7 DEF SdkInv, Waiting, Unsent
<1>11. LastTxIsLast'
  <2>1. ASSUME NEW t \in pool'
        PROVE  /\ t.seq <= account'.seq + 1
               /\ call.tx # NoTx => t.seq <= call.tx.seq
    <3>1. t \in pool /\ t.seq \in Nat
      BY <1>7 DEF SdkInv, SdkTypes, BuiltTx
    <3> QED BY <3>1, <1>4 DEF SdkInv, LastTxIsLast
  <2>2. ASSUME call.tx # NoTx, final'[call.tx.id] = "SUCCESS"
        PROVE  /\ account'.value = call.tx.value
               /\ call.tx.seq <= account'.seq
    <3>1. CASE call.tx.id = tx.id
      <4>1. tx = call.tx
        BY <3>1, <2>2 DEF SdkInv, Waiting
      <4> QED BY <4>1, <3>1, <2>2, <1>1, <1>2, <1>4, <1>5
    <3>2. CASE call.tx.id # tx.id
      <4>1. final[call.tx.id] = "SUCCESS"
        BY <3>2, <2>2, <1>5, <1>8
      <4>2. tx.seq <= call.tx.seq /\ call.tx.seq <= account.seq
        BY <4>1, <2>2 DEF SdkInv, LastTxIsLast
      <4> QED BY <4>2, <2>2, <1>1, <1>2, <1>4, <1>8
    <3> QED BY <3>1, <3>2
  <2> QED BY <2>1, <2>2, <1>1 DEF LastTxIsLast
<1>12. VerdictsHold'
  <2>1. verdict[tx.id] # "failed" /\ final[tx.id] = "NOT_FOUND"
    BY DEF SdkInv, Waiting
  <2> QED BY <2>1, <1>1, <1>5 DEF SdkInv, VerdictsHold
<1> QED BY <1>6, <1>9, <1>10, <1>11, <1>12 DEF SdkInv

\* The account goes on by itself, or the pool loses a transaction.
LEMMA ElsewhereKeeps ==
    ASSUME SdkInv, UNCHANGED <<sdk, call, verdict, final>>,
           pool' \subseteq pool,
           account' \in [seq : Nat, value : CallValue \cup {NoValue}, open : BOOLEAN],
           account'.seq >= account.seq, account'.value = account.value
    PROVE  SdkInv'
<1>1. BuiltTx' = BuiltTx
  BY DEF BuiltTx
<1>2. SdkTypes'
  BY <1>1 DEF SdkInv, SdkTypes
<1>3. /\ account.seq \in Nat /\ account'.seq \in Nat
      /\ \A tx \in pool : tx.seq \in Nat
      /\ call.tx # NoTx => call.tx.seq \in Nat
  BY DEF SdkInv, SdkTypes, BuiltTx
<1>4. CallOwnsLastTx'
  BY <1>3 DEF SdkInv, CallOwnsLastTx, InCall
<1>5. Waiting'
  BY DEF SdkInv, Waiting, Unsent
<1>6. LastTxIsLast'
  BY <1>3 DEF SdkInv, LastTxIsLast
<1>7. VerdictsHold'
  BY DEF SdkInv, VerdictsHold
<1> QED BY <1>2, <1>4, <1>5, <1>6, <1>7 DEF SdkInv

\* A new client has assembled nothing.
LEMMA InitSdkInv == InitSdk => SdkInv
<1> SUFFICES ASSUME InitSdk PROVE SdkInv
  OBVIOUS
<1>1. SdkTypes
  BY MaxTxAssumption DEF InitSdk, SdkTypes, Idle, TxId
<1>2. CallOwnsLastTx /\ Waiting /\ LastTxIsLast /\ VerdictsHold
  BY DEF InitSdk, CallOwnsLastTx, InCall, Waiting, Unsent, LastTxIsLast, VerdictsHold, Idle
<1> QED BY <1>1, <1>2 DEF SdkInv

\* The invariant of the client, step by step.
LEMMA NextSdkInv == SdkInv /\ [NextSdk]_sdkVars => SdkInv'
<1> SUFFICES ASSUME SdkInv, [NextSdk]_sdkVars PROVE SdkInv'
  OBVIOUS
<1> DEFINE SdkRecord == [signer |-> sdk.signer, route |-> sdk.route, validated |-> sdk.validated,
                         hashes |-> sdk.hashes, calls |-> sdk.calls, built |-> sdk.built]
           Calls == [at : {"idle", "validate", "build", "sign", "signing", "send", "confirm"},
                     want : CallValue \cup {NoValue}, tx : BuiltTx \cup {NoTx}, attempt : Int]
<1>1. sdk = SdkRecord /\ call \in Calls
  BY DEF SdkInv, SdkTypes
<1>2. /\ call.at \in {"validate", "build"} => call.tx = NoTx
      /\ Unsent => final[call.tx.id] # "SUCCESS" /\ \A tx \in pool : tx.id # call.tx.id
  BY DEF SdkInv, CallOwnsLastTx, Waiting, Unsent
<1>3. ASSUME NEW v \in CallValue, CallMethod(v)
      PROVE  SdkInv'
  <2>1. /\ call' = [at |-> IF sdk.route = "page" THEN "build" ELSE "validate",
                    want |-> v, tx |-> NoTx, attempt |-> 1]
        /\ sdk' = [sdk EXCEPT !.calls = @ + 1]
        /\ UNCHANGED <<wallet, verdict, account, pool, final>>
    BY <1>3 DEF CallMethod, Idle
  <2>2. call' \in Calls /\ call'.at \in {"validate", "build"} /\ call'.tx = NoTx
    BY <2>1
  <2>3. ~ InCall'
    BY <2>2 DEF InCall
  <2> QED BY <1>1, <2>1, <2>2, <2>3, StepKeeps
<1>4. CASE Validate
  <2>1. /\ call' = [call EXCEPT !.at = "build"] /\ call.at = "validate"
        /\ sdk' = [sdk EXCEPT !.validated = TRUE]
        /\ UNCHANGED <<wallet, verdict, account, pool, final>>
    BY <1>4 DEF Validate, Goes, At
  <2>2. call' \in Calls /\ call'.at = "build" /\ call'.tx = NoTx
    BY <1>1, <1>2, <2>1
  <2>3. ~ InCall'
    BY <2>2 DEF InCall
  <2> QED BY <1>1, <2>1, <2>2, <2>3, StepKeeps
<1>5. CASE ValidationFails \/ NotSigned \/ PollarDeclined
  <2>1. Ends("failed") /\ UNCHANGED <<sdk, wallet, account, pool, final>>
    BY <1>5 DEF ValidationFails, NotSigned, PollarDeclined, Refused
  <2>2. call.at = "validate" \/ Unsent
    BY <1>5 DEF ValidationFails, NotSigned, PollarDeclined, At, Unsent
  <2> QED BY <1>1, <1>2, <2>1, <2>2, EndsKeeps
<1>6. CASE Build
  BY <1>6, BuildKeeps
<1>7. CASE BuildFails
  <2>1. /\ call' = [call EXCEPT !.at = "idle"] /\ call.at = "build"
        /\ UNCHANGED <<sdk, wallet, verdict, account, pool, final>>
    BY <1>7 DEF BuildFails, Goes, At
  <2>2. call' \in Calls /\ call'.at = "idle" /\ call'.tx = NoTx
    BY <1>1, <1>2, <2>1
  <2>3. ~ InCall'
    BY <2>2 DEF InCall
  <2> QED BY <1>1, <2>1, <2>2, <2>3, StepKeeps
<1>8. CASE SignLocally \/ AskPollar
  <2>1. PICK at \in {"signing", "send"} : call' = [call EXCEPT !.at = at]
    BY <1>8 DEF SignLocally, AskPollar, Goes
  <2>2. call.at = "sign" /\ UNCHANGED <<sdk, wallet, verdict, account, pool, final>>
    BY <1>8 DEF SignLocally, AskPollar, At
  <2>3. call' \in Calls /\ call'.at = at /\ call'.tx = call.tx /\ call'.want = call.want
    BY <1>1, <2>1
  <2>4. Unsent /\ Unsent'
    BY <2>2, <2>3 DEF Unsent
  <2> QED BY <1>1, <2>2, <2>3, <2>4, StepKeeps
<1>9. ASSUME NEW v \in CallValue, NEW by \in {"own", "other"}, PollarSigned(v, by)
      PROVE  SdkInv'
  <2>1. /\ call.at = "signing" /\ v = call.tx.value
        /\ call' = [call EXCEPT !.at = "send", !.tx.value = v]
        /\ UNCHANGED <<sdk, wallet, verdict, account, pool, final>>
    BY <1>9 DEF PollarSigned, VerifySigned, At
  <2>2. call.tx \in BuiltTx
    BY <1>1, <2>1 DEF SdkInv, CallOwnsLastTx, InCall
  <2>3. [call.tx EXCEPT !.value = v] = call.tx
    BY <2>1, <2>2 DEF BuiltTx
  <2>4. call' = [call EXCEPT !.at = "send"]
    BY <1>1, <2>1, <2>3
  <2>5. call' \in Calls /\ call'.at = "send" /\ call'.tx = call.tx /\ call'.want = call.want
    BY <1>1, <2>4
  <2>6. Unsent /\ Unsent'
    BY <2>1, <2>5 DEF Unsent
  <2> QED BY <1>1, <2>1, <2>5, <2>6, StepKeeps
<1>10. ASSUME NEW w \in {"own", "other", "none"}, SwitchWallet(w)
       PROVE  SdkInv'
  <2>1. UNCHANGED <<sdk, call, verdict, account, pool, final>>
    BY <1>10 DEF SwitchWallet
  <2>2. account \in [seq : Nat, value : CallValue \cup {NoValue}, open : BOOLEAN]
    BY DEF SdkInv, SdkTypes
  <2>3. account.seq >= account.seq
    BY <2>2
  <2> QED BY <2>1, <2>2, <2>3, ElsewhereKeeps
<1>11. CASE SendAccepted
  <2>1. /\ At("send") /\ pool' = pool \cup {call.tx} /\ call' = [call EXCEPT !.at = "confirm"]
        /\ UNCHANGED <<sdk, wallet, verdict, account, final>>
    BY <1>11 DEF SendAccepted, Goes
  <2> QED BY <2>1, SendKeeps
<1>12. CASE SendUnknown
  <2>1. /\ At("send") /\ Ends("unknown")
        /\ pool' = pool \/ pool' = pool \cup {call.tx}
        /\ UNCHANGED <<sdk, wallet, account, final>>
    BY <1>12 DEF SendUnknown
  <2>2. CASE pool' = pool
    BY <1>1, <2>1, <2>2, EndsKeeps
  <2>3. CASE pool' = pool \cup {call.tx}
    <3>1. call' = [call EXCEPT !.at = "idle"] /\ call'.at = "idle"
      BY <1>1, <2>1 DEF Ends, Goes
    <3>2. verdict' = [verdict EXCEPT ![call.tx.id] = "unknown"] \/ UNCHANGED verdict
      BY <2>1 DEF Ends
    <3> QED BY <2>1, <2>3, <3>1, <3>2, SendKeeps
  <2> QED BY <2>1, <2>2, <2>3
<1>13. CASE SendBadSeq
  <2>1. CASE Retries
    BY <1>13, <2>1, RetryKeeps
  <2>2. CASE ~ Retries
    <3>1. Ends("failed") /\ UNCHANGED <<sdk, wallet, account, pool, final>> /\ Unsent
      BY <1>13, <2>2 DEF SendBadSeq, At, Unsent
    <3> QED BY <1>1, <1>2, <3>1, EndsKeeps
  <2> QED BY <2>1, <2>2
<1>14. CASE Confirm
  <2>1. UNCHANGED <<wallet, account, pool, final>> /\ call.at = "confirm"
    BY <1>14 DEF Confirm, At
  <2>2. call.tx # NoTx /\ \A tx \in pool : final[tx.id] = "NOT_FOUND"
    BY <2>1 DEF SdkInv, CallOwnsLastTx, Waiting, InCall
  <2>3. CASE /\ final[call.tx.id] = "SUCCESS"
             /\ sdk' = [sdk EXCEPT !.hashes = @ \cup {call.tx.id}]
             /\ Ends("ok")
    BY <1>1, <2>1, <2>2, <2>3, EndsKeeps
  <2>4. CASE PollFailed /\ Ends("failed") /\ UNCHANGED sdk
    BY <1>1, <2>1, <2>2, <2>4, EndsKeeps DEF PollFailed
  <2> QED BY <1>14, <2>3, <2>4 DEF Confirm
<1>15. CASE GiveUp
  <2>1. Ends("unknown") /\ UNCHANGED <<sdk, wallet, account, pool, final>>
    BY <1>15 DEF GiveUp
  <2> QED BY <1>1, <2>1, EndsKeeps
<1>16. ASSUME NEW tx \in pool, Include(tx) \/ Drop(tx)
       PROVE  SdkInv'
  <2>1. CASE Include(tx)
    BY <2>1, IncludeKeeps
  <2>2. CASE Drop(tx)
    <3>1. pool' \subseteq pool /\ UNCHANGED <<sdk, wallet, call, verdict, account, final>>
      BY <2>2 DEF Drop
    <3>2. account \in [seq : Nat, value : CallValue \cup {NoValue}, open : BOOLEAN]
      BY DEF SdkInv, SdkTypes
    <3>3. account.seq >= account.seq
      BY <3>2
    <3> QED BY <3>1, <3>2, <3>3, ElsewhereKeeps
  <2> QED BY <1>16, <2>1, <2>2
<1>17. CASE UsedElsewhere \/ CommitsClose
  <2>1. account \in [seq : Nat, value : CallValue \cup {NoValue}, open : BOOLEAN]
    BY DEF SdkInv, SdkTypes
  <2>2. UNCHANGED <<sdk, wallet, call, verdict, pool, final>>
    BY <1>17 DEF UsedElsewhere, CommitsClose
  <2>3. CASE UsedElsewhere
    <3>1. account' = [account EXCEPT !.seq = @ + 1]
      BY <2>3 DEF UsedElsewhere
    <3>2. /\ account' \in [seq : Nat, value : CallValue \cup {NoValue}, open : BOOLEAN]
          /\ account'.seq >= account.seq /\ account'.value = account.value
      BY <2>1, <3>1
    <3> QED BY <2>2, <3>2, ElsewhereKeeps
  <2>4. CASE CommitsClose
    <3>1. account' = [account EXCEPT !.open = FALSE]
      BY <2>4 DEF CommitsClose
    <3>2. account' = [seq |-> account.seq, value |-> account.value, open |-> FALSE]
      BY <2>1, <3>1
    <3>3. account'.seq = account.seq /\ account'.value = account.value
          /\ account' \in [seq : Nat, value : CallValue \cup {NoValue}, open : BOOLEAN]
      BY <2>1, <3>2
    <3>4. account'.seq >= account.seq
      BY <2>1, <3>3
    <3> QED BY <2>2, <3>3, <3>4, ElsewhereKeeps
  <2> QED BY <1>17, <2>3, <2>4
<1>18. CASE UNCHANGED sdkVars
  <2>1. UNCHANGED <<sdk, call, verdict, account, pool, final>>
    BY <1>18 DEF sdkVars
  <2>2. account \in [seq : Nat, value : CallValue \cup {NoValue}, open : BOOLEAN]
    BY DEF SdkInv, SdkTypes
  <2>3. account.seq >= account.seq
    BY <2>2
  <2> QED BY <2>1, <2>2, <2>3, ElsewhereKeeps
<1> QED
  BY <1>3, <1>4, <1>5, <1>6, <1>7, <1>8, <1>9, <1>10, <1>11, <1>12, <1>13, <1>14, <1>15,
     <1>16, <1>17, <1>18 DEF NextSdk

\* It holds in every reachable state.
LEMMA SdkInvHolds == SpecSdk => []SdkInv
<1> QED BY InitSdkInv, NextSdkInv, PTL DEF SpecSdk

\* What a call reported of its transaction stays true of the ledger.
THEOREM ReportsHold == SpecSdk => []VerdictsHold
<1>1. SdkInv => VerdictsHold
  BY DEF SdkInv
<1> QED BY <1>1, SdkInvHolds, PTL

\* After a call that returned the round holds what this call committed.
THEOREM LastCommitStands == SpecSdk => []LastWordStands
<1>1. SdkInv => LastWordStands
  <2> SUFFICES ASSUME SdkInv, At("idle"), call.tx # NoTx, verdict[call.tx.id] = "ok"
               PROVE  account.value = call.want
    BY DEF LastWordStands
  <2>1. call.tx.id \in TxId
    BY MaxTxAssumption DEF SdkInv, SdkTypes, BuiltTx, TxId
  <2>2. final[call.tx.id] = "SUCCESS"
    BY <2>1 DEF SdkInv, VerdictsHold
  <2> QED BY <2>2 DEF SdkInv, LastTxIsLast, CallOwnsLastTx
<1> QED BY <1>1, SdkInvHolds, PTL

---------------------------------------------------------------------------
(* The bidding agent and the server it pays for appraisals: no charge      *)
(* without an appraisal, no appraisal received without a charge.           *)

\* The request the server has charged and not answered yet is one charge more
\* than appraisals received; the one it has appraised and not settled is one
\* appraisal more than charges.
AgentInv ==
    /\ server = [at |-> server.at, price |-> server.price, offer |-> server.offer]
    /\ tally = [spent |-> tally.spent, charges |-> tally.charges, made |-> tally.made,
                received |-> tally.received]
    /\ tally.charges \in Nat /\ tally.made \in Nat /\ tally.received \in Nat
    /\ tally.received + (IF server.at = "answer" THEN 1 ELSE 0) <= tally.charges
    /\ tally.charges + (IF server.at = "settle" THEN 1 ELSE 0) <= tally.made

\* The books of the server, step by step.
LEMMA NextAgentInv == AgentInv /\ [NextAgent]_agentVars => AgentInv'
<1> SUFFICES ASSUME AgentInv, [NextAgent]_agentVars PROVE AgentInv'
  OBVIOUS
<1>1. CASE UNCHANGED <<server, tally>>
  BY <1>1 DEF AgentInv
<1>2. CASE StartRun \/ AskPrice \/ CommitBid \/ RunFails \/ TimeRunsOut \/ CommitsEnd
           \/ UNCHANGED agentVars
  <2>1. UNCHANGED <<server, tally>>
    BY <1>2 DEF StartRun, AskPrice, CommitBid, RunFails, TimeRunsOut, CommitsEnd, agentVars
  <2> QED BY <1>1, <2>1
<1>3. CASE SendPayment
  BY <1>3 DEF SendPayment, AgentInv
<1>4. CASE Reject \/ SettleFails
  BY <1>4 DEF Reject, SettleFails, Serve, AgentInv
<1>5. CASE Appraise
  BY <1>5 DEF Appraise, Serve, AgentInv
<1>6. CASE Settle
  <2>1. /\ server.at = "settle" /\ server' = [server EXCEPT !.at = "answer"]
        /\ tally' = [tally EXCEPT !.spent = @ + server.offer, !.charges = @ + 1]
    BY <1>6 DEF Settle, Serve
  <2>2. /\ server'.at = "answer"
        /\ server' = [at |-> server'.at, price |-> server'.price, offer |-> server'.offer]
    BY <2>1 DEF AgentInv
  <2>3. /\ tally'.charges = tally.charges + 1 /\ tally'.made = tally.made
        /\ tally'.received = tally.received
        /\ tally' = [spent |-> tally'.spent, charges |-> tally'.charges,
                     made |-> tally'.made, received |-> tally'.received]
    BY <2>1 DEF AgentInv
  <2> QED BY <2>1, <2>2, <2>3 DEF AgentInv
<1>7. CASE Answer
  <2>1. server.at = "answer" /\ server' = [server EXCEPT !.at = "free"]
    BY <1>7 DEF Answer, Serve
  <2>2. /\ server'.at = "free"
        /\ server' = [at |-> server'.at, price |-> server'.price, offer |-> server'.offer]
    BY <2>1 DEF AgentInv
  <2>3. CASE tally' = [tally EXCEPT !.received = @ + 1]
    BY <2>1, <2>2, <2>3 DEF AgentInv
  <2>4. CASE UNCHANGED tally
    BY <2>1, <2>2, <2>4 DEF AgentInv
  <2> QED BY <1>7, <2>3, <2>4 DEF Answer
<1>8. ASSUME NEW price \in ServerPrice, SetPrice(price)
      PROVE  AgentInv'
  BY <1>8 DEF SetPrice, AgentInv
<1> QED BY <1>2, <1>3, <1>4, <1>5, <1>6, <1>7, <1>8 DEF NextAgent

\* Never more appraisals received than charged for, never more charges than
\* appraisals made: over any number of runs, prices and mandates.
THEOREM AppraisalsPaidFor == SpecAgent => []ChargedForAppraisals
<1>1. InitAgent => AgentInv
  BY DEF InitAgent, AgentInv
<1>2. AgentInv => ChargedForAppraisals
  BY DEF AgentInv, ChargedForAppraisals
<1> QED BY <1>1, <1>2, NextAgentInv, PTL DEF SpecAgent

---------------------------------------------------------------------------
(* The auction room: handlers that were under way when the room moved on   *)
(* to another round seal for the round they were called on.                *)

Bidder == Guest \cup Peer

\* The fields of a round, and of a handler, of the room.
AuctionShape(a) ==
    /\ a = [status |-> a.status, phase |-> a.phase, bid |-> a.bid, revealed |-> a.revealed]
    /\ a.bid = [w \in Bidder |-> a.bid[w]]

JobShape(j) ==
    j = [verb |-> j.verb, at |-> j.at, id |-> j.id, by |-> j.by, auditor |-> j.auditor,
         left |-> j.left, some |-> j.some]

RoomShapes ==
    /\ auctions = [id \in AuctionId |-> auctions[id]]
    /\ \A id \in AuctionId : AuctionShape(auctions[id])
    /\ \A j \in work : JobShape(j)

\* RoomSealsInTime, said of every bid there is.
BidsOpenInTime ==
    \A id \in AuctionId, w \in Bidder :
        auctions[id].bid[w] # NoAuction => auctions[id].bid[w].beacon = id

\* What a handler has sealed is for the round it was called on, whatever the
\* room has become since.
SealsOfWork ==
    \A j \in work : Is(j, "commit", "send") => \A seal \in j.left : seal.beacon = j.id

RoomInv == RoomShapes /\ BidsOpenInTime /\ SealsOfWork

\* What an update of a handler's record leaves.
LEMMA JobMoves ==
    ASSUME NEW j, JobShape(j), NEW x
    PROVE  /\ JobShape([j EXCEPT !.at = x]) /\ [j EXCEPT !.at = x].at = x
           /\ [j EXCEPT !.at = x].id = j.id
           /\ [j EXCEPT !.at = x].left = j.left
<1>1. PICK v, a, i, b, u, l, s :
          j = [verb |-> v, at |-> a, id |-> i, by |-> b, auditor |-> u, left |-> l, some |-> s]
  BY DEF JobShape
<1>2. [j EXCEPT !.at = x] = [verb |-> v, at |-> x, id |-> i, by |-> b,
                             auditor |-> u, left |-> l, some |-> s]
  BY <1>1
<1> QED BY <1>1, <1>2 DEF JobShape

\* The same for the round it is on,
LEMMA JobEnters ==
    ASSUME NEW j, JobShape(j), NEW x
    PROVE  /\ JobShape([j EXCEPT !.id = x]) /\ [j EXCEPT !.id = x].id = x
           /\ [j EXCEPT !.id = x].at = j.at
           /\ [j EXCEPT !.id = x].left = j.left
<1>1. PICK v, a, i, b, u, l, s :
          j = [verb |-> v, at |-> a, id |-> i, by |-> b, auditor |-> u, left |-> l, some |-> s]
  BY DEF JobShape
<1>2. [j EXCEPT !.id = x] = [verb |-> v, at |-> a, id |-> x, by |-> b,
                             auditor |-> u, left |-> l, some |-> s]
  BY <1>1
<1> QED BY <1>1, <1>2 DEF JobShape

\* for what is left to do,
LEMMA JobLeaves ==
    ASSUME NEW j, JobShape(j), NEW x
    PROVE  /\ JobShape([j EXCEPT !.left = x]) /\ [j EXCEPT !.left = x].left = x
           /\ [j EXCEPT !.left = x].at = j.at
           /\ [j EXCEPT !.left = x].id = j.id
<1>1. PICK v, a, i, b, u, l, s :
          j = [verb |-> v, at |-> a, id |-> i, by |-> b, auditor |-> u, left |-> l, some |-> s]
  BY DEF JobShape
<1>2. [j EXCEPT !.left = x] = [verb |-> v, at |-> a, id |-> i, by |-> b,
                               auditor |-> u, left |-> x, some |-> s]
  BY <1>1
<1> QED BY <1>1, <1>2 DEF JobShape

\* and for whether something was done.
LEMMA JobReveals ==
    ASSUME NEW j, JobShape(j), NEW x
    PROVE  /\ JobShape([j EXCEPT !.some = x])
           /\ [j EXCEPT !.some = x].at = j.at
           /\ [j EXCEPT !.some = x].id = j.id
           /\ [j EXCEPT !.some = x].left = j.left
<1>1. PICK v, a, i, b, u, l, s :
          j = [verb |-> v, at |-> a, id |-> i, by |-> b, auditor |-> u, left |-> l, some |-> s]
  BY DEF JobShape
<1>2. [j EXCEPT !.some = x] = [verb |-> v, at |-> a, id |-> i, by |-> b,
                               auditor |-> u, left |-> l, some |-> x]
  BY <1>1
<1> QED BY <1>1, <1>2 DEF JobShape

\* The steps of a handler's record, by name.
Moved(j, at) == [j EXCEPT !.at = at]
Entered(j, at, id) == [j EXCEPT !.at = at, !.id = id]
Taken(j, at, left) == [j EXCEPT !.at = at, !.left = left]
Skipped(j, left) == [j EXCEPT !.left = left]
Revealed(j, left, some) == [j EXCEPT !.left = left, !.some = some]

\* What the steps of the handlers leave of their records.
LEMMA JobFields ==
    ASSUME NEW j, JobShape(j)
    PROVE  /\ \A at : JobShape(Moved(j, at)) /\ Moved(j, at).at = at
           /\ \A at, id : JobShape(Entered(j, at, id)) /\ Entered(j, at, id).at = at
           /\ \A at, left :
                /\ JobShape(Taken(j, at, left)) /\ Taken(j, at, left).at = at
                /\ Taken(j, at, left).left = left /\ Taken(j, at, left).id = j.id
           /\ \A left : JobShape(Skipped(j, left)) /\ Skipped(j, left).at = j.at
           /\ \A left, some :
                JobShape(Revealed(j, left, some)) /\ Revealed(j, left, some).at = j.at
<1>1. ASSUME NEW at
      PROVE  JobShape(Moved(j, at)) /\ Moved(j, at).at = at /\ Moved(j, at).id = j.id
  BY JobMoves DEF Moved
<1>2. ASSUME NEW at, NEW id
      PROVE  JobShape(Entered(j, at, id)) /\ Entered(j, at, id).at = at
  <2>1. PICK k : k = Moved(j, at)
    OBVIOUS
  <2>2. Entered(j, at, id) = [k EXCEPT !.id = id]
    BY <2>1 DEF Entered, Moved
  <2>3. JobShape(k) /\ k.at = at
    BY <1>1, <2>1
  <2> QED BY <2>2, <2>3, JobEnters
<1>3. ASSUME NEW at, NEW left
      PROVE  /\ JobShape(Taken(j, at, left)) /\ Taken(j, at, left).at = at
             /\ Taken(j, at, left).left = left /\ Taken(j, at, left).id = j.id
  <2>1. PICK k : k = Moved(j, at)
    OBVIOUS
  <2>2. Taken(j, at, left) = [k EXCEPT !.left = left]
    BY <2>1 DEF Taken, Moved
  <2>3. JobShape(k) /\ k.at = at /\ k.id = j.id
    BY <1>1, <2>1
  <2> QED BY <2>2, <2>3, JobLeaves
<1>4. ASSUME NEW left
      PROVE  JobShape(Skipped(j, left)) /\ Skipped(j, left).at = j.at
  BY JobLeaves DEF Skipped
<1>5. ASSUME NEW left, NEW some
      PROVE  JobShape(Revealed(j, left, some)) /\ Revealed(j, left, some).at = j.at
  <2>1. PICK k : k = Skipped(j, left)
    OBVIOUS
  <2>2. Revealed(j, left, some) = [k EXCEPT !.some = some]
    BY <2>1 DEF Revealed, Skipped
  <2>3. JobShape(k) /\ k.at = j.at
    BY <1>4, <2>1
  <2> QED BY <2>2, <2>3, JobReveals
<1> QED BY <1>1, <1>2, <1>3, <1>4, <1>5

\* Status, phase and reveals of a round change beside its bids.
LEMMA AuctionFields ==
    ASSUME NEW a, AuctionShape(a), NEW x
    PROVE  /\ AuctionShape([a EXCEPT !.status = x]) /\ [a EXCEPT !.status = x].bid = a.bid
           /\ AuctionShape([a EXCEPT !.phase = x]) /\ [a EXCEPT !.phase = x].bid = a.bid
           /\ AuctionShape([a EXCEPT !.revealed = x]) /\ [a EXCEPT !.revealed = x].bid = a.bid
<1>1. PICK s, p, b, r : a = [status |-> s, phase |-> p, bid |-> b, revealed |-> r]
  BY DEF AuctionShape
<1>2. a.bid = b /\ b = [y \in Bidder |-> b[y]]
  BY <1>1 DEF AuctionShape
<1>3. /\ [a EXCEPT !.status = x] = [status |-> x, phase |-> p, bid |-> b, revealed |-> r]
      /\ [a EXCEPT !.phase = x] = [status |-> s, phase |-> x, bid |-> b, revealed |-> r]
      /\ [a EXCEPT !.revealed = x] = [status |-> s, phase |-> p, bid |-> b, revealed |-> x]
  BY <1>1
<1> QED BY <1>2, <1>3 DEF AuctionShape

\* A bid replaces the bid of one wallet.
LEMMA AuctionBid ==
    ASSUME NEW a, AuctionShape(a), NEW x, NEW w
    PROVE  /\ AuctionShape([a EXCEPT !.bid[w] = x])
           /\ \A y \in Bidder : [a EXCEPT !.bid[w] = x].bid[y] = IF y = w THEN x ELSE a.bid[y]
<1>1. PICK s, p, b, r : a = [status |-> s, phase |-> p, bid |-> b, revealed |-> r]
  BY DEF AuctionShape
<1>2. a.bid = b /\ b = [y \in Bidder |-> b[y]]
  BY <1>1 DEF AuctionShape
<1>3. PICK c : c = [b EXCEPT ![w] = x]
  OBVIOUS
<1>4. [a EXCEPT !.bid[w] = x] = [status |-> s, phase |-> p, bid |-> c, revealed |-> r]
  BY <1>1, <1>2, <1>3
<1>5. c = [y \in Bidder |-> c[y]] /\ \A y \in Bidder : c[y] = IF y = w THEN x ELSE b[y]
  BY <1>2, <1>3
<1> QED BY <1>2, <1>4, <1>5 DEF AuctionShape

\* Bids stay as they are, and the jobs that are new or have moved seal for
\* their own round.
LEMMA BidsStay ==
    ASSUME RoomInv,
           auctions' = [id \in AuctionId |-> auctions'[id]],
           \A id \in AuctionId :
               AuctionShape(auctions'[id]) /\ auctions'[id].bid = auctions[id].bid,
           \A j \in work' \ work :
               /\ JobShape(j)
               /\ Is(j, "commit", "send") => \A seal \in j.left : seal.beacon = j.id
    PROVE  RoomInv'
<1>1. RoomShapes'
  BY DEF RoomInv, RoomShapes
<1>2. BidsOpenInTime' /\ SealsOfWork'
  BY DEF RoomInv, BidsOpenInTime, SealsOfWork, Is
<1> QED BY <1>1, <1>2 DEF RoomInv

\* A commit: the wallet's bid is the seal, and nothing else is touched.
LEMMA BidKept ==
    ASSUME RoomInv, NEW id, NEW w, NEW seal, seal.beacon = id, Bid(id, w, seal),
           \A j \in work' \ work : JobShape(j) /\ ~ Is(j, "commit", "send")
    PROVE  RoomInv'
<1>1. auctions' = [auctions EXCEPT ![id].bid[w] = seal]
  BY DEF Bid
<1>2. auctions = [k \in AuctionId |-> auctions[k]]
  BY DEF RoomInv, RoomShapes
<1>3. auctions' = [i \in AuctionId |-> auctions'[i]]
  BY <1>1, <1>2
<1>4. ASSUME NEW i \in AuctionId
      PROVE  /\ AuctionShape(auctions'[i])
             /\ \A x \in Bidder : auctions'[i].bid[x] # auctions[i].bid[x] =>
                    i = id /\ auctions'[i].bid[x] = seal
  <2>1. AuctionShape(auctions[i])
    BY DEF RoomInv, RoomShapes
  <2>2. CASE i # id
    <3>1. auctions'[i] = auctions[i]
      BY <1>1, <1>2, <2>2
    <3> QED BY <2>1, <3>1
  <2>3. CASE i = id
    <3>1. auctions'[i] = [auctions[i] EXCEPT !.bid[w] = seal]
      BY <1>1, <1>2, <2>3
    <3> QED BY <2>1, <2>3, <3>1, AuctionBid
  <2> QED BY <2>2, <2>3
<1>5. RoomShapes'
  <2>1. \A j \in work' : JobShape(j)
    BY DEF RoomInv, RoomShapes
  <2>2. \A i \in AuctionId : AuctionShape(auctions'[i])
    BY <1>4
  <2> QED BY <1>3, <2>1, <2>2 DEF RoomShapes
<1>6. BidsOpenInTime'
  <2> SUFFICES ASSUME NEW i \in AuctionId, NEW x \in Bidder', auctions'[i].bid[x] # NoAuction
               PROVE  auctions'[i].bid[x].beacon = i
    BY DEF BidsOpenInTime
  <2>1. x \in Bidder
    BY DEF Bidder
  <2>2. auctions[i].bid[x] # NoAuction => auctions[i].bid[x].beacon = i
    BY <2>1 DEF RoomInv, BidsOpenInTime
  <2> QED BY <1>4, <2>1, <2>2
<1>7. SealsOfWork'
  BY DEF RoomInv, SealsOfWork
<1> QED BY <1>5, <1>6, <1>7 DEF RoomInv

\* The invariant of the room, step by step.
LEMMA NextRoomInv == RoomInv /\ [NextRoom]_roomVars => RoomInv'
<1> SUFFICES ASSUME RoomInv, [NextRoom]_roomVars PROVE RoomInv'
  OBVIOUS
<1> DEFINE BidsSame ==
               /\ auctions' = [id \in AuctionId |-> auctions'[id]]
               /\ \A id \in AuctionId :
                   AuctionShape(auctions'[id]) /\ auctions'[id].bid = auctions[id].bid
<1>1. UNCHANGED auctions => BidsSame
  BY DEF RoomInv, RoomShapes
<1>2. ASSUME NEW id, \/ Phases(id) \/ Create(id) \/ Open(id)
                     \/ \E w \in Guest \cup Peer : Reveal(id, w)
      PROVE  BidsSame
  <2>1. PICK standing, phase, revealed :
            auctions' \in {[auctions EXCEPT ![id].status = standing],
                           [auctions EXCEPT ![id].phase = phase],
                           [auctions EXCEPT ![id].revealed = revealed]}
    BY <1>2 DEF Phases, Create, Open, Reveal
  <2>2. auctions = [i \in AuctionId |-> auctions[i]]
    BY DEF RoomInv, RoomShapes
  <2>3. auctions' = [i \in AuctionId |-> auctions'[i]]
    BY <2>1, <2>2
  <2>4. ASSUME NEW i \in AuctionId
        PROVE  AuctionShape(auctions'[i]) /\ auctions'[i].bid = auctions[i].bid
    <3>1. AuctionShape(auctions[i])
      BY DEF RoomInv, RoomShapes
    <3>2. CASE i # id
      <4>1. auctions'[i] = auctions[i]
        BY <2>1, <2>2, <3>2
      <4> QED BY <3>1, <4>1
    <3>3. CASE i = id
      <4>1. auctions'[i] \in {[auctions[i] EXCEPT !.status = standing],
                              [auctions[i] EXCEPT !.phase = phase],
                              [auctions[i] EXCEPT !.revealed = revealed]}
        BY <2>1, <2>2, <3>3
      <4>2. \A x : /\ AuctionShape([auctions[i] EXCEPT !.status = x])
                   /\ [auctions[i] EXCEPT !.status = x].bid = auctions[i].bid
                   /\ AuctionShape([auctions[i] EXCEPT !.phase = x])
                   /\ [auctions[i] EXCEPT !.phase = x].bid = auctions[i].bid
                   /\ AuctionShape([auctions[i] EXCEPT !.revealed = x])
                   /\ [auctions[i] EXCEPT !.revealed = x].bid = auctions[i].bid
        BY <3>1, AuctionFields
      <4>3. CASE auctions'[i] = [auctions[i] EXCEPT !.status = standing]
        BY <4>2, <4>3
      <4>4. CASE auctions'[i] = [auctions[i] EXCEPT !.phase = phase]
        BY <4>2, <4>4
      <4>5. CASE auctions'[i] = [auctions[i] EXCEPT !.revealed = revealed]
        BY <4>2, <4>5
      <4> QED BY <4>1, <4>3, <4>4, <4>5
    <3> QED BY <3>2, <3>3
  <2> QED BY <2>3, <2>4
<1>3. ASSUME BidsSame, \A j \in work' \ work : JobShape(j) /\ ~ Is(j, "commit", "send")
      PROVE  RoomInv'
  BY <1>3, BidsStay
<1>4. ASSUME NEW id \in AuctionId, PeersAct(id), UNCHANGED <<room, work>>
      PROVE  RoomInv'
  <2>1. CASE \E w \in Peer : PeerBids(id, w)
    <3>1. PICK w \in Peer : Bid(id, w, [beacon |-> id, auditor |-> id])
      BY <2>1 DEF PeerBids
    <3>2. work' \ work = {}
      BY <1>4
    <3> QED BY <3>1, <3>2, BidKept
  <2>2. CASE ~ \E w \in Peer : PeerBids(id, w)
    <3>1. BidsSame
      BY <1>2, <1>4, <2>2 DEF PeersAct
    <3>2. work' \ work = {}
      BY <1>4
    <3> QED BY <1>3, <3>1, <3>2
  <2> QED BY <2>1, <2>2
<1>5. CASE \/ \E w \in Guest : Reconnect(w)
           \/ PressCreate \/ PressCommit \/ PressReveal \/ PressRefresh
           \/ \E id \in AuctionId : PressJoin(id)
           \/ UNCHANGED roomVars
  <2>1. ASSUME NEW verb, NEW id
        PROVE  /\ JobShape(Job(verb, id)) /\ Job(verb, id).at = "call"
               /\ JobShape([Job(verb, id) EXCEPT !.at = "refresh"])
               /\ [Job(verb, id) EXCEPT !.at = "refresh"].at = "refresh"
    <3>1. JobShape(Job(verb, id)) /\ Job(verb, id).at = "call"
      BY DEF Job, JobShape
    <3>2. PICK j : j = Job(verb, id)
      OBVIOUS
    <3>3. JobShape([j EXCEPT !.at = "refresh"]) /\ [j EXCEPT !.at = "refresh"].at = "refresh"
      BY <3>1, <3>2, JobMoves
    <3> QED BY <3>1, <3>2, <3>3
  <2>2. UNCHANGED auctions
    BY <1>5 DEF Reconnect, PressCreate, PressCommit, PressReveal, PressRefresh, PressJoin, Press,
                roomVars
  <2>3. CASE UNCHANGED work
    <3>1. work' \ work = {}
      BY <2>3
    <3> QED BY <1>1, <1>3, <2>2, <3>1
  <2>4. CASE \E verb, id : work' \in {work \cup {Job(verb, id)},
                                      work \cup {[Job(verb, id) EXCEPT !.at = "refresh"]}}
    <3>1. \A j \in work' \ work : JobShape(j) /\ ~ Is(j, "commit", "send")
      BY <2>1, <2>4 DEF Is
    <3> QED BY <1>1, <1>3, <2>2, <3>1
  <2> QED BY <1>5, <2>3, <2>4
          DEF Reconnect, PressCreate, PressCommit, PressReveal, PressRefresh, PressJoin, Press,
              roomVars
<1>6. \A j \in work : JobShape(j)
  BY DEF RoomInv, RoomShapes
<1> HIDE DEF BidsSame
<1>7. ASSUME NEW j \in work, CommitSent(j)
      PROVE  RoomInv'
  <2>1. PICK seal \in j.left : Bid(j.id, j.by, seal)
    BY <1>7 DEF CommitSent
  <2>2. seal.beacon = j.id
    BY <1>7, <2>1 DEF RoomInv, SealsOfWork, CommitSent
  <2>3. work' = (work \ {j}) \cup {Moved(j, "done")}
    BY <1>7 DEF CommitSent, Moves, Moved
  <2>4. \A k \in work' \ work : JobShape(k) /\ ~ Is(k, "commit", "send")
    BY <1>6, JobFields, <2>3 DEF Is
  <2> QED BY <2>1, <2>2, <2>4, BidKept
<1>8. ASSUME NEW j \in work, CommitRead(j)
      PROVE  RoomInv'
  <2>1. /\ work' = (work \ {j}) \cup {[j EXCEPT !.at = "send", !.left = {SealOf(j)}]}
        /\ UNCHANGED auctions
    BY <1>8 DEF CommitRead, Moves
  <2>2. SealOf(j).beacon = j.id
    BY DEF SealOf
  <2>3. ASSUME NEW k \in work' \ work
        PROVE  JobShape(k) /\ (Is(k, "commit", "send") => \A seal \in k.left : seal.beacon = k.id)
    <3>1. k = Taken(j, "send", {SealOf(j)})
      BY <2>1, <2>3 DEF Taken
    <3>2. JobShape(k) /\ k.left = {SealOf(j)} /\ k.id = j.id
      BY <1>6, JobFields, <3>1
    <3> QED BY <2>2, <3>2
  <2> QED BY <1>1, <2>1, <2>3, BidsStay DEF BidsSame
<1>9. ASSUME NEW j \in work,
             \/ Refreshed(j) \/ JobFails(j) \/ CreateCalled(j) \/ CreateDone(j) \/ JoinRead(j)
             \/ CommitDone(j) \/ RevealOpens(j) \/ RevealsEach(j) \/ RevealDone(j)
      PROVE  RoomInv'
  <2>1. BidsSame
    <3>1. CASE UNCHANGED auctions
      BY <1>1, <3>1
    <3>2. CASE \E id \in AuctionId : Create(id)
      BY <1>2, <3>2
    <3>3. CASE Open(j.id) \/ \E w \in j.left : Reveal(j.id, w)
      <4>1. ASSUME NEW w, Reveal(j.id, w) PROVE w \in Guest \cup Peer
        BY <4>1 DEF Reveal, Bidders
      <4> QED BY <1>2, <3>3, <4>1
    <3> QED BY <1>9, <3>1, <3>2, <3>3
            DEF Refreshed, JobFails, CreateCalled, CreateDone, JoinRead, CommitDone, RevealOpens,
                RevealsEach, RevealDone
  <2>2. ASSUME NEW k \in work' \ work
        PROVE  JobShape(k) /\ ~ Is(k, "commit", "send")
    <3>1. CASE Refreshed(j) \/ JobFails(j)
      BY <3>1, <2>2 DEF Refreshed, JobFails
    <3>2. CASE CreateDone(j) \/ JoinRead(j) \/ CommitDone(j) \/ RevealDone(j)
      <4>1. \E id : k = Entered(j, "refresh", id)
        BY <3>2, <2>2
           DEF CreateDone, JoinRead, CommitDone, RevealDone, Refreshes, Moves, Entered
      <4> QED BY <1>6, JobFields, <4>1 DEF Is
    <3>3. CASE CreateCalled(j)
      <4>1. \E id : k = Entered(j, "done", id)
        BY <3>3, <2>2 DEF CreateCalled, Moves, Entered
      <4> QED BY <1>6, JobFields, <4>1 DEF Is
    <3>4. CASE RevealOpens(j)
      <4>1. \E left : k = Taken(j, "each", left)
        BY <3>4, <2>2 DEF RevealOpens, Moves, Taken
      <4> QED BY <1>6, JobFields, <4>1 DEF Is
    <3>5. CASE RevealsEach(j)
      <4>1. j.at = "each"
        BY <3>5 DEF RevealsEach, Is
      <4>2. \E left, some : k \in {Revealed(j, left, some), Skipped(j, left)}
        BY <3>5, <2>2 DEF RevealsEach, Moves, Revealed, Skipped
      <4> QED BY <1>6, JobFields, <4>1, <4>2 DEF Is
    <3> QED BY <1>9, <3>1, <3>2, <3>3, <3>4, <3>5
  <2> QED BY <1>3, <2>1, <2>2
<1> QED BY <1>4, <1>5, <1>7, <1>8, <1>9 DEF NextRoom

\* A bid made in the room opens with the beacon of the round it is in.
THEOREM RoomBidsOpenInTime == SpecRoom => []RoomSealsInTime
<1>1. InitRoom => RoomInv
  <2> SUFFICES ASSUME InitRoom PROVE RoomInv
    OBVIOUS
  <2>1. work = {} /\ \A id \in AuctionId : auctions[id].bid = [w \in Bidder |-> NoAuction]
    BY DEF InitRoom, NoBids, Bidder
  <2>2. RoomShapes
    <3>1. \A id \in AuctionId : AuctionShape(auctions[id])
      BY <2>1 DEF InitRoom, AuctionShape, NoBids, Bidder
    <3> QED BY <2>1, <3>1 DEF InitRoom, RoomShapes
  <2>3. BidsOpenInTime /\ SealsOfWork
    BY <2>1 DEF BidsOpenInTime, SealsOfWork
  <2> QED BY <2>2, <2>3 DEF RoomInv
<1>2. RoomInv => RoomSealsInTime
  BY DEF RoomInv, BidsOpenInTime, RoomSealsInTime, Bidder
<1> QED BY <1>1, <1>2, NextRoomInv, PTL DEF SpecRoom
=============================================================================
