------------------------ MODULE RoundContract_proofs ------------------------
(***************************************************************************)
(* Safety of the deployed contract: what is proved of v1 rounds and of     *)
(* v2/v3 rounds alone stays true when they share the counter and the pool, *)
(* and the shared parts are sound.                                         *)
(***************************************************************************)
EXTENDS RoundContract, RoundV1_proofs, RoundV2_proofs

\* The invariants of both families, and whose each id is.
IInvContract == IInvV1 /\ IInvV2 /\ OneFamilyPerId

---------------------------------------------------------------------------
(* The counter: a call stores under the id it is about and no other, and   *)
(* that is either the id of a stored round or the next one.                *)

\* What a call of either family does to the counter.
TakesId(id) == roundCounter' = id /\ id = roundCounter + 1

\* A v1 call.
LEMMA CallStoresV1 ==
    ASSUME IInvV1, CallV1
    PROVE  \E r \in RoundId :
               /\ StoredV1(r)' /\ \A s \in RoundId \ {r} : roundV1'[s] = roundV1[s]
               /\ (StoredV1(r) /\ roundCounter' = roundCounter) \/ TakesId(r)
<1>1. ASSUME NEW op \in Account, NEW q \in RequestV1, CreateRound(op, q)
      PROVE  \E r \in RoundId :
                 /\ StoredV1(r)' /\ \A s \in RoundId \ {r} : roundV1'[s] = roundV1[s]
                 /\ TakesId(r)
  <2>1. /\ roundCounter < MaxRounds /\ roundCounter \in 0 .. MaxRounds /\ MaxRounds \in Nat
    BY <1>1, LedgerAssumption DEF CreateRound, IInvV1, ShapeV1, LedgerTypeOK
  <2> PICK id \in RoundId : id = NextRoundId
    BY <2>1 DEF NextRoundId, RoundId
  <2>2. StoredV1(id)'
    BY <1>1, CreateStepV1 DEF StoredV1
  <2>3. TakesId(id) /\ \A s \in RoundId \ {id} : roundV1'[s] = roundV1[s]
    BY <1>1 DEF CreateRound, NextRoundId, TakesId, IInvV1, ShapeV1
  <2> QED BY <2>2, <2>3
<1>2. ASSUME NEW r \in RoundId, StoredV1(r), roundCounter' = roundCounter,
             \A s \in RoundId \ {r} : roundV1'[s] = roundV1[s]
      PROVE  \E i \in RoundId :
                 /\ StoredV1(i)' /\ \A s \in RoundId \ {i} : roundV1'[s] = roundV1[s]
                 /\ StoredV1(i) /\ roundCounter' = roundCounter
  BY <1>2, CallStepV1 DEF StoredStaysV1
<1>3. ASSUME NEW r \in RoundId, NEW b \in Account, NEW p \in Preimage, NEW x \in EscrowV1,
             Commit(r, b, p, x)
      PROVE  /\ StoredV1(r) /\ roundCounter' = roundCounter
             /\ \A s \in RoundId \ {r} : roundV1'[s] = roundV1[s]
  BY <1>3 DEF Commit, IInvV1, ShapeV1
<1>4. ASSUME NEW r \in RoundId, OpenReveal(r)
      PROVE  /\ StoredV1(r) /\ roundCounter' = roundCounter
             /\ \A s \in RoundId \ {r} : roundV1'[s] = roundV1[s]
  BY <1>4 DEF OpenReveal, ledgerVars, IInvV1, ShapeV1
<1>5. ASSUME NEW r \in RoundId, NEW b \in Account, NEW p \in Preimage, Reveal(r, b, p)
      PROVE  /\ StoredV1(r) /\ roundCounter' = roundCounter
             /\ \A s \in RoundId \ {r} : roundV1'[s] = roundV1[s]
  BY <1>5 DEF Reveal, ledgerVars
<1>6. ASSUME NEW r \in RoundId, Clear(r)
      PROVE  /\ StoredV1(r) /\ roundCounter' = roundCounter
             /\ \A s \in RoundId \ {r} : roundV1'[s] = roundV1[s]
  BY <1>6 DEF Clear, VoidRoundV1, SelectWinnerV1, IInvV1, ShapeV1
<1>7. ASSUME NEW r \in RoundId, Settle(r) \/ Void(r)
      PROVE  /\ StoredV1(r) /\ roundCounter' = roundCounter
             /\ \A s \in RoundId \ {r} : roundV1'[s] = roundV1[s]
  BY <1>7 DEF Settle, Void, VoidRoundV1, IInvV1, ShapeV1
<1> QED BY <1>1, <1>2, <1>3, <1>4, <1>5, <1>6, <1>7 DEF CallV1

\* A v2 or v3 call.
LEMMA CallStores ==
    ASSUME IInvV2, CallV2, StoredStays
    PROVE  \E r \in RoundId :
               /\ Stored(r)' /\ \A s \in RoundId \ {r} : roundV2'[s] = roundV2[s]
               /\ (Stored(r) /\ roundCounter' = roundCounter) \/ TakesId(r)
<1>1. ASSUME NEW op \in Account, NEW q \in RequestV2,
             CreateRoundV2(op, q) \/ CreatePartnerRoundV2(op, q) \/ CreateRoundV3(op, q)
      PROVE  \E r \in RoundId :
                 /\ Stored(r)' /\ \A s \in RoundId \ {r} : roundV2'[s] = roundV2[s]
                 /\ TakesId(r)
  <2>0. PICK policy, version, reveal : CreateRoundV2Impl(op, q, policy, version, reveal)
    BY <1>1 DEF CreateRoundV2, CreatePartnerRoundV2, CreateRoundV3
  <2>1. /\ roundCounter < MaxRounds /\ roundCounter \in 0 .. MaxRounds /\ MaxRounds \in Nat
    BY <2>0, LedgerAssumption DEF CreateRoundV2Impl, IInvV2, TypeOKV2, LedgerTypeOK
  <2> PICK id \in RoundId : id = NextRoundId
    BY <2>1 DEF NextRoundId, RoundId
  <2>2. Stored(id)'
    BY <1>1, CreateAnyStep DEF Stored
  <2>3. TakesId(id) /\ \A s \in RoundId \ {id} : roundV2'[s] = roundV2[s]
    BY <2>0 DEF CreateRoundV2Impl, NextRoundId, TakesId, IInvV2, TypeOKV2
  <2> QED BY <2>2, <2>3
<1>2. ASSUME NEW r \in RoundId, Stored(r), roundCounter' = roundCounter,
             \A s \in RoundId \ {r} : roundV2'[s] = roundV2[s]
      PROVE  \E i \in RoundId :
                 /\ Stored(i)' /\ \A s \in RoundId \ {i} : roundV2'[s] = roundV2[s]
                 /\ Stored(i) /\ roundCounter' = roundCounter
  BY <1>2 DEF StoredStays
<1>3. ASSUME NEW r \in RoundId, NEW b \in Account, NEW e \in Envelope, NEW x \in EscrowV2,
             CommitV2(r, b, e, x)
      PROVE  /\ Stored(r) /\ roundCounter' = roundCounter
             /\ \A s \in RoundId \ {r} : roundV2'[s] = roundV2[s]
  BY <1>3 DEF CommitV2, IInvV2, TypeOKV2
<1>4. ASSUME NEW r \in RoundId, NEW c \in Account, OpenRevealV2(r, c)
      PROVE  /\ Stored(r) /\ roundCounter' = roundCounter
             /\ \A s \in RoundId \ {r} : roundV2'[s] = roundV2[s]
  BY <1>4 DEF OpenRevealV2, ledgerVars, IInvV2, TypeOKV2
<1>5. ASSUME NEW r \in RoundId, NEW b \in Account, NEW e \in Envelope, RevealV2(r, b, e)
      PROVE  /\ Stored(r) /\ roundCounter' = roundCounter
             /\ \A s \in RoundId \ {r} : roundV2'[s] = roundV2[s]
  BY <1>5 DEF RevealV2, ledgerVars
<1>6. ASSUME NEW r \in RoundId, ClearV2(r)
      PROVE  /\ Stored(r) /\ roundCounter' = roundCounter
             /\ \A s \in RoundId \ {r} : roundV2'[s] = roundV2[s]
  BY <1>6 DEF ClearV2, FinalizeReceiptOnly, VoidForNoValidBid, VoidRound, SelectWinner,
     IInvV2, TypeOKV2
<1>7. ASSUME NEW r \in RoundId, SettleV2(r) \/ VoidV2(r)
      PROVE  /\ Stored(r) /\ roundCounter' = roundCounter
             /\ \A s \in RoundId \ {r} : roundV2'[s] = roundV2[s]
  BY <1>7 DEF SettleV2, VoidV2, VoidRound, IInvV2, TypeOKV2
<1> QED BY <1>1, <1>2, <1>3, <1>4, <1>5, <1>6, <1>7 DEF CallV2

---------------------------------------------------------------------------
(* The inductive invariant.                                                *)

\* Before the first round no id is in use.
LEMMA InitIInvContract == InitContract => IInvContract
<1> SUFFICES ASSUME InitContract PROVE IInvContract
  OBVIOUS
<1>1. IInvV1 /\ IInvV2
  BY InitIInvV1, InitIInvV2 DEF InitContract, InitV2
<1>2. OneFamilyPerId
  <2> SUFFICES ASSUME NEW r \in RoundId
               PROVE  ~ StoredV1(r) /\ ~ Stored(r) /\ ~ (r <= roundCounter)
    BY DEF OneFamilyPerId
  <2>1. r \in Nat /\ r > 0 /\ roundCounter = 0
    BY LedgerAssumption DEF RoundId, InitContract, LedgerInit
  <2> QED BY <2>1 DEF InitContract, StorageInitV1, StorageInitV2, StoredV1, Stored
<1> QED BY <1>1, <1>2 DEF IInvContract

\* A v1 call, create_round included, leaves each id to one family.
LEMMA StepIInvV1 ==
    ASSUME IInvContract, CallV1, UNCHANGED storageV2
    PROVE  IInvContract'
<1>1. IInvV1'
  BY CallStepV1 DEF IInvContract
<1>2. PICK r \in RoundId :
         /\ StoredV1(r)' /\ \A s \in RoundId \ {r} : roundV1'[s] = roundV1[s]
         /\ (StoredV1(r) /\ roundCounter' = roundCounter) \/ TakesId(r)
  BY CallStoresV1 DEF IInvContract
<1>3. roundCounter \in Int /\ roundCounter' \in Int /\ \A s \in RoundId : s \in Int
  BY <1>1, LedgerAssumption DEF RoundId, IInvContract, IInvV1, ShapeV1, LedgerTypeOK
<1>4. roundCounter <= roundCounter'
  BY <1>2, <1>3 DEF TakesId
<1>5. IInvV2'
  BY <1>1, <1>4, ForeignStep DEF IInvContract, IInvV1, ShapeV1
<1>6. ASSUME NEW s \in RoundId
      PROVE  /\ StoredV1(s)' \/ Stored(s)' <=> s <= roundCounter'
             /\ ~ (StoredV1(s)' /\ Stored(s)')
  <2>1. Stored(s)' = Stored(s)
    BY DEF Stored, storageV2
  <2>2. /\ StoredV1(s) \/ Stored(s) <=> s <= roundCounter
        /\ ~ (StoredV1(s) /\ Stored(s))
    BY DEF IInvContract, OneFamilyPerId
  <2>3. CASE s # r
    <3>1. s <= roundCounter' <=> s <= roundCounter
      BY <1>2, <1>3, <2>3 DEF TakesId
    <3> QED BY <1>2, <2>1, <2>2, <2>3, <3>1 DEF StoredV1
  <2>4. CASE s = r
    <3>1. s <= roundCounter' /\ ~ Stored(s)
      BY <1>2, <1>3, <2>2, <2>4 DEF TakesId
    <3> QED BY <1>2, <2>1, <2>4, <3>1
  <2> QED BY <2>3, <2>4
<1> QED BY <1>1, <1>5, <1>6 DEF IInvContract, OneFamilyPerId

\* So does a v2 or v3 call.
LEMMA StepIInvV2 ==
    ASSUME IInvContract, CallV2, UNCHANGED storageV1
    PROVE  IInvContract'
<1>1. IInvV2' /\ StoredStays
  BY NextIInvV2 DEF IInvContract, NextV2
<1>2. PICK r \in RoundId :
         /\ Stored(r)' /\ \A s \in RoundId \ {r} : roundV2'[s] = roundV2[s]
         /\ (Stored(r) /\ roundCounter' = roundCounter) \/ TakesId(r)
  BY <1>1, CallStores DEF IInvContract
<1>3. roundCounter \in Int /\ roundCounter' \in Int /\ \A s \in RoundId : s \in Int
  BY <1>1, LedgerAssumption DEF RoundId, IInvContract, IInvV2, TypeOKV2, LedgerTypeOK
<1>4. roundCounter <= roundCounter'
  BY <1>2, <1>3 DEF TakesId
<1>5. IInvV1'
  BY <1>1, <1>4, ForeignStepV1 DEF IInvContract, IInvV2, TypeOKV2
<1>6. ASSUME NEW s \in RoundId
      PROVE  /\ StoredV1(s)' \/ Stored(s)' <=> s <= roundCounter'
             /\ ~ (StoredV1(s)' /\ Stored(s)')
  <2>1. StoredV1(s)' = StoredV1(s)
    BY DEF StoredV1, storageV1
  <2>2. /\ StoredV1(s) \/ Stored(s) <=> s <= roundCounter
        /\ ~ (StoredV1(s) /\ Stored(s))
    BY DEF IInvContract, OneFamilyPerId
  <2>3. CASE s # r
    <3>1. s <= roundCounter' <=> s <= roundCounter
      BY <1>2, <1>3, <2>3 DEF TakesId
    <3> QED BY <1>2, <2>1, <2>2, <2>3, <3>1 DEF Stored
  <2>4. CASE s = r
    <3>1. s <= roundCounter' /\ ~ StoredV1(s)
      BY <1>2, <1>3, <2>2, <2>4 DEF TakesId
    <3> QED BY <1>2, <2>1, <2>4, <3>1
  <2> QED BY <2>3, <2>4
<1> QED BY <1>1, <1>5, <1>6 DEF IInvContract, OneFamilyPerId

\* Time and Drand move; no round does.
LEMMA StepIInvLedger ==
    ASSUME IInvContract, LedgerNext \/ UNCHANGED ledgerVars, UNCHANGED <<storageV1, storageV2>>
    PROVE  IInvContract' /\ wallet' = wallet
<1>1. IInvV1' /\ IInvV2'
  BY LedgerStepV1, LedgerStep DEF IInvContract
<1>2. roundCounter' = roundCounter /\ wallet' = wallet
  BY DEF LedgerNext, CloseLedger, PublishBeacon, ledgerVars
<1>3. OneFamilyPerId'
  BY <1>2 DEF IInvContract, OneFamilyPerId, StoredV1, Stored, storageV1, storageV2
<1> QED BY <1>1, <1>2, <1>3 DEF IInvContract

\* Every entry point of the deployed contract preserves the invariant.
LEMMA NextIInvContract == IInvContract /\ [NextContract]_contractVars => IInvContract'
BY StepIInvV1, StepIInvV2, StepIInvLedger DEF NextContract, contractVars

---------------------------------------------------------------------------
(* Theorems.                                                               *)

\* Rounds of both families in one contract keep every part of their invariants.
THEOREM InvariantContract == SpecContract => []IInvContract
BY InitIInvContract, NextIInvContract, PTL DEF SpecContract

\* next_round_id never hands out an id twice, to v1 and v2 alike: each id up to
\* the counter names one round of one family, and no other id names any.
THEOREM OneFamily == SpecContract => []OneFamilyPerId
<1>1. IInvContract => OneFamilyPerId
  BY DEF IInvContract
<1> QED BY <1>1, InvariantContract, PTL

\* In the deployed contract, too, clear and clear_v2 award each round to its
\* best valid bid, the earliest among equals, void none that has one, and the
\* receipt of a v1 round verifies.
THEOREM OutcomesJust == SpecContract => [](OutcomeJustV1 /\ OutcomeJustV2 /\ ReceiptsVerifyV1)
<1>1. IInvV1 => OutcomeJustV1
  BY DEF IInvV1, RoundInvV1, OutcomeJustV1
<1>2. IInvV2 => OutcomeJustV2
  BY DEF IInvV2, RoundInv, OutcomeJustV2
<1>3. IInvV1 => ReceiptsVerifyV1
  BY ReceiptSoundV1 DEF ReceiptsVerifyV1
<1> QED BY <1>1, <1>2, <1>3, InvariantContract, PTL DEF IInvContract

\* Sealed bidding stays sealed next to the other family: once the signature
\* that opens a round's seals exists, no call of either family adds or
\* replaces a commitment of the round or changes an escrow.
THEOREM SealsFixed == SpecContract => SealedBeforeBeaconV1 /\ SealedBeforeBeaconV2
<1>1. IInvContract /\ [NextContract]_contractVars =>
        [\A r \in RoundId, b \in Account :
            StoredV1(r) /\ HasSignature(roundV1[r].reveal_round) =>
              /\ HasBid(r, b)' = HasBid(r, b)
              /\ HasBid(r, b) => /\ BidOf(r, b)'.commitment = BidOf(r, b).commitment
                                 /\ BidOf(r, b)'.escrow = BidOf(r, b).escrow]_varsV1
  <2> SUFFICES ASSUME IInvContract, NextContract, NEW r \in RoundId, NEW b \in Account,
                      StoredV1(r), HasSignature(roundV1[r].reveal_round)
               PROVE  SealKeptV1(r, b)
    BY DEF SealKeptV1, contractVars, varsV1, HasBid, BidOf, storageV1
  <2>1. CASE CallV1
    BY <2>1, StepKeepsSealsV1 DEF NextV1, IInvContract
  <2>2. CASE UNCHANGED storageV1
    BY <2>2 DEF SealKeptV1, HasBid, BidOf, storageV1
  <2> QED BY <2>1, <2>2 DEF NextContract
<1>2. IInvContract /\ [NextContract]_contractVars =>
        [\A r \in RoundId, b \in Account :
            Stored(r) /\ HasSignature(roundV2[r].reveal_round) =>
              /\ Committed(r, b)' = Committed(r, b)
              /\ Committed(r, b) =>
                     /\ SubmissionOf(r, b)'.commitment = SubmissionOf(r, b).commitment
                     /\ SubmissionOf(r, b)'.escrow = SubmissionOf(r, b).escrow]_varsV2
  <2> SUFFICES ASSUME IInvContract, NextContract, NEW r \in RoundId, NEW b \in Account,
                      Stored(r), HasSignature(roundV2[r].reveal_round)
               PROVE  SealKept(r, b)
    BY DEF SealKept, contractVars, varsV2, Committed, SubmissionOf, storageV2
  <2>1. CASE CallV2
    BY <2>1, StepKeepsSeals DEF NextV2, IInvContract
  <2>2. CASE UNCHANGED storageV2
    BY <2>2 DEF SealKept, Committed, SubmissionOf, storageV2
  <2> QED BY <2>1, <2>2 DEF NextContract
<1> QED BY <1>1, <1>2, InvariantContract, PTL
    DEF SpecContract, SealedBeforeBeaconV1, SealedBeforeBeaconV2

\* Either family of the deployed contract implements the abstract sealed
\* round: what the other one does is a stutter.
THEOREM ImplementBoth == SpecContract => ImplementsSealedRoundV1 /\ ImplementsSealedRoundV2
<1>1. InitContract => AbstractV1!Init /\ Abstract!Init
  BY InitRefinesV1, InitRefines DEF InitContract, InitV1, InitV2
<1>2. IInvContract /\ IInvContract' /\ [NextContract]_contractVars =>
        [AbstractV1!Next]_AbstractV1!vars
  <2> SUFFICES ASSUME IInvContract, IInvContract', [NextContract]_contractVars
               PROVE  [AbstractV1!Next]_<<phaseV1, stakeV1, priceV1>>
    BY DEF AbstractV1!vars
  <2>1. CASE CallV1
    BY <2>1, StepRefinesV1 DEF NextV1, IInvContract
  <2>2. CASE UNCHANGED storageV1
    BY <2>2 DEF storageV1, phaseV1, stakeV1, priceV1, PhaseV1, StakeV1, PriceV1,
       StoredV1, HasBid, BidOf
  <2> QED BY <2>1, <2>2 DEF NextContract, contractVars
<1>3. IInvContract /\ IInvContract' /\ [NextContract]_contractVars =>
        [Abstract!Next]_Abstract!vars
  <2> SUFFICES ASSUME IInvContract, IInvContract', [NextContract]_contractVars
               PROVE  [Abstract!Next]_<<phaseV2, stakeV2, priceV2>>
    BY DEF Abstract!vars
  <2>1. CASE CallV2
    BY <2>1, StepRefines DEF NextV2, IInvContract
  <2>2. CASE UNCHANGED storageV2
    BY <2>2 DEF storageV2, phaseV2, stakeV2, priceV2, PhaseV2, StakeV2, PriceV2,
       Stored, Committed, SubmissionOf
  <2> QED BY <2>1, <2>2 DEF NextContract, contractVars
<1> QED BY <1>1, <1>2, <1>3, InvariantContract, PTL
    DEF SpecContract, ImplementsSealedRoundV1, ImplementsSealedRoundV2,
        AbstractV1!Spec, Abstract!Spec

---------------------------------------------------------------------------
(* Pooled custody: the books of one family do not depend on the other.     *)

\* What round r of either family keeps of x in token a.
NetPaid(r, a, x) == NetPaidV1(r, a, x) + NetPaidV2(r, a, x)

\* Either family alone keeps of an account a number, before the step and after.
LEMMA NetPaidInts ==
    ASSUME IInvContract, IInvContract', NEW r \in RoundId, NEW a \in Asset, NEW x \in Account
    PROVE  /\ NetPaidV1(r, a, x) \in Int /\ NetPaidV1(r, a, x)' \in Int
           /\ NetPaidV2(r, a, x) \in Int /\ NetPaidV2(r, a, x)' \in Int
<1>1. NetPaidV1(r, a, x) \in Int /\ NetPaidV2(r, a, x) \in Int
  BY NetPaidIntV1, NetPaidInt DEF IInvContract, IInvV1, IInvV2
<1>2. NetPaidV1(r, a, x)' \in Int
  <2>1. CASE ~ StoredV1(r)' \/ a # Usdc
    BY <2>1 DEF NetPaidV1
  <2>2. CASE StoredV1(r)' /\ a = Usdc
    <3>1. roundV1'[r].winning_bid \in Int
      BY <2>2 DEF IInvContract, IInvV1, ShapeV1, StoredV1, RoundRecordV1
    <3>2. HasBid(r, x)' => BidOf(r, x)'.escrow \in Int
      BY DEF IInvContract, IInvV1, ShapeV1, HasBid, BidOf, BidState
    <3> QED BY <2>2, <3>1, <3>2 DEF NetPaidV1
  <2> QED BY <2>1, <2>2
<1>3. NetPaidV2(r, a, x)' \in Int
  <2>1. CASE ~ Stored(r)'
    BY <2>1 DEF NetPaidV2
  <2>2. CASE Stored(r)'
    <3>1. roundV2'[r].winning_bid \in Int /\ roundV2'[r].lot_amount \in Int
      BY <2>2 DEF IInvContract, IInvV2, TypeOKV2, Stored, RoundRecord
    <3>2. Committed(r, x)' => SubmissionOf(r, x)'.escrow \in Int
      BY DEF IInvContract, IInvV2, TypeOKV2, Committed, SubmissionOf, SubmissionRecord
    <3> QED BY <2>2, <3>1, <3>2 DEF NetPaidV2
  <2> QED BY <2>1, <2>2
<1> QED BY <1>1, <1>2, <1>3

\* A call of one family leaves what the other keeps alone.
LEMMA OtherFamilyV1 ==
    ASSUME UNCHANGED storageV1, NEW r, NEW a, NEW x
    PROVE  NetPaidV1(r, a, x)' = NetPaidV1(r, a, x)
BY DEF storageV1, NetPaidV1, StoredV1, HasBid, BidOf

\* A v1 call leaves what is kept of v2 and v3 rounds alone.
LEMMA OtherFamilyV2 ==
    ASSUME UNCHANGED storageV2, NEW r, NEW a, NEW x
    PROVE  NetPaidV2(r, a, x)' = NetPaidV2(r, a, x)
BY DEF storageV2, NetPaidV2, Stored, Committed, SubmissionOf

\* A call of either family changes the account of one round, and every wallet
\* by just that.
LEMMA CallBalancedContract ==
    ASSUME IInvContract, IInvContract',
           (CallV1 /\ UNCHANGED storageV2) \/ (CallV2 /\ UNCHANGED storageV1)
    PROVE  \E r \in RoundId : \A a \in Asset, x \in Account :
              /\ wallet'[a][x] = wallet[a][x] + NetPaid(r, a, x) - NetPaid(r, a, x)'
              /\ \A s \in RoundId \ {r} : NetPaid(s, a, x)' = NetPaid(s, a, x)
<1>1. \A a \in Asset, x \in Account : wallet[a][x] \in Int
  BY DEF IInvContract, IInvV2, TypeOKV2, LedgerTypeOK
<1>2. CASE CallV1 /\ UNCHANGED storageV2
  <2>1. PICK r \in RoundId : OthersKeptV1(r) /\ BalancedV1(r)
    BY <1>2, CallBalancedV1 DEF IInvContract
  <2>2. ASSUME NEW a \in Asset, NEW x \in Account
        PROVE  wallet'[a][x] = wallet[a][x] + NetPaid(r, a, x) - NetPaid(r, a, x)'
    <3>1. wallet'[a][x] = wallet[a][x] + NetPaidV1(r, a, x) - NetPaidV1(r, a, x)'
      BY <2>1 DEF BalancedV1
    <3>2. NetPaidV2(r, a, x)' = NetPaidV2(r, a, x)
      BY <1>2, OtherFamilyV2
    <3> QED BY <1>1, <3>1, <3>2, NetPaidInts DEF NetPaid
  <2>3. ASSUME NEW a \in Asset, NEW x \in Account, NEW s \in RoundId \ {r}
        PROVE  NetPaid(s, a, x)' = NetPaid(s, a, x)
    <3>1. NetPaidV1(s, a, x)' = NetPaidV1(s, a, x)
      BY <2>1 DEF OthersKeptV1, NetPaidV1, StoredV1, HasBid, BidOf
    <3> QED BY <1>2, <3>1, OtherFamilyV2 DEF NetPaid
  <2> QED BY <2>2, <2>3
<1>3. CASE CallV2 /\ UNCHANGED storageV1
  <2>1. PICK r \in RoundId : OthersKept(r) /\ Balanced(r)
    BY <1>3, CallBalanced DEF IInvContract
  <2>2. ASSUME NEW a \in Asset, NEW x \in Account
        PROVE  wallet'[a][x] = wallet[a][x] + NetPaid(r, a, x) - NetPaid(r, a, x)'
    <3>1. wallet'[a][x] = wallet[a][x] + NetPaidV2(r, a, x) - NetPaidV2(r, a, x)'
      BY <2>1 DEF Balanced
    <3>2. NetPaidV1(r, a, x)' = NetPaidV1(r, a, x)
      BY <1>3, OtherFamilyV1
    <3> QED BY <1>1, <3>1, <3>2, NetPaidInts DEF NetPaid
  <2>3. ASSUME NEW a \in Asset, NEW x \in Account, NEW s \in RoundId \ {r}
        PROVE  NetPaid(s, a, x)' = NetPaid(s, a, x)
    <3>1. NetPaidV2(s, a, x)' = NetPaidV2(s, a, x)
      BY <2>1 DEF OthersKept, NetPaidV2, Stored, Committed, SubmissionOf
    <3> QED BY <1>3, <3>1, OtherFamilyV1 DEF NetPaid
  <2> QED BY <2>2, <2>3
<1> QED BY <1>2, <1>3

\* A call keeps the books of the whole contract.
LEMMA CallKeepsBooks ==
    ASSUME IInvContract, IInvContract', PooledCustodyExact,
           (CallV1 /\ UNCHANGED storageV2) \/ (CallV2 /\ UNCHANGED storageV1)
    PROVE  PooledCustodyExact'
<1> SUFFICES ASSUME NEW a \in Asset, NEW x \in Account
             PROVE  wallet'[a][x] = InitialBalance[a][x]
                      - SumFunction([s \in RoundId |-> NetPaid(s, a, x)'])
  BY DEF PooledCustodyExact, NetPaid
<1> DEFINE paid == [s \in RoundId |-> NetPaid(s, a, x)]
           paid2 == [s \in RoundId |-> NetPaid(s, a, x)']
<1>1. PICK r \in RoundId :
         /\ wallet'[a][x] = wallet[a][x] + NetPaid(r, a, x) - NetPaid(r, a, x)'
         /\ \A s \in RoundId \ {r} : NetPaid(s, a, x)' = NetPaid(s, a, x)
  BY CallBalancedContract
<1>2. \A s \in RoundId : NetPaid(s, a, x) \in Int /\ NetPaid(s, a, x)' \in Int
  BY NetPaidInts DEF NetPaid
<1>3. /\ wallet'[a][x] = wallet[a][x] + paid[r] - paid2[r]
      /\ \A s \in RoundId \ {r} : paid[s] = paid2[s]
      /\ \A s \in RoundId : paid[s] \in Int /\ paid2[s] \in Int
  BY <1>1, <1>2
<1>4. wallet[a][x] \in Int /\ InitialBalance[a][x] \in Int
  BY LedgerAssumption DEF IInvContract, IInvV2, TypeOKV2, LedgerTypeOK
<1>5. wallet[a][x] = InitialBalance[a][x] - SumFunction(paid)
  BY DEF PooledCustodyExact, NetPaid
<1>6. paid = [s \in RoundId |-> paid[s]] /\ paid2 = [s \in RoundId |-> paid2[s]]
  OBVIOUS
<1> HIDE DEF paid, paid2
<1>7. wallet'[a][x] = InitialBalance[a][x] - SumFunction(paid2)
  BY <1>3, <1>4, <1>5, <1>6, BooksKept
<1> QED BY <1>7 DEF paid2

\* All rounds of both families pay into and out of one balance per token, yet
\* every account always holds exactly what it started with, less its own live
\* escrows and lots and what the outcomes of its rounds moved: no refund,
\* payout or lot ever comes out of another round's custody.
THEOREM PooledCustody == SpecContract => []PooledCustodyExact
<1>1. InitContract => PooledCustodyExact
  <2> SUFFICES ASSUME InitContract, NEW a \in Asset, NEW x \in Account
               PROVE  wallet[a][x] = InitialBalance[a][x]
                        - SumFunction([r \in RoundId |-> NetPaidV1(r, a, x) + NetPaidV2(r, a, x)])
    BY DEF PooledCustodyExact
  <2> DEFINE paid == [r \in RoundId |-> NetPaidV1(r, a, x) + NetPaidV2(r, a, x)]
  <2>1. \A r \in RoundId : NetPaidV1(r, a, x) = 0 /\ NetPaidV2(r, a, x) = 0
    BY DEF InitContract, StorageInitV1, StorageInitV2, NetPaidV1, NetPaidV2, StoredV1, Stored
  <2>2. \A r \in RoundId : paid[r] = 0
    BY <2>1
  <2>3. paid = [r \in RoundId |-> paid[r]]
    OBVIOUS
  <2> HIDE DEF paid
  <2>4. SumFunction(paid) = 0
    BY <2>2, <2>3, BooksOpen
  <2>5. wallet[a][x] = InitialBalance[a][x] /\ InitialBalance[a][x] \in Int
    BY LedgerAssumption DEF InitContract, LedgerInit
  <2> QED BY <2>4, <2>5 DEF paid
<1>2. IInvContract /\ IInvContract' /\ PooledCustodyExact /\ [NextContract]_contractVars =>
        PooledCustodyExact'
  <2> SUFFICES ASSUME IInvContract, IInvContract', PooledCustodyExact,
                      [NextContract]_contractVars
               PROVE  PooledCustodyExact'
    OBVIOUS
  <2>1. CASE (CallV1 /\ UNCHANGED storageV2) \/ (CallV2 /\ UNCHANGED storageV1)
    BY <2>1, CallKeepsBooks
  <2>2. CASE (LedgerNext \/ UNCHANGED ledgerVars) /\ UNCHANGED <<storageV1, storageV2>>
    <3>1. wallet' = wallet
      BY <2>2, StepIInvLedger
    <3>2. \A r, a, x : NetPaidV1(r, a, x)' = NetPaidV1(r, a, x)
                       /\ NetPaidV2(r, a, x)' = NetPaidV2(r, a, x)
      BY <2>2, OtherFamilyV1, OtherFamilyV2
    <3> QED BY <3>1, <3>2 DEF PooledCustodyExact
  <2> QED BY <2>1, <2>2 DEF NextContract, contractVars
<1> QED BY <1>1, <1>2, InvariantContract, PTL DEF SpecContract
=============================================================================
