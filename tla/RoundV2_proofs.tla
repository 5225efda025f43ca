--------------------------- MODULE RoundV2_proofs ---------------------------
(***************************************************************************)
(* Safety of v2/v3 rounds for every set of accounts, tokens, envelopes and *)
(* requests, and every bound.                                              *)
(***************************************************************************)
EXTENDS RoundRequests, RoundTypes_proofs

---------------------------------------------------------------------------
(* The inductive invariant, as a conjunction of named parts.               *)

\* What creation checked stays true of the stored round, there is room for
\* all its bidders, and there is no winner before clearing.
RoundSound(r) ==
    /\ roundV2[r].commit_deadline < TimeOfRound(roundV2[r].reveal_round)
    /\ roundV2[r].mode = "Auction" <=> roundV2[r].payment_asset # None
    /\ roundV2[r].status \in {"Open", "Revealing"} =>
           roundV2[r].winner = None /\ roundV2[r].winning_bid = 0
    /\ roundV2[r].status = "Cleared" => roundV2[r].mode = "Auction"
    /\ Len(roundV2[r].bidders) <= roundV2[r].max_participants

\* A valid auction bid is positive and within its escrow, nothing is valid
\* before the opening, and the settled flag marks exactly the ended auctions.
SubmissionSound(r, b) ==
    /\ roundV2[r].mode = "ReceiptOnly" => SubmissionOf(r, b).escrow = 0
    /\ SubmissionOf(r, b).valid => roundV2[r].status # "Open"
    /\ SubmissionOf(r, b).valid /\ roundV2[r].mode = "Auction" =>
           SubmissionOf(r, b).revealed_amount \in 1 .. SubmissionOf(r, b).escrow
    /\ SubmissionOf(r, b).settled => roundV2[r].status \in {"Settled", "Voided"}
    /\ roundV2[r].status \in {"Settled", "Voided"} /\ roundV2[r].mode = "Auction" =>
           SubmissionOf(r, b).settled

\* Everything about round r that its own record and submissions decide.
RoundInv(r) ==
    /\ IndexExact(r)
    /\ Stored(r) => /\ RoundSound(r)
                    /\ \A b \in Account : Committed(r, b) => SubmissionSound(r, b)
                    /\ OutcomeJust(r)

\* Rounds are stored under ids the counter has handed out.
Counted(r) == Stored(r) => r <= roundCounter

IInvV2 ==
    /\ TypeOKV2
    /\ BeaconsDue
    /\ \A r \in RoundId : Counted(r) /\ RoundInv(r)

\* A step never removes a round.
StoredStays == \A s \in RoundId : Stored(s) => Stored(s)'

---------------------------------------------------------------------------
(* Facts about the operators the actions are built from.                   *)

\* Option::None is distinct from every stored value.
LEMMA NoneIsNoValue ==
    /\ None \notin Account /\ None \notin Asset /\ None \notin Int
    /\ None \notin Envelope /\ None \notin RoundRecord /\ None \notin SubmissionRecord
    /\ None \notin PolicyRecord /\ None \notin RevealRecord
BY RoundTypesAssumption, RoundV2Assumption

\* What round r is does not depend on the other rounds.
LEMMA Frame ==
    ASSUME NEW s \in RoundId, RoundInv(s),
           roundV2'[s] = roundV2[s], submissionV2'[s] = submissionV2[s]
    PROVE  RoundInv(s)'
<1>1. IndexExact(s)'
  BY DEF RoundInv, IndexExact, Stored, Committed
<1>2. Stored(s)' => RoundSound(s)'
  BY DEF RoundInv, RoundSound, Stored
<1>3. Stored(s)' => \A b \in Account : Committed(s, b)' => SubmissionSound(s, b)'
  BY DEF RoundInv, SubmissionSound, SubmissionOf, Stored, Committed
<1>4. Stored(s)' => OutcomeJust(s)'
  BY DEF RoundInv, OutcomeJust, Unbeaten, Revealed, Bid, SubmissionOf, Stored
<1> QED BY <1>1, <1>2, <1>3, <1>4 DEF RoundInv

---------------------------------------------------------------------------
(* Initial states.                                                         *)

\* The deployed contract stores no round.
LEMMA InitIInvV2 == InitV2 => IInvV2
<1> SUFFICES ASSUME InitV2 PROVE IInvV2
  OBVIOUS
<1> USE DEF InitV2, LedgerInit, StorageInitV2
<1>1. TypeOKV2
  BY LedgerAssumption, U64Assumption DEF TypeOKV2, LedgerTypeOK, Time
<1>2. BeaconsDue
  BY DEF BeaconsDue
<1>3. ASSUME NEW r \in RoundId PROVE Counted(r) /\ RoundInv(r)
  <2>1. ~ Stored(r) /\ \A b \in Account : ~ Committed(r, b)
    BY DEF Stored, Committed
  <2>2. r \in Nat /\ r > 0
    BY LedgerAssumption DEF RoundId
  <2> QED BY <2>1, <2>2, EmptyIndex DEF Counted, RoundInv, IndexExact
<1> QED BY <1>1, <1>2, <1>3 DEF IInvV2

---------------------------------------------------------------------------
(* Steps.                                                                  *)

\* A step that touches the record and submissions of one stored round only.
LEMMA OneRound ==
    ASSUME IInvV2, NEW r \in RoundId, TypeOKV2', RoundInv(r)',
           UNCHANGED <<now, published, roundCounter>>, Stored(r)' <=> Stored(r),
           \A s \in RoundId \ {r} :
               roundV2'[s] = roundV2[s] /\ submissionV2'[s] = submissionV2[s]
    PROVE  IInvV2' /\ StoredStays
<1>1. BeaconsDue'
  BY DEF IInvV2, BeaconsDue
<1>2. ASSUME NEW s \in RoundId PROVE Counted(s)' /\ RoundInv(s)'
  <2>1. CASE s = r
    BY <2>1 DEF IInvV2, Counted
  <2>2. CASE s # r
    BY <2>2, Frame DEF IInvV2, Counted, Stored
  <2> QED BY <2>1, <2>2
<1>3. StoredStays
  BY DEF StoredStays, Stored
<1> QED BY <1>1, <1>2, <1>3 DEF IInvV2

\* What is kept of v2 and v3 rounds does not depend on what else the contract
\* does: time and Drand move on, tokens change hands, ids go to other rounds.
LEMMA ForeignStep ==
    ASSUME IInvV2, UNCHANGED storageV2, LedgerTypeOK', BeaconsDue', roundCounter <= roundCounter'
    PROVE  IInvV2' /\ StoredStays
<1>1. ASSUME NEW s \in RoundId PROVE Counted(s)' /\ RoundInv(s)'
  <2>1. s \in Int /\ roundCounter \in Int /\ roundCounter' \in Int
    BY LedgerAssumption DEF RoundId, IInvV2, TypeOKV2, LedgerTypeOK
  <2>2. Counted(s)'
    BY <2>1 DEF IInvV2, Counted, Stored, storageV2
  <2> QED BY <2>2, Frame DEF IInvV2, storageV2
<1>2. TypeOKV2'
  BY DEF IInvV2, TypeOKV2, storageV2
<1>3. StoredStays
  BY DEF StoredStays, Stored, storageV2
<1> QED BY <1>1, <1>2, <1>3 DEF IInvV2

\* Time and Drand move; no round does.
LEMMA LedgerStep ==
    ASSUME IInvV2, LedgerNext \/ UNCHANGED ledgerVars, UNCHANGED storageV2
    PROVE  IInvV2' /\ StoredStays
<1>1. LedgerTypeOK' /\ BeaconsDue' /\ roundCounter' = roundCounter
  BY LedgerKeepsTime DEF IInvV2, TypeOKV2
<1>2. roundCounter <= roundCounter'
  BY <1>1 DEF IInvV2, TypeOKV2, LedgerTypeOK
<1> QED BY <1>1, <1>2, ForeignStep

\* open_reveal_v2 preserves the invariant: it only moves the status on.
LEMMA OpenRevealStep ==
    ASSUME IInvV2, NEW r \in RoundId, NEW caller \in Account, OpenRevealV2(r, caller)
    PROVE  IInvV2' /\ StoredStays
<1> USE DEF IInvV2
<1>1. roundV2[r] \in RoundRecord /\ roundV2[r].status = "Open"
  BY DEF TypeOKV2, OpenRevealV2, Stored
<1>2. roundV2' = [roundV2 EXCEPT ![r] = [roundV2[r] EXCEPT !.status = "Revealing"]]
  BY DEF OpenRevealV2
<1>3. [roundV2[r] EXCEPT !.status = "Revealing"] \in RoundRecord
  BY <1>1 DEF RoundRecord, Status
<1>4. TypeOKV2'
  <2>1. LedgerTypeOK'
    BY DEF OpenRevealV2, TypeOKV2, LedgerTypeOK, ledgerVars
  <2>2. revealV3' \in [RoundId -> RevealRecord \cup {None}]
    <3>1. CASE roundV2[r].protocol_version = 3
      <4>1. revealV3[r] \in RevealRecord /\ now \in Time
        BY <3>1, LedgerAssumption, U64Assumption
           DEF OpenRevealV2, OpeningAllowedV3, TypeOKV2, LedgerTypeOK, Time
      <4>2. [revealV3[r] EXCEPT !.opened_at = now] \in RevealRecord
        BY <4>1 DEF RevealRecord
      <4> QED BY <3>1, <4>2 DEF OpenRevealV2, TypeOKV2
    <3>2. CASE roundV2[r].protocol_version # 3
      BY <3>2 DEF OpenRevealV2, TypeOKV2
    <3> QED BY <3>1, <3>2
  <2> QED BY <1>2, <1>3, <2>1, <2>2 DEF TypeOKV2, OpenRevealV2
<1>5. RoundInv(r)'
  <2>1. /\ roundV2'[r] = [roundV2[r] EXCEPT !.status = "Revealing"]
        /\ submissionV2' = submissionV2
    BY <1>2 DEF TypeOKV2, OpenRevealV2
  <2>2. roundV2[r] # None /\ roundV2'[r] # None
    BY <1>1, <1>3, <2>1, NoneIsNoValue
  <2>3. IndexExact(r)'
    BY <1>1, <2>1, <2>2 DEF RoundRecord, RoundInv, IndexExact, Stored, Committed
  <2>4. RoundSound(r)'
    BY <1>1, <2>1, <2>2 DEF RoundRecord, RoundInv, RoundSound, Stored
  <2>5. \A b \in Account : Committed(r, b)' => SubmissionSound(r, b)'
    BY <1>1, <2>1, <2>2 DEF RoundRecord, RoundInv, SubmissionSound, SubmissionOf, Stored, Committed
  <2>6. OutcomeJust(r)'
    BY <1>1, <2>1 DEF RoundRecord, OutcomeJust
  <2> QED BY <2>3, <2>4, <2>5, <2>6 DEF RoundInv
<1>6. Stored(r)' <=> Stored(r)
  BY <1>1, <1>2, <1>3, NoneIsNoValue DEF Stored, TypeOKV2
<1> QED BY <1>2, <1>4, <1>5, <1>6, OneRound DEF OpenRevealV2, ledgerVars, TypeOKV2

\* reveal_v2 preserves the invariant: what it records was checked against the escrow.
LEMMA RevealStep ==
    ASSUME IInvV2, NEW r \in RoundId, NEW b \in Account, NEW e \in Envelope, RevealV2(r, b, e)
    PROVE  IInvV2' /\ StoredStays
<1> USE DEF IInvV2
<1> DEFINE old == submissionV2[r][b]
           new == [old EXCEPT !.revealed_envelope = e, !.revealed_amount = e.amount, !.valid = TRUE]
<1>1. /\ roundV2[r] \in RoundRecord /\ Stored(r) /\ roundV2[r].status = "Revealing"
      /\ old \in SubmissionRecord /\ old # None
  BY DEF TypeOKV2, RevealV2, Stored, Committed
<1>2. e.amount \in Int \cup {None}
  BY RoundV2Assumption
<1>3. new \in SubmissionRecord /\ new # None
  <2>1. new \in SubmissionRecord
    BY <1>1, <1>2 DEF SubmissionRecord
  <2> QED BY <2>1, NoneIsNoValue
<1>4. /\ submissionV2'[r] = [submissionV2[r] EXCEPT ![b] = new]
      /\ \A s \in RoundId \ {r} : submissionV2'[s] = submissionV2[s]
      /\ submissionV2' \in [RoundId -> [Account -> SubmissionRecord \cup {None}]]
  <2>1. submissionV2' = [submissionV2 EXCEPT ![r] = [submissionV2[r] EXCEPT ![b] = new]]
    BY DEF RevealV2
  <2>2. [submissionV2[r] EXCEPT ![b] = new] \in [Account -> SubmissionRecord \cup {None}]
    BY <1>3 DEF TypeOKV2
  <2> HIDE DEF new
  <2> QED BY <2>1, <2>2 DEF TypeOKV2
<1>5. TypeOKV2'
  <2>1. LedgerTypeOK'
    BY DEF RevealV2, TypeOKV2, LedgerTypeOK, ledgerVars
  <2> QED BY <1>4, <2>1 DEF TypeOKV2, RevealV2
<1>6. /\ submissionV2'[r][b] = new
      /\ \A x \in Account \ {b} : submissionV2'[r][x] = submissionV2[r][x]
      /\ roundV2' = roundV2
  BY <1>4 DEF TypeOKV2, RevealV2
<1>7. /\ new.escrow = old.escrow /\ new.settled = old.settled /\ new.valid
      /\ new.revealed_amount = e.amount
  BY <1>1 DEF SubmissionRecord
<1>8. RoundInv(r)'
  <2> HIDE DEF new
  <2>1. \A x \in Account : Committed(r, x)' <=> Committed(r, x)
    BY <1>1, <1>3, <1>6 DEF Committed
  <2>2. IndexExact(r)'
    BY <1>6, <2>1 DEF RoundInv, IndexExact, Stored
  <2>3. RoundSound(r)'
    BY <1>1, <1>6 DEF RoundInv, RoundSound
  <2>4. SubmissionSound(r, b)'
    <3>1. SubmissionSound(r, b)
      BY <1>1 DEF RoundInv, Committed
    <3>2. roundV2[r].mode = "Auction" => e.amount \in 1 .. old.escrow
      BY <1>1, <1>2, NoneIsNoValue DEF RevealV2, AmountAccepted, SubmissionOf, SubmissionRecord
    <3> QED BY <1>1, <1>6, <1>7, <3>1, <3>2 DEF SubmissionSound, SubmissionOf
  <2>5. \A x \in Account : Committed(r, x)' => SubmissionSound(r, x)'
    BY <1>1, <1>6, <2>1, <2>4 DEF RoundInv, SubmissionSound, SubmissionOf
  <2>6. OutcomeJust(r)'
    BY <1>1, <1>6 DEF OutcomeJust
  <2> QED BY <2>2, <2>3, <2>5, <2>6 DEF RoundInv
<1> QED BY <1>4, <1>5, <1>6, <1>8, OneRound DEF RevealV2, ledgerVars, Stored

\* commit_v2 preserves the invariant, for newcomers and overwrites.
LEMMA CommitStep ==
    ASSUME IInvV2, NEW r \in RoundId, NEW b \in Account, NEW e \in Envelope,
           NEW escrow \in EscrowV2, CommitV2(r, b, e, escrow)
    PROVE  IInvV2' /\ StoredStays
<1> USE DEF IInvV2
<1> DEFINE new == [commitment |-> Sha256(e), escrow |-> escrow, revealed_envelope |-> None,
                   revealed_amount |-> None, valid |-> FALSE, settled |-> FALSE]
           round == [roundV2[r] EXCEPT !.bidders = IndexWith(r, b)]
           back == PreviousEscrow(r, b)
<1>1. roundV2[r] \in RoundRecord /\ Stored(r) /\ roundV2[r].status = "Open"
  BY DEF TypeOKV2, CommitV2, Stored
<1>2. escrow \in Nat /\ (roundV2[r].mode = "ReceiptOnly" => escrow = 0)
  <2>1. escrow \in Int /\ roundV2[r].mode \in {"Auction", "ReceiptOnly"}
    BY <1>1, RoundV2Assumption DEF RoundRecord, RoundMode
  <2>2. EscrowAllowed(r, escrow)
    BY DEF CommitV2
  <2> QED BY <2>1, <2>2 DEF EscrowAllowed
<1>3. new \in SubmissionRecord /\ new # None
  <2>1. new \in SubmissionRecord
    BY <1>2 DEF SubmissionRecord, Sha256
  <2> QED BY <2>1, NoneIsNoValue
<1>4. back \in Nat
  <2>1. Committed(r, b) => submissionV2[r][b] \in SubmissionRecord
    BY DEF TypeOKV2, Committed
  <2> QED BY <2>1 DEF PreviousEscrow, SubmissionOf, SubmissionRecord
<1>5. /\ IndexWith(r, b) \in Seq(Account)
      /\ IsInjective(IndexWith(r, b))
      /\ Range(IndexWith(r, b)) = {x \in Account : Committed(r, x)} \cup {b}
  <2>1. /\ roundV2[r].bidders \in Seq(Account) /\ IsInjective(roundV2[r].bidders)
        /\ Range(roundV2[r].bidders) = {x \in Account : Committed(r, x)}
    BY <1>1 DEF RoundRecord, RoundInv, IndexExact
  <2> QED BY <2>1, IndexAppend DEF IndexWith
<1>6. /\ round \in RoundRecord /\ round # None /\ round.bidders = IndexWith(r, b)
      /\ round.commit_deadline = roundV2[r].commit_deadline
      /\ round.reveal_round = roundV2[r].reveal_round
      /\ round.max_participants = roundV2[r].max_participants
      /\ round.mode = roundV2[r].mode
      /\ round.payment_asset = roundV2[r].payment_asset
      /\ round.status = "Open"
      /\ round.winner = roundV2[r].winner /\ round.winning_bid = roundV2[r].winning_bid
  <2>1. round \in RoundRecord
    BY <1>1, <1>5 DEF RoundRecord
  <2> QED BY <1>1, <2>1, NoneIsNoValue DEF RoundRecord
<1>7. /\ submissionV2' = [submissionV2 EXCEPT ![r] = [submissionV2[r] EXCEPT ![b] = new]]
      /\ roundV2' = [roundV2 EXCEPT ![r] = round]
  BY DEF CommitV2
<1> HIDE DEF new, round
<1>8. /\ submissionV2'[r][b] = new
      /\ \A x \in Account \ {b} : submissionV2'[r][x] = submissionV2[r][x]
      /\ \A s \in RoundId \ {r} : submissionV2'[s] = submissionV2[s]
      /\ submissionV2' \in [RoundId -> [Account -> SubmissionRecord \cup {None}]]
      /\ roundV2'[r] = round
      /\ \A s \in RoundId \ {r} : roundV2'[s] = roundV2[s]
      /\ roundV2' \in [RoundId -> RoundRecord \cup {None}]
  <2>1. [submissionV2[r] EXCEPT ![b] = new] \in [Account -> SubmissionRecord \cup {None}]
    BY <1>3 DEF TypeOKV2
  <2>2. [submissionV2[r] EXCEPT ![b] = new][b] = new
        /\ \A x \in Account \ {b} :
              [submissionV2[r] EXCEPT ![b] = new][x] = submissionV2[r][x]
    BY DEF TypeOKV2
  <2> QED BY <1>6, <1>7, <2>1, <2>2 DEF TypeOKV2
<1>9. wallet' \in [Asset -> [Account -> Nat]]
  <2>1. wallet' = [a \in Asset |-> [x \in Account |-> wallet[a][x] +
                     (IF a = roundV2[r].payment_asset /\ x = b THEN back - escrow ELSE 0)]]
    BY DEF CommitV2, Credited
  <2>2. ASSUME NEW a \in Asset, NEW x \in Account
        PROVE  wallet[a][x] +
                 (IF a = roundV2[r].payment_asset /\ x = b THEN back - escrow ELSE 0) \in Nat
    <3>1. wallet[a][x] \in Nat
      BY DEF TypeOKV2, LedgerTypeOK
    <3>2. escrow > 0 /\ a = roundV2[r].payment_asset /\ x = b => wallet[a][x] + back >= escrow
      BY DEF CommitV2
    <3> HIDE DEF back
    <3> QED BY <1>2, <1>4, <3>1, <3>2
  <2> QED BY <2>1, <2>2
<1>10. TypeOKV2'
  BY <1>8, <1>9 DEF TypeOKV2, LedgerTypeOK, CommitV2
<1>11. RoundInv(r)'
  <2>1. \A x \in Account : Committed(r, x)' <=> Committed(r, x) \/ x = b
    BY <1>3, <1>8 DEF Committed
  <2>2. IndexExact(r)'
    BY <1>5, <1>6, <1>8, <2>1 DEF IndexExact, Stored
  <2>3. RoundSound(r)'
    <3>1. Len(roundV2'[r].bidders) <= roundV2'[r].max_participants
      <4>1. roundV2[r].max_participants \in Nat /\ roundV2[r].bidders \in Seq(Account)
        BY <1>1 DEF RoundRecord
      <4>2. Len(roundV2[r].bidders) <= roundV2[r].max_participants
        BY <1>1 DEF RoundInv, RoundSound
      <4>3. Len(IndexWith(r, b)) <= roundV2[r].max_participants
        <5>1. HasRoomV2(r, b)
          BY Zenon DEF CommitV2
        <5>2. /\ Len(roundV2[r].bidders) \in Nat
              /\ Len(Append(roundV2[r].bidders, b)) = Len(roundV2[r].bidders) + 1
          BY <4>1
        <5> QED BY <4>1, <4>2, <5>1, <5>2 DEF HasRoomV2, IndexWith
      <4> QED BY <1>6, <1>8, <4>3
    <3> QED BY <1>1, <1>6, <1>8, <3>1 DEF RoundInv, RoundSound
  <2>4. new.escrow = escrow /\ ~ new.valid /\ ~ new.settled
    BY DEF new
  <2>5. SubmissionSound(r, b)'
    BY <1>2, <1>6, <1>8, <2>4 DEF SubmissionSound, SubmissionOf
  <2>6. \A x \in Account : Committed(r, x)' => SubmissionSound(r, x)'
    BY <1>1, <1>6, <1>8, <2>1, <2>5 DEF RoundInv, SubmissionSound, SubmissionOf
  <2>7. OutcomeJust(r)'
    BY <1>6, <1>8 DEF OutcomeJust
  <2> QED BY <2>2, <2>3, <2>6, <2>7 DEF RoundInv
<1> QED BY <1>1, <1>6, <1>8, <1>10, <1>11, OneRound DEF CommitV2, Stored

\* create_round_v2_impl preserves the invariant: the new round passed its checks.
LEMMA CreateStep ==
    ASSUME IInvV2, NEW operator \in Account, NEW q \in RequestV2,
           NEW policy \in PolicyRecord \cup {None}, NEW version \in {2, 3},
           NEW reveal \in RevealRecord \cup {None},
           CreateRoundV2Impl(operator, q, policy, version, reveal)
    PROVE  IInvV2' /\ StoredStays /\ roundV2'[NextRoundId] # None
<1> USE DEF IInvV2
<1> DEFINE round == NewRound(operator, q, version)
<1>1. q \in RequestRecord /\ SettlementOK(q) /\ DeadlinesOK(q)
  BY RoundV2Assumption DEF CreateRoundV2Impl
<1>2. /\ round \in RoundRecord /\ round # None
      /\ round.bidders = <<>> /\ round.status = "Open"
      /\ round.winner = None /\ round.winning_bid = 0
      /\ round.commit_deadline = q.commit_deadline /\ round.reveal_round = q.reveal_round
      /\ round.max_participants = q.max_participants
      /\ round.mode = q.mode /\ round.payment_asset = q.payment_asset
  <2>1. q.lot_amount \in Nat
    BY <1>1 DEF RequestRecord, SettlementOK, RoundMode
  <2>2. round \in RoundRecord
    BY <1>1, <2>1 DEF NewRound, RequestRecord, RoundRecord, Status
  <2> QED BY <2>2, NoneIsNoValue DEF NewRound
<1>0. /\ roundCounter < MaxRounds /\ roundCounter' = NextRoundId
      /\ roundCounter \in 0 .. MaxRounds /\ MaxRounds \in Nat
  BY LedgerAssumption DEF CreateRoundV2Impl, TypeOKV2, LedgerTypeOK
<1> PICK id \in RoundId : id = NextRoundId
  BY <1>0 DEF NextRoundId, RoundId
<1>3. /\ roundCounter' = id /\ id = roundCounter + 1
      /\ roundCounter \in Nat /\ roundCounter' \in 0 .. MaxRounds
  BY <1>0 DEF NextRoundId
<1>4. ~ Stored(id) /\ \A x \in Account : ~ Committed(id, x)
  <2>1. ~ Stored(id)
    BY <1>3 DEF Counted
  <2> QED BY <1>3, <2>1, EmptyIndex DEF RoundInv, IndexExact
<1> HIDE DEF round
<1>5. /\ roundV2'[id] = round
      /\ \A s \in RoundId \ {id} : roundV2'[s] = roundV2[s]
      /\ roundV2' \in [RoundId -> RoundRecord \cup {None}]
      /\ policyV2' \in [RoundId -> PolicyRecord \cup {None}]
      /\ revealV3' \in [RoundId -> RevealRecord \cup {None}]
      /\ submissionV2' = submissionV2
  BY <1>2, <1>3 DEF CreateRoundV2Impl, TypeOKV2, round
<1>6. wallet' \in [Asset -> [Account -> Nat]]
  <2>1. wallet' = [a \in Asset |-> [x \in Account |-> wallet[a][x] +
                     (IF a = q.lot_asset /\ x = operator THEN - q.lot_amount ELSE 0)]]
    BY DEF CreateRoundV2Impl, Credited
  <2>2. ASSUME NEW a \in Asset, NEW x \in Account
        PROVE  wallet[a][x] +
                 (IF a = q.lot_asset /\ x = operator THEN - q.lot_amount ELSE 0) \in Nat
    <3>1. wallet[a][x] \in Nat /\ q.lot_amount \in Int /\ None \notin Asset
      BY <1>1, NoneIsNoValue DEF TypeOKV2, LedgerTypeOK, RequestRecord
    <3>2. a = q.lot_asset /\ x = operator => wallet[a][x] >= q.lot_amount
      BY <3>1 DEF CreateRoundV2Impl
    <3> QED BY <3>1, <3>2
  <2> QED BY <2>1, <2>2
<1>7. TypeOKV2'
  BY <1>3, <1>5, <1>6 DEF TypeOKV2, LedgerTypeOK, CreateRoundV2Impl
<1>8. BeaconsDue'
  BY DEF BeaconsDue, CreateRoundV2Impl
<1>9. RoundInv(id)'
  <2>1. IndexExact(id)'
    BY <1>2, <1>4, <1>5, EmptyIndex DEF IndexExact, Stored, Committed
  <2>2. RoundSound(id)'
    <3>1. q.commit_deadline < TimeOfRound(q.reveal_round)
      BY <1>1 DEF DeadlinesOK
    <3>2. q.mode = "Auction" <=> q.payment_asset # None
      BY <1>1 DEF SettlementOK
    <3>3. q.max_participants \in Nat /\ Len(<<>>) <= q.max_participants
      BY <1>1 DEF RequestRecord
    <3> QED BY <1>2, <1>5, <3>1, <3>2, <3>3 DEF RoundSound
  <2>3. \A x \in Account : ~ Committed(id, x)'
    BY <1>4, <1>5 DEF Committed
  <2>4. OutcomeJust(id)'
    BY <1>2, <1>5 DEF OutcomeJust
  <2> QED BY <2>1, <2>2, <2>3, <2>4 DEF RoundInv
<1>10. ASSUME NEW s \in RoundId PROVE Counted(s)' /\ RoundInv(s)'
  <2>1. CASE s = id
    BY <1>2, <1>3, <1>5, <1>9, <2>1 DEF Counted, Stored
  <2>2. CASE s # id
    <3>1. RoundInv(s)'
      BY <1>5, <2>2, Frame
    <3>2. s <= roundCounter <=> s <= roundCounter'
      BY <1>3, <2>2 DEF RoundId
    <3> QED BY <1>5, <2>2, <3>1, <3>2 DEF Counted, Stored
  <2> QED BY <2>1, <2>2
<1>11. StoredStays /\ roundV2'[NextRoundId] # None
  BY <1>2, <1>5 DEF StoredStays, Stored
<1> QED BY <1>7, <1>8, <1>10, <1>11

\* So do the three entry points that call it.
LEMMA CreateAnyStep ==
    ASSUME IInvV2, NEW operator \in Account, NEW q \in RequestV2,
           CreateRoundV2(operator, q) \/ CreatePartnerRoundV2(operator, q)
           \/ CreateRoundV3(operator, q)
    PROVE  IInvV2' /\ StoredStays /\ roundV2'[NextRoundId] # None
<1>1. q.policy \in PolicyRecord \cup {None} /\ q.fallback_at \in RevealPolicy
  BY RoundV2Assumption DEF RequestRecord
<1>2. [policy |-> q.fallback_at, opened_at |-> None] \in RevealRecord
  BY <1>1 DEF RevealRecord
<1>3. CASE CreateRoundV2(operator, q)
  BY <1>3, CreateStep DEF CreateRoundV2
<1>4. CASE CreatePartnerRoundV2(operator, q)
  BY <1>1, <1>4, CreateStep DEF CreatePartnerRoundV2
<1>5. CASE CreateRoundV3(operator, q)
  BY <1>1, <1>2, <1>5, CreateStep DEF CreateRoundV3
<1> QED BY <1>3, <1>4, <1>5

---------------------------------------------------------------------------
(* Steps that end a round: the bids stay what they were.                   *)

\* The index of round r and what was bid in it are the same after the step.
SameBids(r) ==
    /\ roundV2'[r].bidders = roundV2[r].bidders
    /\ roundV2'[r].clearing_rule = roundV2[r].clearing_rule
    /\ \A x \in Account :
        /\ submissionV2'[r][x] # None <=> submissionV2[r][x] # None
        /\ submissionV2[r][x] # None =>
              /\ submissionV2'[r][x].valid = submissionV2[r][x].valid
              /\ submissionV2'[r][x].revealed_amount = submissionV2[r][x].revealed_amount
              /\ submissionV2'[r][x].escrow = submissionV2[r][x].escrow

\* In a stored round the index lists committed accounts only.
LEMMA IndexedCommitted ==
    ASSUME IInvV2, NEW r \in RoundId, Stored(r), NEW i \in DOMAIN roundV2[r].bidders
    PROVE  /\ roundV2[r].bidders[i] \in Account
           /\ Committed(r, roundV2[r].bidders[i])
           /\ Bid(r, i) \in SubmissionRecord
           /\ roundV2[r] \in RoundRecord
           /\ i \in Nat
<1>1. roundV2[r] \in RoundRecord
  BY DEF IInvV2, TypeOKV2, Stored
<1>2. roundV2[r].bidders \in Seq(Account)
  BY <1>1 DEF RoundRecord
<1>3. roundV2[r].bidders[i] \in Range(roundV2[r].bidders)
  BY DEF Range
<1>4. Range(roundV2[r].bidders) = {b \in Account : Committed(r, b)}
  BY DEF IInvV2, RoundInv, IndexExact
<1>5. roundV2[r].bidders[i] \in Account /\ Committed(r, roundV2[r].bidders[i])
  BY <1>3, <1>4
<1> QED BY <1>1, <1>2, <1>5 DEF IInvV2, TypeOKV2, Bid, SubmissionOf, Committed

\* An outcome stays just while the bids it was computed from stay the same.
LEMMA SameBidsFacts ==
    ASSUME IInvV2, NEW r \in RoundId, Stored(r), Stored(r)', SameBids(r)
    PROVE  /\ IndexExact(r)'
           /\ Revealed(r)' = Revealed(r)
           /\ \A i \in DOMAIN roundV2[r].bidders :
                /\ Bid(r, i)'.revealed_amount = Bid(r, i).revealed_amount
                /\ Bid(r, i)'.escrow = Bid(r, i).escrow
                /\ Unbeaten(r, i) => Unbeaten(r, i)'
<1>1. IndexExact(r)'
  BY DEF IInvV2, RoundInv, IndexExact, SameBids, Committed
<1>2. ASSUME NEW i \in DOMAIN roundV2[r].bidders
      PROVE  /\ Bid(r, i)'.revealed_amount = Bid(r, i).revealed_amount
             /\ Bid(r, i)'.escrow = Bid(r, i).escrow
             /\ Bid(r, i)'.valid = Bid(r, i).valid
  BY IndexedCommitted DEF SameBids, Bid, SubmissionOf, Committed
<1>3. Revealed(r)' = Revealed(r)
  BY <1>2 DEF Revealed, SameBids
<1>4. ASSUME NEW i \in DOMAIN roundV2[r].bidders, Unbeaten(r, i) PROVE Unbeaten(r, i)'
  <2>1. Revealed(r) \subseteq DOMAIN roundV2[r].bidders
    BY DEF Revealed
  <2> QED BY <1>2, <1>3, <1>4, <2>1 DEF Unbeaten, SameBids
<1> QED BY <1>1, <1>2, <1>3, <1>4

\* Marking everybody settled changes nothing but the flags.
LEMMA AllSettledFacts ==
    ASSUME IInvV2, NEW r \in RoundId, Stored(r), NEW S, S = AllSettled(r)
    PROVE  /\ S \in [RoundId -> [Account -> SubmissionRecord \cup {None}]]
           /\ \A s \in RoundId \ {r} : S[s] = submissionV2[s]
           /\ \A x \in Account :
                /\ S[r][x] # None <=> submissionV2[r][x] # None
                /\ submissionV2[r][x] # None =>
                     /\ S[r][x].settled
                     /\ S[r][x].commitment = submissionV2[r][x].commitment
                     /\ S[r][x].valid = submissionV2[r][x].valid
                     /\ S[r][x].revealed_envelope = submissionV2[r][x].revealed_envelope
                     /\ S[r][x].revealed_amount = submissionV2[r][x].revealed_amount
                     /\ S[r][x].escrow = submissionV2[r][x].escrow
<1> DEFINE T == [b \in Account |->
                    IF b \in Bidders(r) /\ Committed(r, b)
                    THEN [SubmissionOf(r, b) EXCEPT !.settled = TRUE] ELSE SubmissionOf(r, b)]
<1>1. S = [submissionV2 EXCEPT ![r] = T]
  BY DEF AllSettled
<1>2. Bidders(r) = {b \in Account : Committed(r, b)}
  BY DEF IInvV2, RoundInv, IndexExact, Bidders
<1>3. ASSUME NEW x \in Account, Committed(r, x)
      PROVE  /\ T[x] \in SubmissionRecord /\ T[x] # None
             /\ T[x].settled
             /\ T[x].commitment = submissionV2[r][x].commitment
             /\ T[x].valid = submissionV2[r][x].valid
             /\ T[x].revealed_envelope = submissionV2[r][x].revealed_envelope
             /\ T[x].revealed_amount = submissionV2[r][x].revealed_amount
             /\ T[x].escrow = submissionV2[r][x].escrow
  <2>1. T[x] = [submissionV2[r][x] EXCEPT !.settled = TRUE]
    BY <1>2, <1>3 DEF SubmissionOf
  <2>2. submissionV2[r][x] \in SubmissionRecord
    BY <1>3 DEF IInvV2, TypeOKV2, Committed
  <2>3. T[x] \in SubmissionRecord
    BY <2>1, <2>2 DEF SubmissionRecord
  <2> QED BY <2>1, <2>2, <2>3, NoneIsNoValue DEF SubmissionRecord
<1>4. ASSUME NEW x \in Account, ~ Committed(r, x) PROVE T[x] = None
  BY <1>4 DEF SubmissionOf, Committed
<1>5. T \in [Account -> SubmissionRecord \cup {None}]
  <2>1. \A x \in Account : T[x] \in SubmissionRecord \cup {None}
    BY <1>3, <1>4
  <2> QED BY <2>1
<1> HIDE DEF T
<1>6. S[r] = T /\ \A s \in RoundId \ {r} : S[s] = submissionV2[s]
  BY <1>1 DEF IInvV2, TypeOKV2
<1>7. S \in [RoundId -> [Account -> SubmissionRecord \cup {None}]]
  BY <1>1, <1>5 DEF IInvV2, TypeOKV2
<1> QED BY <1>3, <1>4, <1>6, <1>7 DEF Committed

\* What a round still owes is never negative.
LEMMA UnsettledNat ==
    ASSUME IInvV2, NEW r \in RoundId, NEW x \in Account
    PROVE  Unsettled(r, x) \in Nat
<1>1. CASE Owing(r, x)
  BY <1>1 DEF Owing, Unsettled, Committed, SubmissionOf, IInvV2, TypeOKV2, SubmissionRecord
<1>2. CASE ~ Owing(r, x)
  BY <1>2 DEF Unsettled
<1> QED BY <1>1, <1>2

\* Voiding a round without valid bids.
LEMMA VoidRoundStep ==
    ASSUME IInvV2, NEW r \in RoundId, Stored(r),
           roundV2[r].status \in {"Open", "Revealing"}, Revealed(r) = {}, VoidRound(r),
           UNCHANGED <<now, published, roundCounter, policyV2, revealV3>>
    PROVE  IInvV2' /\ StoredStays
<1> DEFINE round == [roundV2[r] EXCEPT !.status = "Voided"]
<1>1. roundV2[r] \in RoundRecord
  BY DEF IInvV2, TypeOKV2, Stored
<1>2. /\ round \in RoundRecord /\ round # None /\ round.status = "Voided"
      /\ round.bidders = roundV2[r].bidders /\ round.clearing_rule = roundV2[r].clearing_rule
      /\ round.commit_deadline = roundV2[r].commit_deadline
      /\ round.reveal_round = roundV2[r].reveal_round /\ round.mode = roundV2[r].mode
      /\ round.max_participants = roundV2[r].max_participants
      /\ round.payment_asset = roundV2[r].payment_asset
  <2>1. round \in RoundRecord
    BY <1>1 DEF RoundRecord, Status
  <2> QED BY <1>1, <2>1, NoneIsNoValue DEF RoundRecord
<1>3. roundV2' = [roundV2 EXCEPT ![r] = round]
  BY DEF VoidRound
<1> HIDE DEF round
<1>4. /\ roundV2'[r] = round
      /\ \A s \in RoundId \ {r} : roundV2'[s] = roundV2[s]
      /\ roundV2' \in [RoundId -> RoundRecord \cup {None}]
  BY <1>2, <1>3 DEF IInvV2, TypeOKV2
<1>5. submissionV2' = IF roundV2[r].payment_asset # None THEN AllSettled(r) ELSE submissionV2
  BY DEF VoidRound, RefundAllV2
<1>6. /\ submissionV2' \in [RoundId -> [Account -> SubmissionRecord \cup {None}]]
      /\ \A s \in RoundId \ {r} : submissionV2'[s] = submissionV2[s]
      /\ SameBids(r)
  <2>1. CASE roundV2[r].payment_asset # None
    BY <1>2, <1>4, <1>5, <2>1, AllSettledFacts DEF SameBids
  <2>2. CASE roundV2[r].payment_asset = None
    BY <1>2, <1>4, <1>5, <2>2 DEF SameBids, IInvV2, TypeOKV2
  <2> QED BY <2>1, <2>2
<1>7. roundV2[r].payment_asset # None =>
         \A x \in Account : submissionV2[r][x] # None => submissionV2'[r][x].settled
  BY <1>5, AllSettledFacts
<1>8. wallet' \in [Asset -> [Account -> Nat]]
  <2>1. wallet' = [a \in Asset |-> [x \in Account |-> wallet[a][x] +
           ((IF a = roundV2[r].payment_asset THEN Unsettled(r, x) ELSE 0)
            + (IF a = roundV2[r].lot_asset /\ x = roundV2[r].operator
               THEN roundV2[r].lot_amount ELSE 0))]]
    BY DEF VoidRound, RefundAllV2, Credited
  <2>2. \A a \in Asset, x \in Account : wallet[a][x] \in Nat /\ Unsettled(r, x) \in Nat
    BY UnsettledNat DEF IInvV2, TypeOKV2, LedgerTypeOK
  <2>3. roundV2[r].lot_amount \in Nat
    BY <1>1 DEF RoundRecord
  <2> QED BY <2>1, <2>2, <2>3
<1>9. TypeOKV2'
  BY <1>4, <1>6, <1>8 DEF IInvV2, TypeOKV2, LedgerTypeOK
<1>10. Stored(r)'
  BY <1>2, <1>4 DEF Stored
<1>11. RoundInv(r)'
  <2>1. IndexExact(r)' /\ Revealed(r)' = {}
    BY <1>6, <1>10, SameBidsFacts
  <2>2. RoundSound(r)'
    BY <1>2, <1>4 DEF IInvV2, RoundInv, RoundSound
  <2>3. ASSUME NEW x \in Account, Committed(r, x)' PROVE SubmissionSound(r, x)'
    <3>1. Committed(r, x) /\ SubmissionSound(r, x)
      BY <1>6, <2>3 DEF SameBids, Committed, IInvV2, RoundInv
    <3>2. roundV2[r].mode = "Auction" <=> roundV2[r].payment_asset # None
      BY DEF IInvV2, RoundInv, RoundSound
    <3>3. roundV2[r].mode = "Auction" => submissionV2'[r][x].settled
      BY <1>7, <3>1, <3>2 DEF Committed
    <3>4. /\ submissionV2'[r][x].valid = submissionV2[r][x].valid
          /\ submissionV2'[r][x].revealed_amount = submissionV2[r][x].revealed_amount
          /\ submissionV2'[r][x].escrow = submissionV2[r][x].escrow
      BY <1>6, <3>1 DEF SameBids, Committed
    <3> QED BY <1>2, <1>4, <3>1, <3>3, <3>4 DEF SubmissionSound, SubmissionOf
  <2>4. OutcomeJust(r)'
    BY <1>2, <1>4, <2>1 DEF OutcomeJust
  <2> QED BY <2>1, <2>2, <2>3, <2>4 DEF RoundInv
<1> QED BY <1>4, <1>6, <1>9, <1>10, <1>11, OneRound

\* void_v2 preserves the invariant: an unopened round has no valid bid.
LEMMA VoidStep ==
    ASSUME IInvV2, NEW r \in RoundId, VoidV2(r)
    PROVE  IInvV2' /\ StoredStays
<1>1. Stored(r) /\ roundV2[r].status = "Open"
  BY DEF VoidV2
<1>2. Revealed(r) = {}
  <2>1. ASSUME NEW i \in DOMAIN roundV2[r].bidders PROVE ~ Bid(r, i).valid
    BY <1>1, IndexedCommitted DEF Bid, SubmissionSound, SubmissionOf, IInvV2, RoundInv
  <2> QED BY <2>1 DEF Revealed
<1> QED BY <1>1, <1>2, VoidRoundStep DEF VoidV2

\* In an auction the offers that compete are the valid bids, with their amounts.
LEMMA OffersAreRevealed ==
    ASSUME IInvV2, NEW r \in RoundId, Stored(r), roundV2[r].mode = "Auction"
    PROVE  /\ Valid(OffersV2(r)) = Revealed(r)
           /\ Revealed(r) \subseteq DOMAIN roundV2[r].bidders
           /\ \A i \in Revealed(r) :
                /\ i \in Nat
                /\ OffersV2(r)[i] = Bid(r, i).revealed_amount
                /\ Bid(r, i).revealed_amount \in 1 .. Bid(r, i).escrow
                /\ Bid(r, i).escrow \in Nat
<1>1. DOMAIN OffersV2(r) = DOMAIN roundV2[r].bidders
  BY DEF OffersV2
<1>2. ASSUME NEW i \in DOMAIN roundV2[r].bidders
      PROVE  /\ i \in Nat
             /\ OffersV2(r)[i] = IF Bid(r, i).valid THEN Bid(r, i).revealed_amount ELSE None
             /\ Bid(r, i).valid => Bid(r, i).revealed_amount \in 1 .. Bid(r, i).escrow
             /\ Bid(r, i).escrow \in Nat
  <2>1. /\ i \in Nat /\ roundV2[r].bidders[i] \in Account
        /\ Committed(r, roundV2[r].bidders[i]) /\ Bid(r, i) \in SubmissionRecord
    BY IndexedCommitted
  <2>2. SubmissionSound(r, roundV2[r].bidders[i])
    BY <2>1 DEF IInvV2, RoundInv
  <2> QED BY <2>1, <2>2 DEF OffersV2, Bid, SubmissionSound, SubmissionOf, SubmissionRecord
<1> QED BY <1>1, <1>2, NoneIsNoValue DEF Valid, Revealed

\* A winner by the clearing rule is unbeaten.
LEMMA WinnerUnbeaten ==
    ASSUME IInvV2, NEW r \in RoundId, Stored(r), roundV2[r].mode = "Auction",
           NEW i \in WinningBids(roundV2[r].clearing_rule, OffersV2(r))
    PROVE  i \in Revealed(r) /\ Unbeaten(r, i)
<1>1. i \in Revealed(r)
  BY OffersAreRevealed DEF WinningBids
<1>2. ASSUME NEW j \in Revealed(r) \ {i}
      PROVE  /\ ~ Beats(roundV2[r].clearing_rule, Bid(r, j).revealed_amount, Bid(r, i).revealed_amount)
             /\ j < i => Beats(roundV2[r].clearing_rule, Bid(r, i).revealed_amount,
                               Bid(r, j).revealed_amount)
  BY <1>1, OffersAreRevealed DEF WinningBids
<1>3. ASSUME NEW j \in Revealed(r)
      PROVE  j \in Nat /\ Bid(r, j).revealed_amount \in Int
  BY OffersAreRevealed
<1> QED BY <1>1, <1>2, <1>3 DEF Unbeaten, Beats

\* clear_v2 of a receipt-only round preserves the invariant.
LEMMA FinalizeStep ==
    ASSUME IInvV2, NEW r \in RoundId, Stored(r), roundV2[r].status = "Revealing",
           FinalizeReceiptOnly(r), UNCHANGED <<now, published, roundCounter, policyV2, revealV3>>
    PROVE  IInvV2' /\ StoredStays
<1> DEFINE round == [roundV2[r] EXCEPT !.status = "Settled"]
<1>1. roundV2[r] \in RoundRecord /\ roundV2[r].mode = "ReceiptOnly"
  BY DEF IInvV2, TypeOKV2, Stored, FinalizeReceiptOnly
<1>2. /\ round \in RoundRecord /\ round # None /\ round.status = "Settled"
      /\ round.bidders = roundV2[r].bidders /\ round.clearing_rule = roundV2[r].clearing_rule
      /\ round.commit_deadline = roundV2[r].commit_deadline
      /\ round.reveal_round = roundV2[r].reveal_round /\ round.mode = "ReceiptOnly"
      /\ round.max_participants = roundV2[r].max_participants
      /\ round.payment_asset = roundV2[r].payment_asset
  <2>1. round \in RoundRecord
    BY <1>1 DEF RoundRecord, Status
  <2> QED BY <1>1, <2>1, NoneIsNoValue DEF RoundRecord
<1>3. roundV2' = [roundV2 EXCEPT ![r] = round] /\ submissionV2' = AllSettled(r)
  BY DEF FinalizeReceiptOnly
<1> HIDE DEF round
<1>4. /\ roundV2'[r] = round
      /\ \A s \in RoundId \ {r} : roundV2'[s] = roundV2[s]
      /\ roundV2' \in [RoundId -> RoundRecord \cup {None}]
  BY <1>2, <1>3 DEF IInvV2, TypeOKV2
<1>5. /\ submissionV2' \in [RoundId -> [Account -> SubmissionRecord \cup {None}]]
      /\ \A s \in RoundId \ {r} : submissionV2'[s] = submissionV2[s]
      /\ SameBids(r)
  BY <1>2, <1>3, <1>4, AllSettledFacts DEF SameBids
<1>6. TypeOKV2'
  BY <1>4, <1>5 DEF IInvV2, TypeOKV2, LedgerTypeOK, FinalizeReceiptOnly
<1>7. Stored(r)'
  BY <1>2, <1>4 DEF Stored
<1>8. RoundInv(r)'
  <2>1. IndexExact(r)'
    BY <1>5, <1>7, SameBidsFacts
  <2>2. RoundSound(r)'
    BY <1>1, <1>2, <1>4 DEF IInvV2, RoundInv, RoundSound
  <2>3. ASSUME NEW x \in Account, Committed(r, x)' PROVE SubmissionSound(r, x)'
    <3>1. Committed(r, x) /\ SubmissionSound(r, x)
      BY <1>5, <2>3 DEF SameBids, Committed, IInvV2, RoundInv
    <3>2. submissionV2'[r][x].escrow = submissionV2[r][x].escrow
      BY <1>5, <3>1 DEF SameBids, Committed
    <3> QED BY <1>1, <1>2, <1>4, <3>1, <3>2 DEF SubmissionSound, SubmissionOf
  <2>4. OutcomeJust(r)'
    BY <1>2, <1>4 DEF OutcomeJust
  <2> QED BY <2>1, <2>2, <2>3, <2>4 DEF RoundInv
<1> QED BY <1>4, <1>5, <1>6, <1>7, <1>8, OneRound DEF FinalizeReceiptOnly

\* clear_v2 with a winner preserves the invariant: the price is the best valid bid.
LEMMA SelectStep ==
    ASSUME IInvV2, NEW r \in RoundId, Stored(r), roundV2[r].status = "Revealing",
           SelectWinner(r), UNCHANGED <<now, published, roundCounter, policyV2, revealV3>>
    PROVE  IInvV2' /\ StoredStays
<1>1. roundV2[r] \in RoundRecord /\ roundV2[r].mode = "Auction"
  BY DEF IInvV2, TypeOKV2, Stored, SelectWinner
<1>2. PICK i \in WinningBids(roundV2[r].clearing_rule, OffersV2(r)) :
         roundV2' = [roundV2 EXCEPT ![r].status = "Cleared",
                                    ![r].winner = roundV2[r].bidders[i],
                                    ![r].winning_bid = OffersV2(r)[i]]
  BY DEF SelectWinner
<1>3. i \in Revealed(r) /\ Unbeaten(r, i)
  BY <1>1, WinnerUnbeaten
<1>4. /\ i \in DOMAIN roundV2[r].bidders
      /\ OffersV2(r)[i] = Bid(r, i).revealed_amount
      /\ Bid(r, i).revealed_amount \in 1 .. Bid(r, i).escrow
      /\ Bid(r, i).escrow \in Nat
  BY <1>1, <1>3, OffersAreRevealed
<1>5. roundV2[r].bidders[i] \in Account
  BY <1>4, IndexedCommitted
<1> DEFINE round == [roundV2[r] EXCEPT !.status = "Cleared",
                                       !.winner = roundV2[r].bidders[i],
                                       !.winning_bid = Bid(r, i).revealed_amount]
<1>6. /\ round \in RoundRecord /\ round # None /\ round.status = "Cleared"
      /\ round.winner = roundV2[r].bidders[i]
      /\ round.winning_bid = Bid(r, i).revealed_amount
      /\ round.bidders = roundV2[r].bidders /\ round.clearing_rule = roundV2[r].clearing_rule
      /\ round.commit_deadline = roundV2[r].commit_deadline
      /\ round.reveal_round = roundV2[r].reveal_round /\ round.mode = "Auction"
      /\ round.max_participants = roundV2[r].max_participants
      /\ round.payment_asset = roundV2[r].payment_asset
  <2>1. Bid(r, i).revealed_amount \in Nat
    BY <1>4
  <2>2. round \in RoundRecord
    BY <1>1, <1>5, <2>1 DEF RoundRecord, Status
  <2> QED BY <1>1, <2>2, NoneIsNoValue DEF RoundRecord
<1>7. roundV2' = [roundV2 EXCEPT ![r] = round] /\ submissionV2' = submissionV2
  <2>1. roundV2 \in [RoundId -> RoundRecord \cup {None}]
    BY DEF IInvV2, TypeOKV2
  <2> QED BY <1>1, <1>2, <1>4, <2>1 DEF SelectWinner
<1> HIDE DEF round
<1>8. /\ roundV2'[r] = round
      /\ \A s \in RoundId \ {r} : roundV2'[s] = roundV2[s]
      /\ roundV2' \in [RoundId -> RoundRecord \cup {None}]
  BY <1>6, <1>7 DEF IInvV2, TypeOKV2
<1>9. SameBids(r)
  BY <1>6, <1>7, <1>8 DEF SameBids
<1>10. TypeOKV2'
  BY <1>7, <1>8 DEF IInvV2, TypeOKV2, LedgerTypeOK, SelectWinner
<1>11. Stored(r)'
  BY <1>6, <1>8 DEF Stored
<1>12. RoundInv(r)'
  <2>1. IndexExact(r)'
    BY <1>9, <1>11, SameBidsFacts
  <2>2. RoundSound(r)'
    BY <1>1, <1>6, <1>8 DEF IInvV2, RoundInv, RoundSound
  <2>3. ASSUME NEW x \in Account, Committed(r, x)' PROVE SubmissionSound(r, x)'
    <3>1. Committed(r, x) /\ SubmissionSound(r, x)
      BY <1>7, <2>3 DEF Committed, IInvV2, RoundInv
    <3> QED BY <1>1, <1>6, <1>7, <1>8, <3>1 DEF SubmissionSound, SubmissionOf
  <2>4. OutcomeJust(r)'
    <3>1. /\ i \in Revealed(r)' /\ Unbeaten(r, i)'
          /\ Bid(r, i)'.revealed_amount = Bid(r, i).revealed_amount
          /\ Bid(r, i)'.escrow = Bid(r, i).escrow
      BY <1>3, <1>4, <1>9, <1>11, SameBidsFacts
    <3> QED BY <1>4, <1>6, <1>8, <3>1 DEF OutcomeJust
  <2> QED BY <2>1, <2>2, <2>3, <2>4 DEF RoundInv
<1> QED BY <1>7, <1>8, <1>10, <1>11, <1>12, OneRound DEF SelectWinner

\* clear_v2 preserves the invariant in each of its three endings.
LEMMA ClearStep ==
    ASSUME IInvV2, NEW r \in RoundId, ClearV2(r)
    PROVE  IInvV2' /\ StoredStays
<1>1. CASE FinalizeReceiptOnly(r)
  BY <1>1, FinalizeStep DEF ClearV2
<1>2. CASE VoidForNoValidBid(r)
  <2>1. Revealed(r) = {}
    BY <1>2, OffersAreRevealed DEF ClearV2, VoidForNoValidBid
  <2> QED BY <1>2, <2>1, VoidRoundStep DEF ClearV2, VoidForNoValidBid
<1>3. CASE SelectWinner(r)
  BY <1>3, SelectStep DEF ClearV2
<1> QED BY <1>1, <1>2, <1>3 DEF ClearV2

\* settle_v2 preserves the invariant: it changes flags, never the outcome.
LEMMA SettleStep ==
    ASSUME IInvV2, NEW r \in RoundId, SettleV2(r)
    PROVE  IInvV2' /\ StoredStays
<1> DEFINE round == [roundV2[r] EXCEPT !.status = "Settled"]
<1>1. roundV2[r] \in RoundRecord /\ roundV2[r].mode = "Auction" /\ Stored(r)
      /\ roundV2[r].status = "Cleared"
  BY DEF IInvV2, TypeOKV2, Stored, SettleV2
<1>2. /\ round \in RoundRecord /\ round # None /\ round.status = "Settled"
      /\ round.bidders = roundV2[r].bidders /\ round.clearing_rule = roundV2[r].clearing_rule
      /\ round.winner = roundV2[r].winner /\ round.winning_bid = roundV2[r].winning_bid
      /\ round.commit_deadline = roundV2[r].commit_deadline
      /\ round.reveal_round = roundV2[r].reveal_round /\ round.mode = "Auction"
      /\ round.max_participants = roundV2[r].max_participants
      /\ round.payment_asset = roundV2[r].payment_asset
  <2>1. round \in RoundRecord
    BY <1>1 DEF RoundRecord, Status
  <2> QED BY <1>1, <2>1, NoneIsNoValue DEF RoundRecord
<1>3. roundV2' = [roundV2 EXCEPT ![r] = round] /\ submissionV2' = AllSettled(r)
  BY DEF SettleV2
<1> HIDE DEF round
<1>4. /\ roundV2'[r] = round
      /\ \A s \in RoundId \ {r} : roundV2'[s] = roundV2[s]
      /\ roundV2' \in [RoundId -> RoundRecord \cup {None}]
  BY <1>2, <1>3 DEF IInvV2, TypeOKV2
<1>5. /\ submissionV2' \in [RoundId -> [Account -> SubmissionRecord \cup {None}]]
      /\ \A s \in RoundId \ {r} : submissionV2'[s] = submissionV2[s]
      /\ SameBids(r)
      /\ \A x \in Account : submissionV2[r][x] # None => submissionV2'[r][x].settled
  BY <1>1, <1>2, <1>3, <1>4, AllSettledFacts DEF SameBids
<1>6. wallet' \in [Asset -> [Account -> Nat]]
  <2>1. wallet' = [a \in Asset |-> [x \in Account |-> wallet[a][x] +
           ((IF a = roundV2[r].payment_asset THEN Payout(r, x) ELSE 0)
            + (IF a = roundV2[r].lot_asset /\ x = roundV2[r].winner
               THEN roundV2[r].lot_amount ELSE 0))]]
    BY DEF SettleV2, Credited
  <2>2. roundV2[r].lot_amount \in Nat /\ roundV2[r].winning_bid \in Nat
    BY <1>1 DEF RoundRecord
  <2>3. \A x \in Account : Payout(r, x) \in Nat
    BY <2>2, UnsettledNat DEF Payout
  <2>4. \A a \in Asset, x \in Account : wallet[a][x] \in Nat
    BY DEF IInvV2, TypeOKV2, LedgerTypeOK
  <2> QED BY <2>1, <2>2, <2>3, <2>4
<1>7. TypeOKV2'
  BY <1>4, <1>5, <1>6 DEF IInvV2, TypeOKV2, LedgerTypeOK, SettleV2
<1>8. Stored(r)'
  BY <1>2, <1>4 DEF Stored
<1>9. RoundInv(r)'
  <2>1. IndexExact(r)'
    BY <1>1, <1>5, <1>8, SameBidsFacts
  <2>2. RoundSound(r)'
    BY <1>1, <1>2, <1>4 DEF IInvV2, RoundInv, RoundSound
  <2>3. ASSUME NEW x \in Account, Committed(r, x)' PROVE SubmissionSound(r, x)'
    <3>1. Committed(r, x) /\ SubmissionSound(r, x)
      BY <1>1, <1>5, <2>3 DEF SameBids, Committed, IInvV2, RoundInv
    <3>2. /\ submissionV2'[r][x].settled
          /\ submissionV2'[r][x].valid = submissionV2[r][x].valid
          /\ submissionV2'[r][x].revealed_amount = submissionV2[r][x].revealed_amount
          /\ submissionV2'[r][x].escrow = submissionV2[r][x].escrow
      BY <1>5, <3>1 DEF SameBids, Committed
    <3> QED BY <1>1, <1>2, <1>4, <3>1, <3>2 DEF SubmissionSound, SubmissionOf
  <2>4. OutcomeJust(r)'
    <3>1. PICK i \in Revealed(r) :
             /\ roundV2[r].winner = roundV2[r].bidders[i]
             /\ roundV2[r].winning_bid = Bid(r, i).revealed_amount
             /\ roundV2[r].winning_bid \in 1 .. Bid(r, i).escrow
             /\ Unbeaten(r, i)
      BY <1>1 DEF IInvV2, RoundInv, OutcomeJust
    <3>2. /\ i \in Revealed(r)' /\ Unbeaten(r, i)'
          /\ Bid(r, i)'.revealed_amount = Bid(r, i).revealed_amount
          /\ Bid(r, i)'.escrow = Bid(r, i).escrow
      BY <1>1, <1>5, <1>8, <3>1, SameBidsFacts DEF Revealed
    <3> QED BY <1>2, <1>4, <3>1, <3>2 DEF OutcomeJust
  <2> QED BY <2>1, <2>2, <2>3, <2>4 DEF RoundInv
<1> QED BY <1>1, <1>4, <1>5, <1>7, <1>8, <1>9, OneRound DEF SettleV2

\* Every entry point of the v2 and v3 round preserves the invariant.
LEMMA NextIInvV2 == IInvV2 /\ [NextV2]_varsV2 => IInvV2' /\ StoredStays
<1> SUFFICES ASSUME IInvV2, [NextV2]_varsV2 PROVE IInvV2' /\ StoredStays
  OBVIOUS
<1>1. ASSUME NEW op \in Account, NEW q \in RequestV2,
             CreateRoundV2(op, q) \/ CreatePartnerRoundV2(op, q) \/ CreateRoundV3(op, q)
      PROVE  IInvV2' /\ StoredStays
  BY <1>1, CreateAnyStep
<1>2. ASSUME NEW r \in RoundId, NEW b \in Account, NEW e \in Envelope, NEW x \in EscrowV2,
             CommitV2(r, b, e, x)
      PROVE  IInvV2' /\ StoredStays
  BY <1>2, CommitStep
<1>3. ASSUME NEW r \in RoundId, NEW c \in Account, OpenRevealV2(r, c) PROVE IInvV2' /\ StoredStays
  BY <1>3, OpenRevealStep
<1>4. ASSUME NEW r \in RoundId, NEW b \in Account, NEW e \in Envelope, RevealV2(r, b, e)
      PROVE  IInvV2' /\ StoredStays
  BY <1>4, RevealStep
<1>5. ASSUME NEW r \in RoundId, ClearV2(r) \/ SettleV2(r) \/ VoidV2(r) PROVE IInvV2' /\ StoredStays
  BY <1>5, ClearStep, SettleStep, VoidStep
<1>6. CASE LedgerNext /\ UNCHANGED storageV2
  BY <1>6, LedgerStep
<1>7. CASE UNCHANGED varsV2
  BY <1>7, LedgerStep DEF varsV2
<1> QED BY <1>1, <1>2, <1>3, <1>4, <1>5, <1>6, <1>7 DEF NextV2, CallV2

---------------------------------------------------------------------------
(* Theorems.                                                               *)

\* The inductive invariant holds in every reachable state of v2 and v3 rounds:
\* creation, commits, openings, reveals, clearing, settlement and voiding keep it.
THEOREM InvariantV2 == SpecV2 => []IInvV2
BY InitIInvV2, NextIInvV2, PTL DEF SpecV2

\* create_round_v2 to void_v2 keep every record well-typed, and no balance or
\* escrow is ever negative.
THEOREM TypeCorrectV2 == SpecV2 => []TypeOKV2
<1>1. IInvV2 => TypeOKV2
  BY DEF IInvV2
<1> QED BY <1>1, InvariantV2, PTL

\* commit_v2 keeps the bidder index exact and within max_participants: nobody
\* with escrow is missed by the loops of clear_v2, settle_v2 and refund_all_v2,
\* nobody is paid twice, and the loops are no longer than creation allowed.
THEOREM IndexExactV2 == SpecV2 => []BidderIndexExactV2
<1>1. IInvV2 => BidderIndexExactV2
  BY DEF IInvV2, RoundInv, RoundSound, WithinCap, BidderIndexExactV2
<1> QED BY <1>1, InvariantV2, PTL

\* clear_v2 awards the lot to the best valid bid, the earliest among equals,
\* at a price within the winner's escrow, and settle_v2 changes none of it;
\* no round with a valid bid is voided.
THEOREM OutcomesJustV2 == SpecV2 => []OutcomeJustV2
<1>1. IInvV2 => OutcomeJustV2
  BY DEF IInvV2, RoundInv, OutcomeJustV2
<1> QED BY <1>1, InvariantV2, PTL

---------------------------------------------------------------------------
(* The action property: seals are fixed before they can be read.           *)

\* The step keeps the commitment and escrow of b in round r, if b has one.
SealKept(r, b) ==
    /\ Committed(r, b)' = Committed(r, b)
    /\ Committed(r, b) =>
           /\ SubmissionOf(r, b)'.commitment = SubmissionOf(r, b).commitment
           /\ SubmissionOf(r, b)'.escrow = SubmissionOf(r, b).escrow

\* A step that leaves the submissions alone keeps every seal.
LEMMA SameSubmissionsKeepSeals ==
    ASSUME NEW r \in RoundId, NEW b \in Account, submissionV2'[r] = submissionV2[r]
    PROVE  SealKept(r, b)
BY DEF SealKept, Committed, SubmissionOf

\* refund_all_v2 and settle_v2 set settled flags and keep every seal.
LEMMA AllSettledKeepsSeals ==
    ASSUME IInvV2, NEW r \in RoundId, Stored(r),
           submissionV2' = AllSettled(r) \/ submissionV2' = submissionV2,
           NEW s \in RoundId, NEW b \in Account
    PROVE  SealKept(s, b)
<1>1. CASE submissionV2' = submissionV2
  BY <1>1, SameSubmissionsKeepSeals
<1>2. CASE submissionV2' = AllSettled(r) /\ s # r
  BY <1>2, AllSettledFacts, SameSubmissionsKeepSeals
<1>3. CASE submissionV2' = AllSettled(r) /\ s = r
  BY <1>3, AllSettledFacts DEF SealKept, Committed, SubmissionOf
<1> QED BY <1>1, <1>2, <1>3

\* Once the beacon of a round is out commit_v2 is closed, so no step alters a seal.
LEMMA StepKeepsSeals ==
    ASSUME IInvV2, NextV2, NEW s \in RoundId, NEW b \in Account,
           Stored(s), HasSignature(roundV2[s].reveal_round)
    PROVE  SealKept(s, b)
<1>1. ASSUME NEW op \in Account, NEW q \in RequestV2,
             CreateRoundV2(op, q) \/ CreatePartnerRoundV2(op, q) \/ CreateRoundV3(op, q)
      PROVE  SealKept(s, b)
  <2>1. submissionV2' = submissionV2
    BY <1>1 DEF CreateRoundV2, CreatePartnerRoundV2, CreateRoundV3, CreateRoundV2Impl
  <2> QED BY <2>1, SameSubmissionsKeepSeals
<1>2. ASSUME NEW r \in RoundId, NEW c \in Account, NEW e \in Envelope, NEW x \in EscrowV2,
             CommitV2(r, c, e, x)
      PROVE  SealKept(s, b)
  <2>1. r # s
    <3> SUFFICES ASSUME r = s PROVE FALSE
      OBVIOUS
    <3>1. now <= roundV2[s].commit_deadline
      BY <1>2 DEF CommitV2
    <3>2. roundV2[s].commit_deadline < TimeOfRound(roundV2[s].reveal_round)
      BY DEF IInvV2, RoundInv, RoundSound
    <3>3. TimeOfRound(roundV2[s].reveal_round) <= now
      BY DEF IInvV2, BeaconsDue, HasSignature
    <3>4. roundV2[s] \in RoundRecord
      BY DEF IInvV2, TypeOKV2, Stored
    <3>5. /\ roundV2[s].commit_deadline \in Int /\ now \in Int
          /\ TimeOfRound(roundV2[s].reveal_round) \in Int
      BY <3>4, TimeOfRoundInTime DEF RoundRecord, Time, IInvV2, TypeOKV2, LedgerTypeOK
    <3> QED BY <3>1, <3>2, <3>3, <3>5
  <2>2. submissionV2'[s] = submissionV2[s]
    BY <1>2, <2>1 DEF CommitV2, IInvV2, TypeOKV2
  <2> QED BY <2>2, SameSubmissionsKeepSeals
<1>3. ASSUME NEW r \in RoundId, NEW c \in Account, OpenRevealV2(r, c) PROVE SealKept(s, b)
  BY <1>3, SameSubmissionsKeepSeals DEF OpenRevealV2
<1>4. ASSUME NEW r \in RoundId, NEW c \in Account, NEW e \in Envelope, RevealV2(r, c, e)
      PROVE  SealKept(s, b)
  <2> DEFINE new == [submissionV2[r][c] EXCEPT !.revealed_envelope = e,
                                               !.revealed_amount = e.amount, !.valid = TRUE]
  <2>1. submissionV2[r][c] \in SubmissionRecord
    BY <1>4 DEF RevealV2, Committed, IInvV2, TypeOKV2
  <2>2. /\ new.commitment = submissionV2[r][c].commitment
        /\ new.escrow = submissionV2[r][c].escrow
        /\ new # None /\ submissionV2[r][c] # None
    <3>1. e.amount \in Int \cup {None}
      BY RoundV2Assumption
    <3>2. new \in SubmissionRecord
      BY <2>1, <3>1 DEF SubmissionRecord
    <3> QED BY <2>1, <3>2, NoneIsNoValue DEF SubmissionRecord
  <2>3. submissionV2' = [submissionV2 EXCEPT ![r] = [submissionV2[r] EXCEPT ![c] = new]]
    BY <1>4 DEF RevealV2
  <2> HIDE DEF new
  <2>4. CASE s = r /\ b = c
    BY <2>2, <2>3, <2>4 DEF SealKept, Committed, SubmissionOf, IInvV2, TypeOKV2
  <2>5. CASE s # r \/ b # c
    BY <2>3, <2>5 DEF SealKept, Committed, SubmissionOf, IInvV2, TypeOKV2
  <2> QED BY <2>4, <2>5
<1>5. ASSUME NEW r \in RoundId, ClearV2(r) \/ SettleV2(r) \/ VoidV2(r) PROVE SealKept(s, b)
  <2>1. Stored(r) /\ (submissionV2' = AllSettled(r) \/ submissionV2' = submissionV2)
    BY <1>5 DEF ClearV2, FinalizeReceiptOnly, VoidForNoValidBid, SelectWinner, SettleV2, VoidV2,
       VoidRound, RefundAllV2
  <2> QED BY <2>1, AllSettledKeepsSeals
<1>6. CASE LedgerNext /\ UNCHANGED storageV2
  BY <1>6, SameSubmissionsKeepSeals DEF storageV2
<1> QED BY <1>1, <1>2, <1>3, <1>4, <1>5, <1>6 DEF NextV2, CallV2

\* create_round_v2 and commit_v2 together keep sealed bidding sealed: once the
\* signature that opens the seals exists, no commitment of the round is added
\* or replaced and no escrow changes.
THEOREM SealsFixedV2 == SpecV2 => SealedBeforeBeaconV2
<1>1. IInvV2 /\ [NextV2]_varsV2 =>
        [\A r \in RoundId, b \in Account :
            Stored(r) /\ HasSignature(roundV2[r].reveal_round) =>
              /\ Committed(r, b)' = Committed(r, b)
              /\ Committed(r, b) =>
                     /\ SubmissionOf(r, b)'.commitment = SubmissionOf(r, b).commitment
                     /\ SubmissionOf(r, b)'.escrow = SubmissionOf(r, b).escrow]_varsV2
  BY StepKeepsSeals DEF SealKept
<1> QED BY <1>1, InvariantV2, PTL DEF SpecV2, SealedBeforeBeaconV2

---------------------------------------------------------------------------
(* Accounting.  A call moves tokens for one round only, and moves of every *)
(* account exactly what the account of that round changes by.              *)

OthersKept(r) ==
    \A s \in RoundId \ {r} : roundV2'[s] = roundV2[s] /\ submissionV2'[s] = submissionV2[s]

Balanced(r) ==
    \A a \in Asset, x \in Account :
        wallet'[a][x] = wallet[a][x] + NetPaidV2(r, a, x) - NetPaidV2(r, a, x)'

\* What the operator put in to be sold.
LotOf(r, a, x) ==
    IF a = roundV2[r].lot_asset /\ x = roundV2[r].operator THEN roundV2[r].lot_amount ELSE 0

\* The step keeps who sells what for which token, and when.
TermsKept(r) ==
    /\ Stored(r) /\ Stored(r)'
    /\ roundV2'[r].operator = roundV2[r].operator
    /\ roundV2'[r].mode = roundV2[r].mode
    /\ roundV2'[r].payment_asset = roundV2[r].payment_asset
    /\ roundV2'[r].lot_asset = roundV2[r].lot_asset
    /\ roundV2'[r].lot_amount = roundV2[r].lot_amount
    /\ roundV2'[r].protocol_version = roundV2[r].protocol_version
    /\ roundV2'[r].reveal_round = roundV2[r].reveal_round
    /\ roundV2'[r].commit_deadline = roundV2[r].commit_deadline
    /\ roundV2'[r].reveal_deadline = roundV2[r].reveal_deadline
    /\ roundV2'[r].max_participants = roundV2[r].max_participants

\* What a round keeps of an account is a number.
LEMMA NetPaidInt ==
    ASSUME TypeOKV2, NEW r \in RoundId, NEW a, NEW x \in Account
    PROVE  NetPaidV2(r, a, x) \in Int
<1>1. CASE ~ Stored(r)
  BY <1>1 DEF NetPaidV2
<1>2. CASE Stored(r)
  <2>1. roundV2[r].winning_bid \in Int /\ roundV2[r].lot_amount \in Int
    BY <1>2 DEF TypeOKV2, Stored, RoundRecord
  <2>2. Committed(r, x) => SubmissionOf(r, x).escrow \in Int
    BY DEF TypeOKV2, Committed, SubmissionOf, SubmissionRecord
  <2> QED BY <1>2, <2>1, <2>2 DEF NetPaidV2
<1> QED BY <1>1, <1>2

\* Until a round ends it keeps of everybody the escrow, and of the operator the lot.
LEMMA LivePaid ==
    ASSUME IInvV2, NEW r \in RoundId, Stored(r),
           roundV2[r].status \in {"Open", "Revealing", "Cleared"},
           NEW a, NEW x \in Account
    PROVE  /\ NetPaidV2(r, a, x) =
                 (IF a = roundV2[r].payment_asset THEN Unsettled(r, x) ELSE 0) + LotOf(r, a, x)
           /\ Unsettled(r, x) = IF Committed(r, x) THEN SubmissionOf(r, x).escrow ELSE 0
           /\ Owing(r, x) <=> Committed(r, x)
           /\ Unsettled(r, x) \in Nat
           /\ LotOf(r, a, x) \in Nat
<1>1. Committed(r, x) => SubmissionSound(r, x)
  BY DEF IInvV2, RoundInv
<1>2. x \in Bidders(r) <=> Committed(r, x)
  BY DEF IInvV2, RoundInv, IndexExact, Bidders
<1>3. Owing(r, x) <=> Committed(r, x)
  BY <1>1, <1>2 DEF Owing, SubmissionSound
<1>4. Unsettled(r, x) \in Nat
  BY UnsettledNat
<1>5. Unsettled(r, x) = IF Committed(r, x) THEN SubmissionOf(r, x).escrow ELSE 0
  BY <1>3 DEF Unsettled
<1>6. roundV2[r].lot_amount \in Nat
  BY DEF IInvV2, TypeOKV2, Stored, RoundRecord
<1>7. LotOf(r, a, x) \in Nat
  BY <1>6 DEF LotOf
<1>8. NetPaidV2(r, a, x) =
        (IF a = roundV2[r].payment_asset THEN Unsettled(r, x) ELSE 0) + LotOf(r, a, x)
  <2> DEFINE kept == IF a = roundV2[r].payment_asset /\ Committed(r, x)
                     THEN SubmissionOf(r, x).escrow ELSE 0
  <2>1. kept = IF a = roundV2[r].payment_asset THEN Unsettled(r, x) ELSE 0
    BY <1>5
  <2>2. kept \in Int
    BY <1>4, <2>1
  <2>3. NetPaidV2(r, a, x) = kept + 0 - 0 + LotOf(r, a, x) - 0
    BY DEF NetPaidV2, LotOf
  <2> HIDE DEF kept
  <2> QED BY <1>7, <2>1, <2>2, <2>3
<1> QED BY <1>3, <1>4, <1>5, <1>7, <1>8

\* The record of round r after a step that changes its status only.
LEMMA StatusKeepsTerms ==
    ASSUME TypeOKV2, NEW r \in RoundId, Stored(r), NEW status \in Status,
           roundV2' = [roundV2 EXCEPT ![r].status = status]
    PROVE  /\ TermsKept(r) /\ roundV2'[r].status = status
           /\ roundV2'[r].winner = roundV2[r].winner
           /\ roundV2'[r].winning_bid = roundV2[r].winning_bid
           /\ \A s \in RoundId \ {r} : roundV2'[s] = roundV2[s]
<1> DEFINE round == [roundV2[r] EXCEPT !.status = status]
<1>1. roundV2[r] \in RoundRecord
  BY DEF TypeOKV2, Stored
<1>2. /\ round \in RoundRecord /\ round.status = status
      /\ round.operator = roundV2[r].operator /\ round.mode = roundV2[r].mode
      /\ round.payment_asset = roundV2[r].payment_asset
      /\ round.lot_asset = roundV2[r].lot_asset /\ round.lot_amount = roundV2[r].lot_amount
      /\ round.winner = roundV2[r].winner /\ round.winning_bid = roundV2[r].winning_bid
      /\ round.protocol_version = roundV2[r].protocol_version
      /\ round.reveal_round = roundV2[r].reveal_round
      /\ round.commit_deadline = roundV2[r].commit_deadline
      /\ round.reveal_deadline = roundV2[r].reveal_deadline
      /\ round.max_participants = roundV2[r].max_participants
  BY <1>1 DEF RoundRecord
<1>3. roundV2' = [roundV2 EXCEPT ![r] = round]
  OBVIOUS
<1> HIDE DEF round
<1> QED BY <1>2, <1>3, NoneIsNoValue DEF TypeOKV2, Stored, TermsKept

\* The record of round r after a commit: its index may have grown.
LEMMA CommitKeepsTerms ==
    ASSUME IInvV2, NEW r \in RoundId, NEW b \in Account, NEW e \in Envelope,
           NEW escrow \in EscrowV2, CommitV2(r, b, e, escrow)
    PROVE  TermsKept(r) /\ OthersKept(r)
<1> DEFINE round == [roundV2[r] EXCEPT !.bidders = IndexWith(r, b)]
<1>1. Stored(r) /\ roundV2[r] \in RoundRecord
  BY DEF CommitV2, IInvV2, TypeOKV2, Stored
<1>2. /\ roundV2' = [roundV2 EXCEPT ![r] = round]
      /\ \A s \in RoundId \ {r} : submissionV2'[s] = submissionV2[s]
  BY DEF CommitV2, IInvV2, TypeOKV2
<1>3. /\ round.operator = roundV2[r].operator /\ round.mode = roundV2[r].mode
      /\ round.payment_asset = roundV2[r].payment_asset
      /\ round.lot_asset = roundV2[r].lot_asset /\ round.lot_amount = roundV2[r].lot_amount
      /\ round.protocol_version = roundV2[r].protocol_version
      /\ round.reveal_round = roundV2[r].reveal_round
      /\ round.commit_deadline = roundV2[r].commit_deadline
      /\ round.reveal_deadline = roundV2[r].reveal_deadline
      /\ round.max_participants = roundV2[r].max_participants
  BY <1>1 DEF RoundRecord
<1> HIDE DEF round
<1>4. roundV2'[r] = round /\ OthersKept(r)
  BY <1>2 DEF OthersKept, IInvV2, TypeOKV2
<1>5. Stored(r)'
  BY <1>1, CommitStep DEF StoredStays
<1> QED BY <1>1, <1>3, <1>4, <1>5 DEF TermsKept

\* The record of round r after its winner is chosen.
LEMMA SelectKeepsTerms ==
    ASSUME IInvV2, NEW r \in RoundId, ClearV2(r), SelectWinner(r)
    PROVE  TermsKept(r) /\ OthersKept(r) /\ roundV2'[r].status = "Cleared"
<1>1. PICK w, bid : roundV2' = [roundV2 EXCEPT ![r].status = "Cleared", ![r].winner = w,
                                               ![r].winning_bid = bid]
  BY DEF SelectWinner
<1> DEFINE round == [roundV2[r] EXCEPT !.status = "Cleared", !.winner = w, !.winning_bid = bid]
<1>2. Stored(r) /\ roundV2[r] \in RoundRecord
  BY DEF ClearV2, IInvV2, TypeOKV2, Stored
<1>3. /\ round.status = "Cleared"
      /\ round.operator = roundV2[r].operator /\ round.mode = roundV2[r].mode
      /\ round.payment_asset = roundV2[r].payment_asset
      /\ round.lot_asset = roundV2[r].lot_asset /\ round.lot_amount = roundV2[r].lot_amount
      /\ round.protocol_version = roundV2[r].protocol_version
      /\ round.reveal_round = roundV2[r].reveal_round
      /\ round.commit_deadline = roundV2[r].commit_deadline
      /\ round.reveal_deadline = roundV2[r].reveal_deadline
      /\ round.max_participants = roundV2[r].max_participants
  BY <1>2 DEF RoundRecord
<1>4. roundV2' = [roundV2 EXCEPT ![r] = round]
  BY <1>1
<1> HIDE DEF round
<1>5. roundV2'[r] = round /\ OthersKept(r)
  BY <1>4 DEF SelectWinner, OthersKept, IInvV2, TypeOKV2
<1>6. Stored(r)'
  BY <1>2, ClearStep DEF StoredStays
<1> QED BY <1>2, <1>3, <1>5, <1>6 DEF TermsKept

\* Creation takes the lot from the operator.
LEMMA CreateBalanced ==
    ASSUME IInvV2, NEW operator \in Account, NEW q \in RequestV2, NEW policy, NEW version, NEW reveal,
           CreateRoundV2Impl(operator, q, policy, version, reveal), roundV2'[NextRoundId] # None
    PROVE  \E r \in RoundId : OthersKept(r) /\ Balanced(r)
<1> DEFINE round == NewRound(operator, q, version)
<1>1. /\ roundCounter < MaxRounds /\ roundCounter \in 0 .. MaxRounds /\ MaxRounds \in Nat
  BY LedgerAssumption DEF CreateRoundV2Impl, IInvV2, TypeOKV2, LedgerTypeOK
<1> PICK id \in RoundId : id = NextRoundId
  BY <1>1 DEF NextRoundId, RoundId
<1>2. ~ Stored(id) /\ \A x \in Account : ~ Committed(id, x)
  <2>1. ~ Stored(id)
    BY <1>1 DEF IInvV2, Counted, NextRoundId
  <2> QED BY <2>1, EmptyIndex DEF IInvV2, RoundInv, IndexExact
<1>3. /\ roundV2' = [roundV2 EXCEPT ![id] = round] /\ submissionV2' = submissionV2
      /\ wallet' = [a \in Asset |-> [x \in Account |-> wallet[a][x] +
                     (IF a = q.lot_asset /\ x = operator THEN - q.lot_amount ELSE 0)]]
  BY DEF CreateRoundV2Impl, Credited
<1>4. /\ round.status = "Open" /\ round.lot_asset = q.lot_asset
      /\ round.lot_amount = q.lot_amount /\ round.operator = operator
  BY DEF NewRound
<1>5. q.lot_amount \in Int
  BY RoundV2Assumption DEF RequestRecord
<1> HIDE DEF round
<1>6. roundV2'[id] = round /\ OthersKept(id) /\ Stored(id)'
  BY <1>3 DEF IInvV2, TypeOKV2, OthersKept, Stored
<1>7. ASSUME NEW a \in Asset, NEW x \in Account
      PROVE  wallet'[a][x] = wallet[a][x] + NetPaidV2(id, a, x) - NetPaidV2(id, a, x)'
  <2> DEFINE lot == IF a = q.lot_asset /\ x = operator THEN q.lot_amount ELSE 0
  <2>1. NetPaidV2(id, a, x) = 0
    BY <1>2 DEF NetPaidV2
  <2>2. ~ Committed(id, x)'
    BY <1>2, <1>3 DEF Committed
  <2>3. NetPaidV2(id, a, x)' = 0 + 0 - 0 + lot - 0
    BY <1>4, <1>6, <2>2 DEF NetPaidV2
  <2>4. wallet[a][x] \in Int /\ lot \in Int
    BY <1>5 DEF IInvV2, TypeOKV2, LedgerTypeOK
  <2>5. wallet'[a][x] = wallet[a][x] - lot
    BY <1>3, <1>5, <2>4
  <2> HIDE DEF lot
  <2> QED BY <2>1, <2>3, <2>4, <2>5
<1> QED BY <1>6, <1>7 DEF Balanced

\* commit_v2 takes the new escrow and gives back the one it replaces.
LEMMA CommitBalanced ==
    ASSUME IInvV2, NEW r \in RoundId, NEW b \in Account, NEW e \in Envelope,
           NEW escrow \in EscrowV2, CommitV2(r, b, e, escrow)
    PROVE  OthersKept(r) /\ Balanced(r)
<1> DEFINE new == [commitment |-> Sha256(e), escrow |-> escrow, revealed_envelope |-> None,
                   revealed_amount |-> None, valid |-> FALSE, settled |-> FALSE]
           round == [roundV2[r] EXCEPT !.bidders = IndexWith(r, b)]
           back == PreviousEscrow(r, b)
<1>1. /\ Stored(r) /\ roundV2[r].status = "Open" /\ escrow \in Int
      /\ roundV2[r] \in RoundRecord
  BY RoundV2Assumption DEF CommitV2, IInvV2, TypeOKV2, Stored
<1>2. /\ submissionV2' = [submissionV2 EXCEPT ![r] = [submissionV2[r] EXCEPT ![b] = new]]
      /\ roundV2' = [roundV2 EXCEPT ![r] = round]
  BY DEF CommitV2
<1>3. /\ round.status = "Open" /\ round.operator = roundV2[r].operator
      /\ round.mode = roundV2[r].mode /\ round.payment_asset = roundV2[r].payment_asset
      /\ round.lot_asset = roundV2[r].lot_asset /\ round.lot_amount = roundV2[r].lot_amount
  BY <1>1 DEF RoundRecord
<1>4. new.escrow = escrow /\ new # None
  <2>1. escrow \in Nat
    <3>1. roundV2[r].mode \in {"Auction", "ReceiptOnly"} /\ EscrowAllowed(r, escrow)
      BY <1>1 DEF RoundRecord, RoundMode, CommitV2
    <3> QED BY <1>1, <3>1 DEF EscrowAllowed
  <2>2. new \in SubmissionRecord
    BY <2>1 DEF SubmissionRecord, Sha256
  <2> QED BY <2>2, NoneIsNoValue
<1>5. Stored(r)'
  BY <1>1, CommitStep DEF StoredStays
<1> HIDE DEF new, round
<1>6. /\ roundV2'[r] = round /\ submissionV2'[r][b] = new
      /\ \A x \in Account \ {b} : submissionV2'[r][x] = submissionV2[r][x]
      /\ OthersKept(r)
  BY <1>2 DEF IInvV2, TypeOKV2, OthersKept
<1>7. wallet' = [a \in Asset |-> [x \in Account |-> wallet[a][x] +
                   (IF a = roundV2[r].payment_asset /\ x = b THEN back - escrow ELSE 0)]]
  BY DEF CommitV2, Credited
<1>8. ASSUME NEW a \in Asset, NEW x \in Account
      PROVE  wallet'[a][x] = wallet[a][x] + NetPaidV2(r, a, x) - NetPaidV2(r, a, x)'
  <2> DEFINE before == IF a = roundV2[r].payment_asset /\ Committed(r, x)
                       THEN SubmissionOf(r, x).escrow ELSE 0
             after == IF a = roundV2[r].payment_asset /\ Committed(r, x)'
                      THEN SubmissionOf(r, x)'.escrow ELSE 0
             lot == LotOf(r, a, x)
  <2>1. NetPaidV2(r, a, x) = before + 0 - 0 + lot - 0
    BY <1>1 DEF NetPaidV2, LotOf
  <2>2. NetPaidV2(r, a, x)' = after + 0 - 0 + lot - 0
    BY <1>3, <1>5, <1>6 DEF NetPaidV2, LotOf
  <2>3. wallet[a][x] \in Int /\ lot \in Int /\ before \in Int
    <3>1. Committed(r, x) => SubmissionOf(r, x).escrow \in Int
      BY DEF IInvV2, TypeOKV2, Committed, SubmissionOf, SubmissionRecord
    <3>2. lot \in Int
      BY <1>1, LivePaid
    <3> HIDE DEF lot
    <3> QED BY <3>1, <3>2 DEF IInvV2, TypeOKV2, LedgerTypeOK
  <2>4. wallet'[a][x] = wallet[a][x] +
          (IF a = roundV2[r].payment_asset /\ x = b THEN back - escrow ELSE 0)
    BY <1>7
  <2>5. CASE a = roundV2[r].payment_asset /\ x = b
    <3>1. after = escrow /\ before = back
      BY <1>4, <1>6, <2>5 DEF Committed, SubmissionOf, PreviousEscrow
    <3> HIDE DEF before, after, lot, back
    <3> QED BY <1>1, <2>1, <2>2, <2>3, <2>4, <2>5, <3>1
  <2>6. CASE ~ (a = roundV2[r].payment_asset /\ x = b)
    <3>1. after = before
      BY <1>6, <2>6 DEF Committed, SubmissionOf
    <3> HIDE DEF before, after, lot, back
    <3> QED BY <2>1, <2>2, <2>3, <2>4, <2>6, <3>1
  <2> QED BY <2>5, <2>6
<1> QED BY <1>6, <1>8 DEF Balanced

\* open_reveal_v2, reveal_v2 and the choice of a winner move no token.
LEMMA QuietBalanced ==
    ASSUME IInvV2, NEW r \in RoundId, TermsKept(r), wallet' = wallet,
           roundV2[r].status \in {"Open", "Revealing"},
           roundV2'[r].status \in {"Revealing", "Cleared"},
           \A x \in Account : /\ Committed(r, x)' <=> Committed(r, x)
                              /\ Committed(r, x) =>
                                    SubmissionOf(r, x)'.escrow = SubmissionOf(r, x).escrow
    PROVE  Balanced(r)
<1>1. ASSUME NEW a \in Asset, NEW x \in Account
      PROVE  NetPaidV2(r, a, x)' = NetPaidV2(r, a, x) /\ NetPaidV2(r, a, x) \in Int
  BY NetPaidInt DEF NetPaidV2, IInvV2, TermsKept
<1>2. \A a \in Asset, x \in Account : wallet[a][x] \in Int
  BY DEF IInvV2, TypeOKV2, LedgerTypeOK
<1> QED BY <1>1, <1>2 DEF Balanced

\* Settled flags leave the other rounds alone.
LEMMA EndKeepsOthers ==
    ASSUME IInvV2, NEW r \in RoundId, Stored(r),
           submissionV2' = AllSettled(r) \/ submissionV2' = submissionV2
    PROVE  \A s \in RoundId \ {r} : submissionV2'[s] = submissionV2[s]
BY AllSettledFacts

\* Voiding gives everybody the escrow back, and the operator the lot.
LEMMA VoidBalanced ==
    ASSUME IInvV2, NEW r \in RoundId, Stored(r), roundV2[r].status \in {"Open", "Revealing"},
           VoidRound(r)
    PROVE  OthersKept(r) /\ Balanced(r)
<1>1. /\ TermsKept(r) /\ roundV2'[r].status = "Voided"
      /\ \A s \in RoundId \ {r} : roundV2'[s] = roundV2[s]
  BY StatusKeepsTerms DEF VoidRound, IInvV2, Status
<1>2. OthersKept(r)
  BY <1>1, EndKeepsOthers DEF VoidRound, RefundAllV2, OthersKept
<1>3. ASSUME NEW a \in Asset, NEW x \in Account
      PROVE  wallet'[a][x] = wallet[a][x] + NetPaidV2(r, a, x) - NetPaidV2(r, a, x)'
  <2>1. /\ wallet[a][x] \in Int
        /\ wallet'[a][x] = wallet[a][x]
             + ((IF a = roundV2[r].payment_asset THEN Unsettled(r, x) ELSE 0) + LotOf(r, a, x))
    BY DEF VoidRound, RefundAllV2, Credited, LotOf, IInvV2, TypeOKV2, LedgerTypeOK
  <2>2. /\ NetPaidV2(r, a, x) =
             (IF a = roundV2[r].payment_asset THEN Unsettled(r, x) ELSE 0) + LotOf(r, a, x)
        /\ Unsettled(r, x) \in Nat /\ LotOf(r, a, x) \in Nat
    BY LivePaid
  <2>3. NetPaidV2(r, a, x)' = 0
    BY <1>1 DEF NetPaidV2
  <2> QED BY <2>1, <2>2, <2>3
<1> QED BY <1>2, <1>3 DEF Balanced

\* A receipt-only round holds no token to give back.
LEMMA FinalizeBalanced ==
    ASSUME IInvV2, NEW r \in RoundId, Stored(r), roundV2[r].status = "Revealing",
           FinalizeReceiptOnly(r)
    PROVE  OthersKept(r) /\ Balanced(r)
<1>1. /\ TermsKept(r) /\ roundV2'[r].status = "Settled"
      /\ \A s \in RoundId \ {r} : roundV2'[s] = roundV2[s]
  BY StatusKeepsTerms DEF FinalizeReceiptOnly, IInvV2, Status
<1>2. OthersKept(r)
  BY <1>1, EndKeepsOthers DEF FinalizeReceiptOnly, OthersKept
<1>3. roundV2[r].mode = "ReceiptOnly" /\ roundV2[r].payment_asset = None
  BY DEF FinalizeReceiptOnly, IInvV2, RoundInv, RoundSound
<1>4. ASSUME NEW a \in Asset, NEW x \in Account
      PROVE  wallet'[a][x] = wallet[a][x] + NetPaidV2(r, a, x) - NetPaidV2(r, a, x)'
  <2>1. a # roundV2[r].payment_asset
    BY <1>3, NoneIsNoValue
  <2>2. NetPaidV2(r, a, x)' = 0 + 0 - 0 + LotOf(r, a, x) - 0
    BY <1>1, <1>3, <2>1 DEF NetPaidV2, LotOf, TermsKept
  <2>3. NetPaidV2(r, a, x) = 0 + LotOf(r, a, x) /\ LotOf(r, a, x) \in Nat
    BY <2>1, LivePaid
  <2>4. wallet[a][x] \in Int /\ wallet' = wallet
    BY DEF FinalizeReceiptOnly, IInvV2, TypeOKV2, LedgerTypeOK
  <2> QED BY <2>2, <2>3, <2>4
<1> QED BY <1>2, <1>4 DEF Balanced

\* settle_v2 gives the losers their escrow, the winner its surplus and the
\* lot, and the operator the price, which is within the winner's escrow; the
\* lot may well be of the token that is paid.
LEMMA SettleBalanced ==
    ASSUME IInvV2, NEW r \in RoundId, SettleV2(r)
    PROVE  OthersKept(r) /\ Balanced(r)
<1>1. /\ Stored(r) /\ roundV2[r].status = "Cleared" /\ roundV2[r].mode = "Auction"
      /\ roundV2[r] \in RoundRecord
  BY DEF SettleV2, IInvV2, TypeOKV2, Stored
<1>2. /\ TermsKept(r) /\ roundV2'[r].status = "Settled"
      /\ roundV2'[r].winner = roundV2[r].winner
      /\ roundV2'[r].winning_bid = roundV2[r].winning_bid
      /\ \A s \in RoundId \ {r} : roundV2'[s] = roundV2[s]
  BY <1>1, StatusKeepsTerms DEF SettleV2, IInvV2, Status
<1>3. OthersKept(r)
  BY <1>1, <1>2, EndKeepsOthers DEF SettleV2, OthersKept
<1> DEFINE w == roundV2[r].winner
           price == roundV2[r].winning_bid
           op == roundV2[r].operator
<1>4. w \in Account /\ Committed(r, w) /\ price \in 1 .. SubmissionOf(r, w).escrow /\ price \in Nat
  <2>1. PICK i \in Revealed(r) : w = roundV2[r].bidders[i] /\ price \in 1 .. Bid(r, i).escrow
    BY <1>1 DEF IInvV2, RoundInv, OutcomeJust
  <2>2. i \in DOMAIN roundV2[r].bidders
    BY DEF Revealed
  <2> QED BY <1>1, <2>1, <2>2, IndexedCommitted DEF Bid, RoundRecord
<1>5. /\ Owing(r, w) /\ Unsettled(r, w) = SubmissionOf(r, w).escrow /\ Unsettled(r, w) \in Nat
  BY <1>1, <1>4, LivePaid
<1>6. ASSUME NEW a \in Asset, NEW x \in Account
      PROVE  wallet'[a][x] = wallet[a][x] + NetPaidV2(r, a, x) - NetPaidV2(r, a, x)'
  <2> DEFINE pays == a = roundV2[r].payment_asset
             given == IF a = roundV2[r].lot_asset /\ x = w THEN roundV2[r].lot_amount ELSE 0
             paid == IF pays /\ x = w THEN price ELSE 0
             got == IF pays /\ x = op THEN price ELSE 0
             lot == LotOf(r, a, x)
  <2>1. /\ wallet[a][x] \in Int
        /\ wallet'[a][x] = wallet[a][x] + ((IF pays THEN Payout(r, x) ELSE 0) + given)
    BY DEF SettleV2, Credited, IInvV2, TypeOKV2, LedgerTypeOK
  <2>2. /\ NetPaidV2(r, a, x) = (IF pays THEN Unsettled(r, x) ELSE 0) + lot
        /\ Unsettled(r, x) \in Nat /\ lot \in Nat
    BY <1>1, LivePaid
  <2>3. NetPaidV2(r, a, x)' = 0 + paid - got + lot - given
    BY <1>1, <1>2 DEF NetPaidV2, LotOf, TermsKept
  <2>4. given \in Int /\ paid \in Int /\ got \in Int
    BY <1>1, <1>4 DEF RoundRecord
  <2>5. pays => Payout(r, x) = Unsettled(r, x) - paid + got
    BY <1>4, <1>5, <2>2 DEF Payout
  <2>6. ~ pays => paid = 0 /\ got = 0
    OBVIOUS
  <2>7. pays \in BOOLEAN
    OBVIOUS
  <2> HIDE DEF pays, given, paid, got, lot
  <2>8. CASE pays
    BY <2>1, <2>2, <2>3, <2>4, <2>5, <2>8
  <2>9. CASE ~ pays
    BY <2>1, <2>2, <2>3, <2>4, <2>6, <2>9
  <2> QED BY <2>8, <2>9
<1> QED BY <1>3, <1>6 DEF Balanced

\* Every call balances the account of the one round it is about.
LEMMA CallBalanced ==
    ASSUME IInvV2, CallV2
    PROVE  \E r \in RoundId : OthersKept(r) /\ Balanced(r)
<1>1. ASSUME NEW op \in Account, NEW q \in RequestV2,
             CreateRoundV2(op, q) \/ CreatePartnerRoundV2(op, q) \/ CreateRoundV3(op, q)
      PROVE  \E r \in RoundId : OthersKept(r) /\ Balanced(r)
  <2>1. roundV2'[NextRoundId] # None
    BY <1>1, CreateAnyStep
  <2>2. CASE CreateRoundV2(op, q)
    BY <2>1, <2>2, CreateBalanced DEF CreateRoundV2
  <2>3. CASE CreatePartnerRoundV2(op, q)
    BY <2>1, <2>3, CreateBalanced DEF CreatePartnerRoundV2
  <2>4. CASE CreateRoundV3(op, q)
    BY <2>1, <2>4, CreateBalanced DEF CreateRoundV3
  <2> QED BY <1>1, <2>2, <2>3, <2>4
<1>2. ASSUME NEW r \in RoundId, NEW b \in Account, NEW e \in Envelope, NEW x \in EscrowV2,
             CommitV2(r, b, e, x)
      PROVE  OthersKept(r) /\ Balanced(r)
  BY <1>2, CommitBalanced
<1>3. ASSUME NEW r \in RoundId, NEW c \in Account, OpenRevealV2(r, c)
      PROVE  OthersKept(r) /\ Balanced(r)
  <2>1. TermsKept(r) /\ roundV2'[r].status = "Revealing" /\ OthersKept(r)
    BY <1>3, StatusKeepsTerms DEF OpenRevealV2, IInvV2, Status, OthersKept
  <2> QED BY <1>3, <2>1, QuietBalanced DEF OpenRevealV2, ledgerVars, Committed, SubmissionOf
<1>4. ASSUME NEW r \in RoundId, NEW b \in Account, NEW e \in Envelope, RevealV2(r, b, e)
      PROVE  OthersKept(r) /\ Balanced(r)
  <2> DEFINE new == [submissionV2[r][b] EXCEPT !.revealed_envelope = e,
                                               !.revealed_amount = e.amount, !.valid = TRUE]
  <2>1. submissionV2[r][b] \in SubmissionRecord /\ e.amount \in Int \cup {None}
    BY <1>4, RoundV2Assumption DEF RevealV2, Committed, IInvV2, TypeOKV2
  <2>2. /\ submissionV2' = [submissionV2 EXCEPT ![r] = [submissionV2[r] EXCEPT ![b] = new]]
        /\ roundV2' = roundV2
    BY <1>4 DEF RevealV2
  <2>3. new.escrow = submissionV2[r][b].escrow /\ new # None /\ submissionV2[r][b] # None
    <3>1. new \in SubmissionRecord
      BY <2>1 DEF SubmissionRecord
    <3> QED BY <2>1, <3>1, NoneIsNoValue DEF SubmissionRecord
  <2> HIDE DEF new
  <2>4. /\ OthersKept(r)
        /\ \A x \in Account : /\ Committed(r, x)' <=> Committed(r, x)
                              /\ Committed(r, x) =>
                                    SubmissionOf(r, x)'.escrow = SubmissionOf(r, x).escrow
    BY <2>2, <2>3 DEF OthersKept, Committed, SubmissionOf, IInvV2, TypeOKV2
  <2>5. TermsKept(r) /\ roundV2[r].status = "Revealing"
        /\ roundV2'[r].status = "Revealing" /\ wallet' = wallet
    BY <1>4, <2>2 DEF RevealV2, Stored, TermsKept, ledgerVars
  <2> QED BY <2>4, <2>5, QuietBalanced
<1>5. ASSUME NEW r \in RoundId, ClearV2(r) PROVE OthersKept(r) /\ Balanced(r)
  <2>1. CASE FinalizeReceiptOnly(r)
    BY <1>5, <2>1, FinalizeBalanced DEF ClearV2
  <2>2. CASE VoidForNoValidBid(r)
    BY <1>5, <2>2, VoidBalanced DEF ClearV2, VoidForNoValidBid
  <2>3. CASE SelectWinner(r)
    <3>1. TermsKept(r) /\ OthersKept(r) /\ roundV2'[r].status = "Cleared"
      BY <1>5, <2>3, SelectKeepsTerms DEF ClearV2
    <3> QED BY <1>5, <2>3, <3>1, QuietBalanced
            DEF ClearV2, SelectWinner, Committed, SubmissionOf
  <2> QED BY <1>5, <2>1, <2>2, <2>3 DEF ClearV2
<1>6. ASSUME NEW r \in RoundId, SettleV2(r) \/ VoidV2(r) PROVE OthersKept(r) /\ Balanced(r)
  BY <1>6, SettleBalanced, VoidBalanced DEF VoidV2
<1> QED BY <1>1, <1>2, <1>3, <1>4, <1>5, <1>6 DEF CallV2

\* A call about one round keeps the books.
LEMMA BalancedKeepsBooks ==
    ASSUME TypeOKV2, TypeOKV2', AccountsBalanceV2, NEW r \in RoundId, OthersKept(r), Balanced(r)
    PROVE  AccountsBalanceV2'
<1> SUFFICES ASSUME NEW a \in Asset, NEW x \in Account
             PROVE  wallet'[a][x] = InitialBalance[a][x]
                      - SumFunction([s \in RoundId |-> NetPaidV2(s, a, x)'])
  BY DEF AccountsBalanceV2
<1> DEFINE paid == [s \in RoundId |-> NetPaidV2(s, a, x)]
           paid2 == [s \in RoundId |-> NetPaidV2(s, a, x)']
<1>1. \A s \in RoundId : paid[s] \in Int
  BY NetPaidInt
<1>2. \A s \in RoundId \ {r} : NetPaidV2(s, a, x)' = NetPaidV2(s, a, x)
  BY DEF OthersKept, NetPaidV2, Stored, Committed, SubmissionOf
<1>3. wallet'[a][x] = wallet[a][x] + paid[r] - paid2[r]
  BY DEF Balanced
<1>4. wallet[a][x] \in Int /\ wallet'[a][x] \in Int /\ InitialBalance[a][x] \in Int
  BY LedgerAssumption DEF TypeOKV2, LedgerTypeOK
<1>5. paid2[r] \in Int
  <2>1. CASE ~ Stored(r)'
    BY <2>1 DEF NetPaidV2
  <2>2. CASE Stored(r)'
    <3>1. roundV2'[r].winning_bid \in Int /\ roundV2'[r].lot_amount \in Int
      BY <2>2 DEF TypeOKV2, Stored, RoundRecord
    <3>2. Committed(r, x)' => SubmissionOf(r, x)'.escrow \in Int
      BY DEF TypeOKV2, Committed, SubmissionOf, SubmissionRecord
    <3> QED BY <2>2, <3>1, <3>2 DEF NetPaidV2
  <2> QED BY <2>1, <2>2
<1>6. \A s \in RoundId : paid[s] \in Int /\ paid2[s] \in Int /\ (s # r => paid[s] = paid2[s])
  BY <1>1, <1>2, <1>5
<1>7. wallet[a][x] = InitialBalance[a][x] - SumFunction(paid)
  BY DEF AccountsBalanceV2
<1>8. paid = [s \in RoundId |-> paid[s]] /\ paid2 = [s \in RoundId |-> paid2[s]]
  OBVIOUS
<1> HIDE DEF paid, paid2
<1>9. wallet'[a][x] = InitialBalance[a][x] - SumFunction(paid2)
  BY <1>3, <1>4, <1>6, <1>7, <1>8, BooksKept
<1> QED BY <1>9 DEF paid2

\* Neither creation, commit_v2, clear_v2, settle_v2 nor void_v2 refunds twice,
\* forgets a refund or a lot, or pays out of another round: every account
\* always holds what it started with, less its live escrows and lots and what
\* the outcomes moved.
THEOREM AccountsExactV2 == SpecV2 => []AccountsBalanceV2
<1>1. InitV2 => AccountsBalanceV2
  <2> SUFFICES ASSUME InitV2, NEW a \in Asset, NEW x \in Account
               PROVE  wallet[a][x] = InitialBalance[a][x]
                        - SumFunction([r \in RoundId |-> NetPaidV2(r, a, x)])
    BY DEF AccountsBalanceV2
  <2> DEFINE paid == [r \in RoundId |-> NetPaidV2(r, a, x)]
  <2>1. \A r \in RoundId : paid[r] = 0
    BY DEF InitV2, StorageInitV2, NetPaidV2, Stored
  <2>2. paid = [r \in RoundId |-> paid[r]]
    OBVIOUS
  <2> HIDE DEF paid
  <2>3. SumFunction(paid) = 0
    BY <2>1, <2>2, BooksOpen
  <2>4. wallet[a][x] = InitialBalance[a][x] /\ InitialBalance[a][x] \in Int
    BY LedgerAssumption DEF InitV2, LedgerInit
  <2> QED BY <2>3, <2>4 DEF paid
<1>2. IInvV2 /\ IInvV2' /\ AccountsBalanceV2 /\ [NextV2]_varsV2 => AccountsBalanceV2'
  <2> SUFFICES ASSUME IInvV2, IInvV2', AccountsBalanceV2, [NextV2]_varsV2
               PROVE  AccountsBalanceV2'
    OBVIOUS
  <2>1. CASE CallV2
    BY <2>1, CallBalanced, BalancedKeepsBooks DEF IInvV2
  <2>2. CASE ~ CallV2
    <3>1. wallet' = wallet /\ UNCHANGED storageV2
      BY <2>2 DEF NextV2, varsV2, ledgerVars, LedgerNext, CloseLedger, PublishBeacon
    <3>2. \A r, a, x : NetPaidV2(r, a, x)' = NetPaidV2(r, a, x)
      BY <3>1 DEF storageV2, NetPaidV2, Stored, Committed, SubmissionOf
    <3> QED BY <3>1, <3>2 DEF AccountsBalanceV2
  <2> QED BY <2>1, <2>2
<1> QED BY <1>1, <1>2, InvariantV2, PTL DEF SpecV2

---------------------------------------------------------------------------
(* Refinement: a v2 or v3 round implements SealedRound.                    *)


\* What a step of round r alone does to the mapped variables.
LEMMA MapStep ==
    ASSUME NEW r \in RoundId,
           \A s \in RoundId \ {r} :
               roundV2'[s] = roundV2[s] /\ submissionV2'[s] = submissionV2[s]
    PROVE  /\ phaseV2' = [phaseV2 EXCEPT ![r] = PhaseV2(r)']
           /\ stakeV2' = [stakeV2 EXCEPT ![r] = [x \in Account |-> StakeV2(r, x)']]
           /\ priceV2' = [priceV2 EXCEPT ![r] = [x \in Account |-> PriceV2(r, x)']]
           /\ phaseV2[r] = PhaseV2(r)
           /\ \A x \in Account : stakeV2[r][x] = StakeV2(r, x) /\ priceV2[r][x] = PriceV2(r, x)
<1>1. ASSUME NEW s \in RoundId \ {r}
      PROVE  /\ PhaseV2(s)' = PhaseV2(s)
             /\ \A x \in Account : StakeV2(s, x)' = StakeV2(s, x) /\ PriceV2(s, x)' = PriceV2(s, x)
  BY DEF PhaseV2, StakeV2, PriceV2, Stored, Committed, SubmissionOf
<1>2. phaseV2' = [phaseV2 EXCEPT ![r] = PhaseV2(r)']
  BY <1>1 DEF phaseV2
<1>3. stakeV2' = [stakeV2 EXCEPT ![r] = [x \in Account |-> StakeV2(r, x)']]
  BY <1>1 DEF stakeV2
<1>4. priceV2' = [priceV2 EXCEPT ![r] = [x \in Account |-> PriceV2(r, x)']]
  BY <1>1 DEF priceV2
<1> QED BY <1>2, <1>3, <1>4 DEF phaseV2, stakeV2, priceV2

\* The rows of the mapped functions, to say that a step leaves one alone.
LEMMA SameRows ==
    ASSUME NEW r \in RoundId
    PROVE  /\ PhaseV2(r)' = PhaseV2(r) => [phaseV2 EXCEPT ![r] = PhaseV2(r)'] = phaseV2
           /\ (\A x \in Account : StakeV2(r, x)' = StakeV2(r, x)) =>
                 [stakeV2 EXCEPT ![r] = [x \in Account |-> StakeV2(r, x)']] = stakeV2
           /\ (\A x \in Account : PriceV2(r, x)' = PriceV2(r, x)) =>
                 [priceV2 EXCEPT ![r] = [x \in Account |-> PriceV2(r, x)']] = priceV2
BY DEF phaseV2, stakeV2, priceV2

\* Before the first round nothing is announced, staked or paid.
LEMMA InitRefines == InitV2 => Abstract!Init
<1> SUFFICES ASSUME InitV2 PROVE Abstract!Init
  OBVIOUS
<1>1. \A r \in RoundId : /\ PhaseV2(r) = "unborn"
                         /\ \A x \in Account : StakeV2(r, x) = 0 /\ PriceV2(r, x) = 0
  BY DEF InitV2, StorageInitV2, PhaseV2, StakeV2, PriceV2, Stored, Committed
<1> QED BY <1>1 DEF Abstract!Init, Abstract!Nothing, phaseV2, stakeV2, priceV2

\* The stake of a committed account in a round that has not ended.
LEMMA LiveStake ==
    ASSUME IInvV2, NEW r \in RoundId, Stored(r),
           roundV2[r].status \in {"Open", "Revealing", "Cleared"},
           NEW x \in Account, Committed(r, x)
    PROVE  StakeV2(r, x) = SubmissionOf(r, x).escrow /\ SubmissionOf(r, x).escrow \in Nat
<1>1. SubmissionSound(r, x) /\ SubmissionOf(r, x) \in SubmissionRecord
  BY DEF IInvV2, RoundInv, TypeOKV2, SubmissionOf, Committed
<1> QED BY <1>1 DEF SubmissionSound, StakeV2, SubmissionRecord

---------------------------------------------------------------------------
(* One lemma per entry point.                                              *)

\* The round-creating entry points announce a round.
LEMMA CreateRefines ==
    ASSUME IInvV2, IInvV2', NEW operator \in Account, NEW q \in RequestV2, NEW policy,
           NEW version, NEW reveal, CreateRoundV2Impl(operator, q, policy, version, reveal),
           roundV2'[NextRoundId] # None
    PROVE  Abstract!Next
<1> DEFINE round == NewRound(operator, q, version)
<1>0. /\ roundCounter < MaxRounds /\ roundCounter \in 0 .. MaxRounds /\ MaxRounds \in Nat
      /\ roundV2' = [roundV2 EXCEPT ![NextRoundId] = round]
      /\ submissionV2' = submissionV2 /\ roundCounter' = NextRoundId
  BY LedgerAssumption DEF CreateRoundV2Impl, IInvV2, TypeOKV2, LedgerTypeOK
<1> PICK id \in RoundId : id = NextRoundId
  BY <1>0 DEF NextRoundId, RoundId
<1>1. ~ Stored(id) /\ \A x \in Account : ~ Committed(id, x)
  <2>1. ~ Stored(id)
    BY <1>0 DEF IInvV2, Counted, NextRoundId
  <2> QED BY <2>1, EmptyIndex DEF IInvV2, RoundInv, IndexExact
<1>2. roundV2'[id] = round /\ \A s \in RoundId \ {id} : roundV2'[s] = roundV2[s]
  BY <1>0 DEF IInvV2, TypeOKV2
<1>3. Stored(id)'
  BY DEF Stored
<1>4. round.status = "Open" /\ round.winner = None
  BY DEF NewRound
<1> HIDE DEF round
<1>5. PhaseV2(id) = "unborn" /\ PhaseV2(id)' = "collecting"
  BY <1>1, <1>2, <1>3, <1>4 DEF PhaseV2
<1>6. ASSUME NEW x \in Account
      PROVE  StakeV2(id, x)' = StakeV2(id, x) /\ PriceV2(id, x)' = PriceV2(id, x)
  BY <1>0, <1>1, <1>2, <1>4, NoneIsNoValue DEF StakeV2, PriceV2, Committed, SubmissionOf
<1>7. Abstract!Announce(id)
  BY <1>0, <1>2, <1>5, <1>6, MapStep, SameRows DEF Abstract!Announce
<1> QED BY <1>7 DEF Abstract!Next

\* commit_v2 sets the stake of one party of a collecting round.
LEMMA CommitRefines ==
    ASSUME IInvV2, IInvV2', NEW r \in RoundId, NEW b \in Account, NEW e \in Envelope,
           NEW escrow \in EscrowV2, CommitV2(r, b, e, escrow), StoredStays
    PROVE  Abstract!Next
<1> DEFINE new == [commitment |-> Sha256(e), escrow |-> escrow, revealed_envelope |-> None,
                   revealed_amount |-> None, valid |-> FALSE, settled |-> FALSE]
           round == [roundV2[r] EXCEPT !.bidders = IndexWith(r, b)]
<1>1. roundV2[r] \in RoundRecord /\ Stored(r) /\ roundV2[r].status = "Open"
  BY DEF IInvV2, TypeOKV2, CommitV2, Stored
<1>2. /\ roundV2' = [roundV2 EXCEPT ![r] = round]
      /\ submissionV2' = [submissionV2 EXCEPT ![r] = [submissionV2[r] EXCEPT ![b] = new]]
  BY DEF CommitV2
<1>3. /\ round.status = "Open" /\ round.winner = roundV2[r].winner
      /\ round.winning_bid = roundV2[r].winning_bid
  BY <1>1 DEF RoundRecord
<1> HIDE DEF round, new
<1>4. /\ roundV2'[r] = round /\ \A s \in RoundId \ {r} : roundV2'[s] = roundV2[s]
      /\ submissionV2'[r][b] = new
      /\ \A x \in Account \ {b} : submissionV2'[r][x] = submissionV2[r][x]
      /\ \A s \in RoundId \ {r} : submissionV2'[s] = submissionV2[s]
  BY <1>2 DEF IInvV2, TypeOKV2
<1>5. Stored(r)'
  BY <1>1 DEF StoredStays
<1>6. PhaseV2(r) = "collecting" /\ PhaseV2(r)' = "collecting"
  BY <1>1, <1>3, <1>4, <1>5 DEF PhaseV2
<1>7. \A x \in Account : PriceV2(r, x)' = PriceV2(r, x)
  BY <1>1, <1>3, <1>4, <1>5 DEF PriceV2
<1>8. \A x \in Account \ {b} : StakeV2(r, x)' = StakeV2(r, x)
  BY <1>4 DEF StakeV2, Committed, SubmissionOf
<1>9. StakeV2(r, b)' \in Nat
  BY DEF StakeV2, Committed, SubmissionOf, IInvV2, TypeOKV2, SubmissionRecord
<1>10. stakeV2' = [stakeV2 EXCEPT ![r] = [x \in Account |-> StakeV2(r, x)']]
  BY <1>4, MapStep
<1>11. [x \in Account |-> StakeV2(r, x)'] = [stakeV2[r] EXCEPT ![b] = StakeV2(r, b)']
  BY <1>8 DEF stakeV2
<1>12. stakeV2'[r][b] = StakeV2(r, b)'
  BY DEF stakeV2
<1>13. stakeV2' = [stakeV2 EXCEPT ![r][b] = stakeV2'[r][b]]
  BY <1>10, <1>11, <1>12
<1>14. phaseV2' = phaseV2 /\ priceV2' = priceV2 /\ phaseV2[r] = "collecting"
  BY <1>4, <1>6, <1>7, MapStep, SameRows
<1>15. Abstract!Stake(r, b)
  BY <1>9, <1>12, <1>13, <1>14 DEF Abstract!Stake
<1> QED BY <1>15 DEF Abstract!Next

\* open_reveal_v2 ends the collecting of stakes.
LEMMA OpenRefines ==
    ASSUME IInvV2, IInvV2', NEW r \in RoundId, NEW caller, OpenRevealV2(r, caller), StoredStays
    PROVE  Abstract!Next
<1> DEFINE round == [roundV2[r] EXCEPT !.status = "Revealing"]
<1>1. roundV2[r] \in RoundRecord /\ Stored(r) /\ roundV2[r].status = "Open"
  BY DEF IInvV2, TypeOKV2, OpenRevealV2, Stored
<1>2. roundV2' = [roundV2 EXCEPT ![r] = round] /\ submissionV2' = submissionV2
      /\ roundCounter' = roundCounter
  BY DEF OpenRevealV2, ledgerVars
<1>3. /\ round.status = "Revealing" /\ round.winner = roundV2[r].winner
      /\ round.winning_bid = roundV2[r].winning_bid
  BY <1>1 DEF RoundRecord
<1> HIDE DEF round
<1>4. roundV2'[r] = round /\ \A s \in RoundId \ {r} : roundV2'[s] = roundV2[s]
  BY <1>2 DEF IInvV2, TypeOKV2
<1>5. Stored(r)'
  BY <1>1 DEF StoredStays
<1>6. PhaseV2(r) = "collecting" /\ PhaseV2(r)' = "opened"
  BY <1>1, <1>3, <1>4, <1>5 DEF PhaseV2
<1>7. \A x \in Account : PriceV2(r, x)' = PriceV2(r, x) /\ StakeV2(r, x)' = StakeV2(r, x)
  BY <1>1, <1>2, <1>3, <1>4, <1>5 DEF PriceV2, StakeV2, Committed, SubmissionOf
<1>8. Abstract!Open(r)
  BY <1>2, <1>4, <1>6, <1>7, MapStep, SameRows DEF Abstract!Open
<1> QED BY <1>8 DEF Abstract!Next

\* reveal_v2 is invisible: it moves neither stakes nor prices.
LEMMA RevealRefines ==
    ASSUME IInvV2, NEW r \in RoundId, NEW b \in Account, NEW e \in Envelope, RevealV2(r, b, e)
    PROVE  UNCHANGED <<phaseV2, stakeV2, priceV2>>
<1> DEFINE new == [submissionV2[r][b] EXCEPT !.revealed_envelope = e,
                                             !.revealed_amount = e.amount, !.valid = TRUE]
<1>1. submissionV2[r][b] \in SubmissionRecord
  BY DEF RevealV2, Committed, IInvV2, TypeOKV2
<1>2. /\ new.settled = submissionV2[r][b].settled /\ new.escrow = submissionV2[r][b].escrow
      /\ new # None /\ submissionV2[r][b] # None
  <2>1. e.amount \in Int \cup {None}
    BY RoundV2Assumption
  <2>2. new \in SubmissionRecord
    BY <1>1, <2>1 DEF SubmissionRecord
  <2> QED BY <1>1, <2>2, NoneIsNoValue DEF SubmissionRecord
<1>3. /\ submissionV2' = [submissionV2 EXCEPT ![r] = [submissionV2[r] EXCEPT ![b] = new]]
      /\ roundV2' = roundV2
  BY DEF RevealV2
<1> HIDE DEF new
<1>4. /\ submissionV2'[r][b] = new
      /\ \A x \in Account \ {b} : submissionV2'[r][x] = submissionV2[r][x]
      /\ \A s \in RoundId \ {r} : submissionV2'[s] = submissionV2[s]
  BY <1>3 DEF IInvV2, TypeOKV2
<1>5. /\ PhaseV2(r)' = PhaseV2(r)
      /\ \A x \in Account : PriceV2(r, x)' = PriceV2(r, x)
  BY <1>3 DEF PhaseV2, PriceV2, Stored
<1>6. \A x \in Account : StakeV2(r, x)' = StakeV2(r, x)
  BY <1>2, <1>4 DEF StakeV2, Committed, SubmissionOf
<1> QED BY <1>3, <1>4, <1>5, <1>6, MapStep, SameRows

\* A step that ends round r releases every stake in it.
LEMMA CloseRefines ==
    ASSUME IInvV2, IInvV2', NEW r \in RoundId, Stored(r), Stored(r)',
           roundV2[r].status \in {"Open", "Revealing", "Cleared"},
           roundV2'[r].status \in {"Settled", "Voided"},
           roundV2'[r].winner = roundV2[r].winner,
           roundV2'[r].winning_bid = roundV2[r].winning_bid,
           \A s \in RoundId \ {r} :
               roundV2'[s] = roundV2[s] /\ submissionV2'[s] = submissionV2[s]
    PROVE  Abstract!Next
<1>1. PhaseV2(r) \in {"collecting", "opened", "decided"} /\ PhaseV2(r)' = "closed"
  BY DEF PhaseV2
<1>2. \A x \in Account : PriceV2(r, x)' = PriceV2(r, x)
  BY DEF PriceV2
<1>3. ASSUME NEW x \in Account PROVE StakeV2(r, x)' = 0
  <2>1. CASE ~ Committed(r, x)'
    BY <2>1 DEF StakeV2
  <2>2. CASE Committed(r, x)'
    <3>1. SubmissionSound(r, x)'
      BY <2>2 DEF IInvV2, RoundInv
    <3>2. roundV2'[r].mode \in {"Auction", "ReceiptOnly"}
      BY DEF IInvV2, TypeOKV2, Stored, RoundRecord, RoundMode
    <3> QED BY <3>1, <3>2 DEF SubmissionSound, StakeV2
  <2> QED BY <2>1, <2>2
<1>4. [x \in Account |-> StakeV2(r, x)'] = Abstract!Nothing
  BY <1>3 DEF Abstract!Nothing
<1>5. Abstract!Close(r)
  BY <1>1, <1>2, <1>4, MapStep, SameRows DEF Abstract!Close
<1> QED BY <1>5 DEF Abstract!Next

\* The record of round r after a step that changes its status only.
LEMMA StatusStep ==
    ASSUME IInvV2, NEW r \in RoundId, Stored(r), NEW status,
           roundV2' = [roundV2 EXCEPT ![r].status = status]
    PROVE  /\ roundV2'[r].status = status
           /\ roundV2'[r].winner = roundV2[r].winner
           /\ roundV2'[r].winning_bid = roundV2[r].winning_bid
           /\ \A s \in RoundId \ {r} : roundV2'[s] = roundV2[s]
<1> DEFINE round == [roundV2[r] EXCEPT !.status = status]
<1>1. roundV2[r] \in RoundRecord
  BY DEF IInvV2, TypeOKV2, Stored
<1>2. round.status = status /\ round.winner = roundV2[r].winner
      /\ round.winning_bid = roundV2[r].winning_bid
  BY <1>1 DEF RoundRecord
<1>3. roundV2' = [roundV2 EXCEPT ![r] = round]
  OBVIOUS
<1> HIDE DEF round
<1> QED BY <1>2, <1>3 DEF IInvV2, TypeOKV2

\* Settling without a winner and voiding release every stake at once.
LEMMA EndRefines ==
    ASSUME IInvV2, IInvV2', NEW r \in RoundId, Stored(r),
           roundV2[r].status \in {"Open", "Revealing", "Cleared"},
           FinalizeReceiptOnly(r) \/ VoidRound(r) \/ SettleV2(r),
           StoredStays
    PROVE  Abstract!Next
<1>1. Stored(r)'
  BY DEF StoredStays
<1>2. /\ submissionV2' = AllSettled(r) \/ submissionV2' = submissionV2
      /\ \/ roundV2' = [roundV2 EXCEPT ![r].status = "Settled"]
         \/ roundV2' = [roundV2 EXCEPT ![r].status = "Voided"]
  BY DEF FinalizeReceiptOnly, VoidRound, RefundAllV2, SettleV2
<1>3. \A s \in RoundId \ {r} : submissionV2'[s] = submissionV2[s]
  BY <1>2, AllSettledFacts
<1> QED BY <1>1, <1>2, <1>3, StatusStep, CloseRefines

\* clear_v2 with a winner fixes the one price, within the winner's stake.
LEMMA SelectRefines ==
    ASSUME IInvV2, IInvV2', NEW r \in RoundId, Stored(r), roundV2[r].status = "Revealing",
           SelectWinner(r), StoredStays
    PROVE  Abstract!Next
<1>1. roundV2[r] \in RoundRecord /\ roundV2[r].mode = "Auction"
  BY DEF IInvV2, TypeOKV2, Stored, SelectWinner
<1>2. PICK i \in WinningBids(roundV2[r].clearing_rule, OffersV2(r)) :
         roundV2' = [roundV2 EXCEPT ![r].status = "Cleared",
                                    ![r].winner = roundV2[r].bidders[i],
                                    ![r].winning_bid = OffersV2(r)[i]]
  BY DEF SelectWinner
<1>3. /\ i \in DOMAIN roundV2[r].bidders
      /\ OffersV2(r)[i] = Bid(r, i).revealed_amount
      /\ Bid(r, i).revealed_amount \in 1 .. Bid(r, i).escrow
  BY <1>1, WinnerUnbeaten, OffersAreRevealed
<1> DEFINE w == roundV2[r].bidders[i]
           amount == Bid(r, i).revealed_amount
           round == [roundV2[r] EXCEPT !.status = "Cleared", !.winner = w, !.winning_bid = amount]
<1>4. w \in Account /\ Committed(r, w)
  BY <1>3, IndexedCommitted
<1>5. /\ round.status = "Cleared" /\ round.winner = w /\ round.winning_bid = amount
      /\ roundV2' = [roundV2 EXCEPT ![r] = round]
  <2>1. roundV2' = [roundV2 EXCEPT ![r] = round]
    BY <1>2, <1>3 DEF IInvV2, TypeOKV2
  <2> QED BY <1>1, <2>1 DEF RoundRecord
<1> HIDE DEF round
<1>6. /\ roundV2'[r] = round
      /\ \A s \in RoundId \ {r} : roundV2'[s] = roundV2[s]
      /\ submissionV2' = submissionV2
  BY <1>5 DEF IInvV2, TypeOKV2, SelectWinner
<1>7. Stored(r)'
  BY DEF StoredStays
<1>8. PhaseV2(r) = "opened" /\ PhaseV2(r)' = "decided"
  BY <1>5, <1>6, <1>7 DEF PhaseV2
<1>9. \A x \in Account : StakeV2(r, x)' = StakeV2(r, x)
  BY <1>6 DEF StakeV2, Committed, SubmissionOf
<1>10. stakeV2' = stakeV2 /\ phaseV2[r] = "opened"
       /\ phaseV2' = [phaseV2 EXCEPT ![r] = "decided"]
       /\ stakeV2[r][w] = StakeV2(r, w)
  BY <1>4, <1>6, <1>8, <1>9, MapStep, SameRows
<1>11. \A x \in Account : PriceV2(r, x) = 0
  BY NoneIsNoValue DEF PriceV2, IInvV2, RoundInv, RoundSound
<1>12. \A x \in Account : PriceV2(r, x)' = IF x = w THEN amount ELSE 0
  BY <1>5, <1>6, <1>7 DEF PriceV2
<1>13. priceV2' = [priceV2 EXCEPT ![r] = [x \in Account |-> PriceV2(r, x)']]
  BY <1>6, MapStep
<1> HIDE DEF w, amount
<1>14. [x \in Account |-> PriceV2(r, x)'] = [priceV2[r] EXCEPT ![w] = amount]
  BY <1>4, <1>11, <1>12 DEF priceV2
<1>15. priceV2'[r][w] = amount
  BY <1>4, <1>12 DEF priceV2
<1>16. priceV2' = [priceV2 EXCEPT ![r][w] = priceV2'[r][w]]
  BY <1>13, <1>14, <1>15
<1>17. amount \in 1 .. stakeV2[r][w]
  BY <1>3, <1>4, <1>10, LiveStake DEF w, amount, Bid
<1>18. Abstract!Decide(r, w)
  BY <1>10, <1>15, <1>16, <1>17 DEF Abstract!Decide
<1> QED BY <1>4, <1>18 DEF Abstract!Next

---------------------------------------------------------------------------
\* Every step of the contract is a step of the abstract round or a stutter.
LEMMA StepRefines ==
    ASSUME IInvV2, IInvV2', [NextV2]_varsV2
    PROVE  [Abstract!Next]_<<phaseV2, stakeV2, priceV2>>
<1>0. StoredStays
  BY NextIInvV2
<1>1. ASSUME NEW op \in Account, NEW q \in RequestV2,
             CreateRoundV2(op, q) \/ CreatePartnerRoundV2(op, q) \/ CreateRoundV3(op, q)
      PROVE  Abstract!Next
  <2>1. roundV2'[NextRoundId] # None
    BY <1>1, CreateAnyStep
  <2> QED BY <1>1, <2>1, CreateRefines DEF CreateRoundV2, CreatePartnerRoundV2, CreateRoundV3
<1>2. ASSUME NEW r \in RoundId, NEW b \in Account, NEW e \in Envelope, NEW x \in EscrowV2,
             CommitV2(r, b, e, x)
      PROVE  Abstract!Next
  BY <1>0, <1>2, CommitRefines
<1>3. ASSUME NEW r \in RoundId, NEW c \in Account, OpenRevealV2(r, c) PROVE Abstract!Next
  BY <1>0, <1>3, OpenRefines
<1>4. ASSUME NEW r \in RoundId, NEW b \in Account, NEW e \in Envelope, RevealV2(r, b, e)
      PROVE  UNCHANGED <<phaseV2, stakeV2, priceV2>>
  BY <1>4, RevealRefines
<1>5. ASSUME NEW r \in RoundId, ClearV2(r) PROVE Abstract!Next
  BY <1>0, <1>5, EndRefines, SelectRefines DEF ClearV2, VoidForNoValidBid
<1>6. ASSUME NEW r \in RoundId, SettleV2(r) PROVE Abstract!Next
  BY <1>0, <1>6, EndRefines DEF SettleV2
<1>7. ASSUME NEW r \in RoundId, VoidV2(r) PROVE Abstract!Next
  BY <1>0, <1>7, EndRefines DEF VoidV2
<1>8. ASSUME UNCHANGED storageV2 PROVE UNCHANGED <<phaseV2, stakeV2, priceV2>>
  BY <1>8 DEF storageV2, phaseV2, stakeV2, priceV2, PhaseV2, StakeV2, PriceV2,
     Stored, Committed, SubmissionOf
<1> QED BY <1>1, <1>2, <1>3, <1>4, <1>5, <1>6, <1>7, <1>8 DEF NextV2, CallV2, varsV2

\* Every behaviour of create, commit, open, reveal, clear, settle and void is
\* one of the abstract sealed round: stakes move only while the round
\* collects, one party pays at most its stake, and a round that ends releases
\* every stake in the same step.
THEOREM ImplementsV2 == SpecV2 => ImplementsSealedRoundV2
<1>1. IInvV2 /\ IInvV2' /\ [NextV2]_varsV2 => [Abstract!Next]_Abstract!vars
  BY StepRefines DEF Abstract!vars
<1> QED BY <1>1, InitRefines, InvariantV2, PTL DEF SpecV2, ImplementsSealedRoundV2, Abstract!Spec

---------------------------------------------------------------------------
(* The opening policy of v3 rounds: create_round_v3 checks it once, and    *)
(* nothing the round goes through afterwards touches what it was checked   *)
(* against.                                                                *)

\* What create_round_v3 accepted still holds of the stored round.
PolicySound(r) ==
    Stored(r) /\ roundV2[r].protocol_version = 3 =>
        /\ revealV3[r] # None
        /\ revealV3[r].policy # None =>
               /\ TimeOfRound(roundV2[r].reveal_round) < revealV3[r].policy
               /\ revealV3[r].policy + MinRevealWindow <= roundV2[r].reveal_deadline

PoliciesSound == \A r \in RoundId : PolicySound(r)

\* A round keeps its version, beacon, deadline and opening policy.
PolicyKept(r) ==
    /\ Stored(r)
    /\ roundV2'[r].protocol_version = roundV2[r].protocol_version
    /\ roundV2'[r].reveal_round = roundV2[r].reveal_round
    /\ roundV2'[r].reveal_deadline = roundV2[r].reveal_deadline
    /\ revealV3[r] # None => revealV3'[r] # None /\ revealV3'[r].policy = revealV3[r].policy

\* What is kept stays sound.
LEMMA KeptPolicySound == ASSUME NEW r, PolicySound(r), PolicyKept(r) PROVE PolicySound(r)'
BY DEF PolicySound, PolicyKept, Stored

\* The record of one round changes in fields the policy does not depend on.
LEMMA EditKeepsPolicy ==
    ASSUME IInvV2, PoliciesSound, NEW r \in RoundId, TermsKept(r), OthersKept(r), revealV3' = revealV3,
           Stored(r)
    PROVE  PoliciesSound'
<1> SUFFICES ASSUME NEW s \in RoundId PROVE PolicySound(s)'
  BY DEF PoliciesSound
<1>1. CASE s = r
  <2>1. PolicyKept(s)
    BY <1>1 DEF PolicyKept, TermsKept
  <2> QED BY <2>1, KeptPolicySound DEF PoliciesSound
<1>2. CASE s # r
  BY <1>2 DEF PoliciesSound, PolicySound, OthersKept, Stored
<1> QED BY <1>1, <1>2

\* create_round_v3 checks the policy against the deadlines of the new round.
LEMMA CreateSetsPolicy ==
    ASSUME IInvV2, PoliciesSound, NEW operator \in Account, NEW q \in RequestV2,
           CreateRoundV2(operator, q) \/ CreatePartnerRoundV2(operator, q) \/ CreateRoundV3(operator, q)
    PROVE  PoliciesSound'
<1>1. PICK id \in RoundId : id = NextRoundId
  <2>1. roundCounter < MaxRounds /\ roundCounter \in 0 .. MaxRounds /\ MaxRounds \in Nat
    BY LedgerAssumption DEF CreateRoundV2, CreatePartnerRoundV2, CreateRoundV3,
       CreateRoundV2Impl, IInvV2, TypeOKV2, LedgerTypeOK
  <2> QED BY <2>1 DEF NextRoundId, RoundId
<1>2. ASSUME NEW s \in RoundId, s # id PROVE PolicySound(s)'
  <2>1. roundV2'[s] = roundV2[s] /\ revealV3'[s] = revealV3[s]
    BY <1>1, <1>2 DEF CreateRoundV2, CreatePartnerRoundV2, CreateRoundV3,
       CreateRoundV2Impl, IInvV2, TypeOKV2
  <2> QED BY <2>1 DEF PoliciesSound, PolicySound, Stored
<1>3. CASE CreateRoundV2(operator, q) \/ CreatePartnerRoundV2(operator, q)
  <2>1. PICK policy : CreateRoundV2Impl(operator, q, policy, 2, None)
    BY <1>3 DEF CreateRoundV2, CreatePartnerRoundV2
  <2>2. roundV2'[id] = NewRound(operator, q, 2)
    BY <1>1, <2>1 DEF CreateRoundV2Impl, IInvV2, TypeOKV2
  <2>3. roundV2'[id].protocol_version = 2
    BY <2>2 DEF NewRound
  <2>4. PolicySound(id)'
    BY <2>3 DEF PolicySound
  <2> QED BY <1>2, <2>4 DEF PoliciesSound
<1>4. CASE CreateRoundV3(operator, q)
  <2> DEFINE reveal == [policy |-> q.fallback_at, opened_at |-> None]
  <2>1. RevealPolicyOK(q) /\ CreateRoundV2Impl(operator, q, q.policy, 3, reveal)
    BY <1>4 DEF CreateRoundV3
  <2>2. roundV2'[id] = NewRound(operator, q, 3) /\ revealV3'[id] = reveal
    BY <1>1, <2>1 DEF CreateRoundV2Impl, IInvV2, TypeOKV2
  <2>3. /\ roundV2'[id].reveal_round = q.reveal_round
        /\ roundV2'[id].reveal_deadline = q.reveal_deadline
    BY <2>2 DEF NewRound
  <2>4. q.fallback_at \in RevealPolicy /\ q.reveal_deadline \in Time
    BY RoundV2Assumption DEF RequestRecord
  <2>5. revealV3'[id] # None /\ revealV3'[id].policy = q.fallback_at
    <3>1. reveal \in RevealRecord
      BY <2>4 DEF RevealRecord
    <3> QED BY <2>2, <3>1, NoneIsNoValue
  <2>6. q.fallback_at # None => /\ TimeOfRound(q.reveal_round) < q.fallback_at
                                /\ q.fallback_at + MinRevealWindow <= q.reveal_deadline
    <3>1. ASSUME q.fallback_at # None
          PROVE  /\ TimeOfRound(q.reveal_round) < q.fallback_at
                 /\ SatSub(q.reveal_deadline, q.fallback_at) >= MinRevealWindow
      BY <2>1, <3>1 DEF RevealPolicyOK
    <3>2. ASSUME q.fallback_at # None PROVE q.fallback_at \in Nat
      BY <2>4, <3>2, U64Assumption DEF RevealPolicy, Time
    <3>3. q.reveal_deadline \in Nat /\ MinRevealWindow \in Nat \ {0}
      BY <2>4, U64Assumption, RoundV2Assumption DEF Time
    <3> QED BY <3>1, <3>2, <3>3 DEF SatSub
  <2>7. TimeOfRound(roundV2'[id].reveal_round) = TimeOfRound(q.reveal_round)
    BY <2>3
  <2>8. PolicySound(id)'
    BY <2>3, <2>5, <2>6, <2>7 DEF PolicySound
  <2> QED BY <1>2, <2>8 DEF PoliciesSound
<1> QED BY <1>3, <1>4

\* open_reveal_v2 records the opening beside the policy.
LEMMA OpenKeepsPolicy ==
    ASSUME IInvV2, PoliciesSound, NEW r \in RoundId, NEW caller, OpenRevealV2(r, caller)
    PROVE  PoliciesSound'
<1>1. TermsKept(r) /\ \A s \in RoundId \ {r} : roundV2'[s] = roundV2[s]
  <2>1. TypeOKV2 /\ Stored(r) /\ roundV2' = [roundV2 EXCEPT ![r].status = "Revealing"]
    BY DEF OpenRevealV2, IInvV2
  <2>2. "Revealing" \in Status
    BY DEF Status
  <2> QED BY <2>1, <2>2, StatusKeepsTerms
<1>2. revealV3[r] # None => revealV3'[r] # None /\ revealV3'[r].policy = revealV3[r].policy
  <2> SUFFICES ASSUME revealV3[r] # None PROVE revealV3'[r] # None /\ revealV3'[r].policy = revealV3[r].policy
    OBVIOUS
  <2>1. revealV3[r] \in RevealRecord /\ now \in Time
    <3>1. revealV3[r] \in RevealRecord /\ now \in 0 .. MaxNow
      BY DEF IInvV2, TypeOKV2, LedgerTypeOK
    <3> QED BY <3>1, LedgerAssumption, U64Assumption DEF Time
  <2>2. [revealV3[r] EXCEPT !.opened_at = now] \in RevealRecord
    BY <2>1 DEF RevealRecord
  <2>3. [revealV3[r] EXCEPT !.opened_at = now].policy = revealV3[r].policy
    BY <2>1 DEF RevealRecord
  <2>4. revealV3'[r] = [revealV3[r] EXCEPT !.opened_at = now] \/ revealV3'[r] = revealV3[r]
    BY DEF OpenRevealV2, IInvV2, TypeOKV2
  <2> QED BY <2>1, <2>2, <2>3, <2>4, NoneIsNoValue
<1>3. \A s \in RoundId \ {r} : revealV3'[s] = revealV3[s]
  BY DEF OpenRevealV2, IInvV2, TypeOKV2
<1>4. PolicyKept(r)
  BY <1>1, <1>2 DEF PolicyKept, TermsKept, OpenRevealV2
<1>5. PolicySound(r)'
  BY <1>4, KeptPolicySound DEF PoliciesSound
<1>6. \A s \in RoundId \ {r} : PolicySound(s)'
  BY <1>1, <1>3 DEF PoliciesSound, PolicySound, Stored
<1> QED BY <1>5, <1>6 DEF PoliciesSound

\* Every other step keeps the terms of every round, and all policies.
LEMMA StepKeepsPolicies ==
    ASSUME IInvV2, PoliciesSound, [NextV2]_varsV2
    PROVE  PoliciesSound'
<1>1. ASSUME NEW op \in Account, NEW q \in RequestV2,
             CreateRoundV2(op, q) \/ CreatePartnerRoundV2(op, q) \/ CreateRoundV3(op, q)
      PROVE  PoliciesSound'
  BY <1>1, CreateSetsPolicy
<1>2. ASSUME NEW r \in RoundId, NEW c \in Account, OpenRevealV2(r, c) PROVE PoliciesSound'
  BY <1>2, OpenKeepsPolicy
<1>3. ASSUME NEW r \in RoundId, NEW b \in Account, NEW e \in Envelope, NEW x \in EscrowV2,
             CommitV2(r, b, e, x)
      PROVE  PoliciesSound'
  BY <1>3, CommitKeepsTerms, EditKeepsPolicy DEF CommitV2
<1>4. ASSUME NEW r \in RoundId, ClearV2(r) /\ SelectWinner(r) PROVE PoliciesSound'
  BY <1>4, SelectKeepsTerms, EditKeepsPolicy DEF SelectWinner, ClearV2
<1>5. ASSUME NEW r \in RoundId,
             \/ ClearV2(r) /\ ~ SelectWinner(r)
             \/ SettleV2(r) \/ VoidV2(r)
      PROVE  PoliciesSound'
  <2>1. PICK status \in {"Settled", "Voided"} : roundV2' = [roundV2 EXCEPT ![r].status = status]
    BY <1>5 DEF ClearV2, SettleV2, VoidV2, FinalizeReceiptOnly, VoidForNoValidBid, VoidRound
  <2>2. Stored(r) /\ TypeOKV2 /\ status \in Status
    BY <1>5 DEF ClearV2, SettleV2, VoidV2, IInvV2, Status
  <2>3. TermsKept(r) /\ \A s \in RoundId \ {r} : roundV2'[s] = roundV2[s]
    BY <2>1, <2>2, StatusKeepsTerms
  <2>4. revealV3' = revealV3
    BY <1>5 DEF ClearV2, SettleV2, VoidV2, FinalizeReceiptOnly, VoidForNoValidBid, VoidRound
  <2>5. ASSUME NEW s \in RoundId PROVE PolicySound(s)'
    <3>1. CASE s = r
      <4>1. PolicyKept(s)
        BY <2>3, <2>4, <3>1 DEF PolicyKept, TermsKept
      <4> QED BY <4>1, KeptPolicySound DEF PoliciesSound
    <3>2. CASE s # r
      BY <2>3, <2>4, <3>2 DEF PoliciesSound, PolicySound, Stored
    <3> QED BY <3>1, <3>2
  <2> QED BY <2>5 DEF PoliciesSound
<1>6. ASSUME UNCHANGED <<roundV2, revealV3>> PROVE PoliciesSound'
  BY <1>6 DEF PoliciesSound, PolicySound, Stored
<1>7. ASSUME NEW r \in RoundId, NEW b \in Account, NEW e \in Envelope, RevealV2(r, b, e)
      PROVE  PoliciesSound'
  BY <1>6, <1>7 DEF RevealV2
<1>8. CASE UNCHANGED varsV2 \/ (LedgerNext /\ UNCHANGED storageV2)
  BY <1>6, <1>8 DEF varsV2, storageV2
<1> QED BY <1>1, <1>2, <1>3, <1>4, <1>5, <1>7, <1>8 DEF NextV2, CallV2

\* At first there is no v3 round.
LEMMA InitPoliciesSound == InitV2 => PoliciesSound
BY DEF InitV2, StorageInitV2, PoliciesSound, PolicySound, Stored

\* create_round_v3 and open_reveal_v2: every v3 round has its opening policy,
\* and the operator of an owner-triggered round can delay the opening but not
\* refuse it to others.  The fallback comes after the beacon is due, at least
\* MIN_REVEAL_WINDOW before the reveal deadline, and from then on whoever calls
\* passes the checks open_reveal_v2 makes for v3.
THEOREM OwnerOnlyDelays ==
    SpecV2 => [](\A r \in RoundId :
        Stored(r) /\ roundV2[r].protocol_version = 3 =>
            /\ revealV3[r] # None
            /\ revealV3[r].policy # None =>
                   /\ revealV3[r].policy + MinRevealWindow <= roundV2[r].reveal_deadline
                   /\ now \in revealV3[r].policy .. roundV2[r].reveal_deadline =>
                          \A c \in Account : OpeningAllowedV3(r, c))
<1>1. IInvV2 /\ PoliciesSound =>
          \A r \in RoundId :
              Stored(r) /\ roundV2[r].protocol_version = 3 =>
                  /\ revealV3[r] # None
                  /\ revealV3[r].policy # None =>
                         /\ revealV3[r].policy + MinRevealWindow <= roundV2[r].reveal_deadline
                         /\ now \in revealV3[r].policy .. roundV2[r].reveal_deadline =>
                                \A c \in Account : OpeningAllowedV3(r, c)
  <2> SUFFICES ASSUME IInvV2, NEW r \in RoundId, PolicySound(r),
                      Stored(r), roundV2[r].protocol_version = 3
               PROVE  /\ revealV3[r] # None
                      /\ revealV3[r].policy # None =>
                             /\ revealV3[r].policy + MinRevealWindow <= roundV2[r].reveal_deadline
                             /\ now \in revealV3[r].policy .. roundV2[r].reveal_deadline =>
                                    \A c \in Account : OpeningAllowedV3(r, c)
    BY DEF PoliciesSound
  <2>1. revealV3[r] \in RevealRecord /\ roundV2[r] \in RoundRecord
    BY DEF IInvV2, TypeOKV2, PolicySound, Stored
  <2>2. TimeOfRound(roundV2[r].reveal_round) \in Int
    BY <2>1, TimeOfRoundInTime, U64Assumption DEF RoundRecord, Time
  <2>3. revealV3[r].policy # None => revealV3[r].policy \in Int
    BY <2>1, U64Assumption DEF RevealRecord, RevealPolicy, Time
  <2>4. roundV2[r].reveal_deadline \in Int
    BY <2>1, U64Assumption DEF RoundRecord, Time
  <2>5. ASSUME revealV3[r].policy # None,
               now \in revealV3[r].policy .. roundV2[r].reveal_deadline
        PROVE  /\ TimeOfRound(roundV2[r].reveal_round) <= now
               /\ now <= roundV2[r].reveal_deadline /\ ~ (now < revealV3[r].policy)
    BY <2>2, <2>3, <2>4, <2>5 DEF PolicySound
  <2> QED BY <2>5 DEF PolicySound, OpeningAllowedV3
<1>2. InitV2 => IInvV2 /\ PoliciesSound
  BY InitIInvV2, InitPoliciesSound
<1>3. IInvV2 /\ PoliciesSound /\ [NextV2]_varsV2 => (IInvV2 /\ PoliciesSound)'
  BY NextIInvV2, StepKeepsPolicies
<1> QED BY <1>1, <1>2, <1>3, PTL DEF SpecV2

---------------------------------------------------------------------------
(* The client's checks of a creation request.                              *)

\* The templates make requests of requests.
LEMMA TemplatedAreRequests == Templated \subseteq RequestRecord
<1>1. ASSUME NEW q \in RequestV2, q.policy # None
      PROVE  AssetAuctionRound(q) \in RequestRecord /\ SealedProposalRound(q) \in RequestRecord
  <2>1. q \in RequestRecord /\ q.policy \in PolicyRecord
    BY <1>1, RoundV2Assumption DEF RequestRecord
  <2>2. [q.policy EXCEPT !.fixed_escrow = 0] \in PolicyRecord
    BY <2>1 DEF PolicyRecord
  <2>3. AssetAuctionRound(q) \in RequestRecord
    BY <2>1 DEF AssetAuctionRound, RequestRecord, RoundMode, ClearingRule
  <2>4. SealedProposalRound(q) \in RequestRecord
    <3>1. PICK policy \in PolicyRecord : policy = [q.policy EXCEPT !.fixed_escrow = 0]
      BY <2>2
    <3>2. SealedProposalRound(q) =
            [q EXCEPT !.mode = "ReceiptOnly", !.clearing_rule = "LowestBid", !.payment_asset = None,
                      !.lot_asset = None, !.lot_amount = 0, !.policy = policy]
      BY <3>1 DEF SealedProposalRound
    <3>3. SealedProposalRound(q) =
            [mode |-> "ReceiptOnly", payment_asset |-> None, lot_asset |-> None, lot_amount |-> 0,
             reveal_round |-> q.reveal_round, clearing_rule |-> "LowestBid",
             commit_deadline |-> q.commit_deadline, reveal_deadline |-> q.reveal_deadline,
             max_participants |-> q.max_participants, policy |-> policy,
             fallback_at |-> q.fallback_at]
      BY <2>1, <3>2 DEF RequestRecord
    <3> QED BY <2>1, <3>3 DEF RequestRecord, RoundMode, ClearingRule
  <2> QED BY <2>3, <2>4
<1> QED BY <1>1 DEF Templated

\* What create_round_v2 and its variants check implies what the client checks.
LEMMA ContractIsStricter ==
    ASSUME NEW q \in RequestRecord, NEW operator \in Account
    PROVE  /\ CreateRoundV2(operator, q) => V2RoundArgs(q)
           /\ CreatePartnerRoundV2(operator, q) => PartnerV2RoundArgs(q)
           /\ CreateRoundV3(operator, q) => V3RoundArgs(q)
<1>1. ASSUME NEW policy, NEW version, NEW reveal,
             CreateRoundV2Impl(operator, q, policy, version, reveal)
      PROVE  /\ V2RoundArgs(q) /\ PolicyOK(q, policy) /\ DeadlinesOK(q)
  BY <1>1 DEF CreateRoundV2Impl, SettlementOK, V2RoundArgs
<1>2. ASSUME q.policy # None, V2RoundArgs(q), PolicyOK(q, q.policy) PROVE PartnerV2RoundArgs(q)
  BY <1>2 DEF PolicyOK, PartnerV2RoundArgs
<1>3. ASSUME PartnerV2RoundArgs(q), RevealPolicyOK(q), DeadlinesOK(q) PROVE V3RoundArgs(q)
  <2> SUFFICES ASSUME q.fallback_at # None
               PROVE  /\ q.fallback_at \in 1 .. U64Max
                      /\ q.reveal_deadline - q.fallback_at >= MinRevealWindow
    BY <1>3 DEF V3RoundArgs
  <2>1. q.fallback_at \in Time /\ q.reveal_deadline \in Time
    BY DEF RequestRecord, RevealPolicy
  <2>2. TimeOfRound(q.reveal_round) \in Time
    BY TimeOfRoundInTime DEF RequestRecord
  <2>3. TimeOfRound(q.reveal_round) < q.fallback_at
        /\ SatSub(q.reveal_deadline, q.fallback_at) >= MinRevealWindow
    BY <1>3 DEF RevealPolicyOK
  <2>4. MinRevealWindow \in Nat /\ MinRevealWindow > 0 /\ U64Max \in Nat
    BY RoundV2Assumption, U64Assumption
  <2> QED BY <2>1, <2>2, <2>3, <2>4 DEF SatSub, Time
<1>4. CreateRoundV2(operator, q) => V2RoundArgs(q)
  BY <1>1 DEF CreateRoundV2
<1>5. CreatePartnerRoundV2(operator, q) => PartnerV2RoundArgs(q)
  BY <1>1, <1>2 DEF CreatePartnerRoundV2
<1>6. CreateRoundV3(operator, q) => V3RoundArgs(q)
  BY <1>1, <1>2, <1>3 DEF CreateRoundV3
<1> QED BY <1>4, <1>5, <1>6

\* v2RoundArgs, partnerV2RoundArgs and v3RoundArgs are never stricter than the
\* contract: whenever it would accept a request, the caller's own or one a
\* template made, at whatever time and whatever the operator owns, the client
\* has not thrown it away - what ClientTurnsNothingAway says, with the step
\* itself for its ENABLED.
THEOREM ClientNeverStricter ==
    \A q \in RequestV2 \cup Templated, operator \in Account :
        /\ CreateRoundV2(operator, q) => V2RoundArgs(q)
        /\ CreatePartnerRoundV2(operator, q) => PartnerV2RoundArgs(q)
        /\ CreateRoundV3(operator, q) => V3RoundArgs(q)
<1> SUFFICES ASSUME NEW q \in RequestV2 \cup Templated, NEW operator \in Account
             PROVE  /\ CreateRoundV2(operator, q) => V2RoundArgs(q)
                    /\ CreatePartnerRoundV2(operator, q) => PartnerV2RoundArgs(q)
                    /\ CreateRoundV3(operator, q) => V3RoundArgs(q)
  OBVIOUS
<1>1. q \in RequestRecord
  BY TemplatedAreRequests, RoundV2Assumption
<1> QED BY <1>1, ContractIsStricter
=============================================================================
