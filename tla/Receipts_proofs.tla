--------------------------- MODULE Receipts_proofs ---------------------------
(***************************************************************************)
(* The receipt of a v2 or v3 round verifies, for every set of accounts,    *)
(* tokens, envelopes and requests: what verifyReceiptV2 recomputes offline *)
(* is what the contract checked and decided.  And the two exports verify   *)
(* as sequences of reads of the contract that anybody goes on calling:     *)
(* exportReceipt always, exportReceiptV2 if the round stayed where it was. *)
(***************************************************************************)
EXTENDS Deployment, RoundContract_proofs

---------------------------------------------------------------------------
(* What the verifier looks at and the contract keeps true.                 *)

PolicyFitsRound(policy, round) ==
    /\ IsInjective(policy.eligible_participants)
    /\ Len(policy.eligible_participants) <= round.max_participants
    /\ IF round.mode = "Auction" THEN policy.fixed_escrow > 0 ELSE policy.fixed_escrow = 0

\* A v3 round that is its owner's to open first falls back to anybody while
\* there is time to reveal.
FallbackSound(reveal, round) ==
    reveal.policy # None =>
        /\ TimeOfRound(round.reveal_round) < reveal.policy
        /\ reveal.policy + MinRevealWindow <= round.reveal_deadline

\* What creation checked is still true of the stored terms.
TermsSound(r) ==
    LET round == roundV2[r]
    IN  /\ round.max_participants \in 1 .. MaxV2Participants
        /\ TimeOfRound(round.reveal_round) < round.reveal_deadline
        /\ IF round.mode = "Auction"
           THEN round.payment_asset # None /\ round.lot_asset # None /\ round.lot_amount > 0
           ELSE round.payment_asset = None /\ round.lot_asset = None /\ round.lot_amount = 0
        /\ policyV2[r] # None => PolicyFitsRound(policyV2[r], round)
        /\ round.protocol_version = 3 =>
               /\ policyV2[r] # None /\ revealV3[r] # None
               /\ FallbackSound(revealV3[r], round)

\* A v3 round records when it was opened, and that was in its reveal window;
\* a receipt-only round never has a winner.
ProgressSound(r) ==
    LET round == roundV2[r]
        opened == revealV3[r].opened_at
    IN  /\ round.protocol_version = 3 =>
               /\ round.status = "Open" => opened = None
               /\ round.status \in {"Revealing", "Cleared", "Settled"} =>
                      /\ opened # None
                      /\ opened \in TimeOfRound(round.reveal_round) .. round.reveal_deadline
        /\ round.mode = "ReceiptOnly" => round.winner = None /\ round.winning_bid = 0

\* A submission was admitted by the policy, and what was revealed opens its
\* commitment.
SubmissionEvident(r, b) ==
    LET s == submissionV2[r][b]
    IN  /\ policyV2[r] # None =>
               /\ policyV2[r].eligible_participants = <<>>
                  \/ b \in Range(policyV2[r].eligible_participants)
               /\ roundV2[r].mode = "Auction" => s.escrow = policyV2[r].fixed_escrow
        /\ s.revealed_envelope # None =>
               /\ Sha256(s.revealed_envelope) = s.commitment
               /\ s.revealed_envelope.decodes
               /\ s.revealed_envelope.amount = s.revealed_amount
        /\ s.valid => s.revealed_envelope # None
        /\ roundV2[r].status = "Settled" => s.settled

Evident(r) ==
    Stored(r) => /\ TermsSound(r) /\ ProgressSound(r)
                 /\ \A b \in Account : Committed(r, b) => SubmissionEvident(r, b)

\* What the verifier relies on, of every round.
EvidenceKept == \A r \in RoundId : Evident(r)

\* What is evident of round r does not depend on the other rounds.
LEMMA EvidentFrame ==
    ASSUME NEW s \in RoundId, Evident(s),
           roundV2'[s] = roundV2[s], submissionV2'[s] = submissionV2[s],
           policyV2'[s] = policyV2[s], revealV3'[s] = revealV3[s]
    PROVE  Evident(s)'
<1> SUFFICES ASSUME Stored(s)'
             PROVE  /\ TermsSound(s)' /\ ProgressSound(s)'
                    /\ \A b \in Account : Committed(s, b)' => SubmissionEvident(s, b)'
  BY DEF Evident
<1>1. Stored(s)
  BY DEF Stored
<1>2. TermsSound(s)'
  BY <1>1 DEF Evident, TermsSound, PolicyFitsRound, FallbackSound
<1>3. ProgressSound(s)'
  BY <1>1 DEF Evident, ProgressSound
<1>4. \A b \in Account : Committed(s, b)' => SubmissionEvident(s, b)'
  BY <1>1 DEF Evident, SubmissionEvident, Committed
<1> QED BY <1>2, <1>3, <1>4

\* A step of one round.
LEMMA OneEvident ==
    ASSUME EvidenceKept, NEW r \in RoundId, OthersKept(r), Evident(r)',
           \A s \in RoundId \ {r} : policyV2'[s] = policyV2[s] /\ revealV3'[s] = revealV3[s]
    PROVE  EvidenceKept'
<1> SUFFICES ASSUME NEW s \in RoundId PROVE Evident(s)'
  BY DEF EvidenceKept
<1>1. CASE s = r
  BY <1>1
<1>2. CASE s # r
  BY <1>2, EvidentFrame DEF EvidenceKept, OthersKept
<1> QED BY <1>1, <1>2

\* The terms of a round outlive every step that keeps its record's terms, its
\* policy and its opening policy.
LEMMA TermsStay ==
    ASSUME NEW r \in RoundId, TermsSound(r), TermsKept(r), policyV2'[r] = policyV2[r],
           revealV3[r] # None => revealV3'[r] # None /\ revealV3'[r].policy = revealV3[r].policy
    PROVE  TermsSound(r)'
<1>1. policyV2[r] # None => PolicyFitsRound(policyV2[r], roundV2'[r])
  BY DEF TermsSound, PolicyFitsRound, TermsKept
<1>2. revealV3[r] # None /\ FallbackSound(revealV3[r], roundV2[r]) =>
        FallbackSound(revealV3'[r], roundV2'[r])
  BY DEF FallbackSound, TermsKept
<1> QED BY <1>1, <1>2 DEF TermsSound, TermsKept

\* The creation entry points check what the verifier will.
LEMMA CreateEvident ==
    ASSUME IInvV2, EvidenceKept, NEW operator \in Account, NEW q \in RequestV2,
           NEW policy \in PolicyRecord \cup {None}, NEW version \in {2, 3},
           NEW reveal, CreateRoundV2Impl(operator, q, policy, version, reveal),
           version = 3 => /\ policy # None /\ RevealPolicyOK(q)
                          /\ reveal = [policy |-> q.fallback_at, opened_at |-> None]
    PROVE  EvidenceKept'
<1> DEFINE round == NewRound(operator, q, version)
<1>1. /\ roundCounter < MaxRounds /\ roundCounter \in 0 .. MaxRounds /\ MaxRounds \in Nat
  BY LedgerAssumption DEF CreateRoundV2Impl, IInvV2, TypeOKV2, LedgerTypeOK
<1> PICK id \in RoundId : id = NextRoundId
  BY <1>1 DEF NextRoundId, RoundId
<1>2. ~ Stored(id) /\ \A x \in Account : ~ Committed(id, x)
  <2>1. ~ Stored(id)
    BY <1>1 DEF IInvV2, Counted, NextRoundId
  <2> QED BY <2>1, EmptyIndex DEF IInvV2, RoundInv, IndexExact
<1>3. /\ roundV2' = [roundV2 EXCEPT ![id] = round] /\ submissionV2' = submissionV2
      /\ policyV2' = [policyV2 EXCEPT ![id] = policy]
      /\ revealV3' = [revealV3 EXCEPT ![id] = reveal]
  BY DEF CreateRoundV2Impl
<1>4. /\ round.status = "Open" /\ round.lot_asset = q.lot_asset
      /\ round.lot_amount = q.lot_amount /\ round.payment_asset = q.payment_asset
      /\ round.mode = q.mode /\ round.protocol_version = version
      /\ round.max_participants = q.max_participants
      /\ round.reveal_round = q.reveal_round /\ round.reveal_deadline = q.reveal_deadline
      /\ round.winner = None /\ round.winning_bid = 0
  BY DEF NewRound
<1> HIDE DEF round
<1>5. /\ roundV2'[id] = round /\ policyV2'[id] = policy /\ revealV3'[id] = reveal
      /\ OthersKept(id)
      /\ \A s \in RoundId \ {id} : policyV2'[s] = policyV2[s] /\ revealV3'[s] = revealV3[s]
  BY <1>3 DEF IInvV2, TypeOKV2, OthersKept
<1>6. q \in RequestRecord
  BY RoundV2Assumption
<1>7. version = 3 => reveal # None /\ reveal.opened_at = None /\ FallbackSound(reveal, round)
  <2> SUFFICES ASSUME version = 3
               PROVE  reveal # None /\ reveal.opened_at = None /\ FallbackSound(reveal, round)
    OBVIOUS
  <2>1. reveal \in RevealRecord /\ reveal.policy = q.fallback_at /\ reveal.opened_at = None
    BY <1>6 DEF RequestRecord, RevealRecord
  <2>2. q.fallback_at # None => q.fallback_at + MinRevealWindow <= q.reveal_deadline
    <3>1. q.fallback_at # None => q.fallback_at \in Int /\ q.reveal_deadline \in Int
      BY <1>6 DEF RequestRecord, RevealPolicy, Time
    <3>2. q.fallback_at # None => SatSub(q.reveal_deadline, q.fallback_at) >= MinRevealWindow
      BY DEF RevealPolicyOK
    <3>3. MinRevealWindow \in Nat /\ MinRevealWindow > 0
      BY RoundV2Assumption
    <3> QED BY <3>1, <3>2, <3>3 DEF SatSub
  <2> QED BY <1>4, <2>1, <2>2, NoneIsNoValue DEF FallbackSound, RevealPolicyOK
<1>8. TermsSound(id)'
  <2>1. policy # None => PolicyFitsRound(policy, round)
    BY <1>4 DEF CreateRoundV2Impl, PolicyOK, PolicyFitsRound
  <2>2. /\ q.max_participants \in 1 .. MaxV2Participants
        /\ TimeOfRound(q.reveal_round) < q.reveal_deadline
        /\ SettlementOK(q)
    BY DEF CreateRoundV2Impl, DeadlinesOK
  <2> QED BY <1>4, <1>5, <1>7, <2>1, <2>2 DEF TermsSound, SettlementOK
<1>9. ProgressSound(id)'
  BY <1>4, <1>5, <1>7 DEF ProgressSound
<1>10. \A b \in Account : ~ Committed(id, b)'
  BY <1>2, <1>3 DEF Committed
<1> QED BY <1>5, <1>8, <1>9, <1>10, OneEvident DEF Evident

\* commit_v2 admits a submission under the policy; it reveals nothing yet.
LEMMA CommitEvident ==
    ASSUME IInvV2, EvidenceKept, NEW r \in RoundId, NEW b \in Account, NEW e \in Envelope,
           NEW escrow \in EscrowV2, CommitV2(r, b, e, escrow), TermsKept(r), OthersKept(r)
    PROVE  EvidenceKept'
<1> DEFINE new == [commitment |-> Sha256(e), escrow |-> escrow, revealed_envelope |-> None,
                   revealed_amount |-> None, valid |-> FALSE, settled |-> FALSE]
           round == [roundV2[r] EXCEPT !.bidders = IndexWith(r, b)]
<1>1. Stored(r) /\ roundV2[r].status = "Open" /\ roundV2[r] \in RoundRecord
  BY DEF CommitV2, IInvV2, TypeOKV2, Stored
<1>2. /\ submissionV2' = [submissionV2 EXCEPT ![r] = [submissionV2[r] EXCEPT ![b] = new]]
      /\ roundV2' = [roundV2 EXCEPT ![r] = round]
      /\ policyV2' = policyV2 /\ revealV3' = revealV3
  BY DEF CommitV2
<1>3. /\ round.status = "Open" /\ round.winner = roundV2[r].winner
      /\ round.winning_bid = roundV2[r].winning_bid
  BY <1>1 DEF RoundRecord
<1>4. new.escrow = escrow /\ new.revealed_envelope = None /\ ~ new.valid
  OBVIOUS
<1> HIDE DEF new, round
<1>5. /\ roundV2'[r] = round /\ submissionV2'[r][b] = new
      /\ \A x \in Account \ {b} : submissionV2'[r][x] = submissionV2[r][x]
  BY <1>2 DEF IInvV2, TypeOKV2
<1>6. TermsSound(r)'
  BY <1>1, <1>2, TermsStay DEF EvidenceKept, Evident
<1>7. ProgressSound(r)'
  BY <1>1, <1>2, <1>3, <1>5 DEF EvidenceKept, Evident, ProgressSound, TermsKept
<1>8. SubmissionEvident(r, b)'
  <2>1. policyV2[r] # None =>
          /\ policyV2[r].eligible_participants = <<>>
             \/ b \in Range(policyV2[r].eligible_participants)
          /\ roundV2[r].mode = "Auction" => escrow = policyV2[r].fixed_escrow
    BY DEF CommitV2, PolicyAdmits
  <2> QED BY <1>2, <1>3, <1>4, <1>5, <2>1 DEF SubmissionEvident, TermsKept
<1>9. ASSUME NEW x \in Account \ {b}, Committed(r, x)' PROVE SubmissionEvident(r, x)'
  <2>1. SubmissionEvident(r, x)
    BY <1>1, <1>5, <1>9 DEF EvidenceKept, Evident, Committed
  <2> QED BY <1>2, <1>3, <1>5, <2>1 DEF SubmissionEvident, TermsKept
<1>10. Evident(r)'
  BY <1>6, <1>7, <1>8, <1>9 DEF Evident
<1> QED BY <1>2, <1>10, OneEvident

\* open_reveal_v2 records the opening of a v3 round, in its reveal window.
LEMMA OpenEvident ==
    ASSUME IInvV2, EvidenceKept, NEW r \in RoundId, NEW caller \in Account,
           OpenRevealV2(r, caller)
    PROVE  EvidenceKept'
<1>1. /\ TermsKept(r) /\ roundV2'[r].status = "Revealing"
      /\ roundV2'[r].winner = roundV2[r].winner
      /\ roundV2'[r].winning_bid = roundV2[r].winning_bid /\ OthersKept(r)
  BY StatusKeepsTerms DEF OpenRevealV2, IInvV2, Status, OthersKept
<1>2. Evident(r) /\ Stored(r) /\ submissionV2' = submissionV2 /\ policyV2' = policyV2
  BY DEF OpenRevealV2, EvidenceKept
<1>3. ASSUME roundV2[r].protocol_version = 3
      PROVE  /\ revealV3'[r].policy = revealV3[r].policy
             /\ revealV3'[r] # None /\ revealV3'[r].opened_at # None
             /\ revealV3'[r].opened_at \in
                    TimeOfRound(roundV2[r].reveal_round) .. roundV2[r].reveal_deadline
  <2> DEFINE reveal == [revealV3[r] EXCEPT !.opened_at = now]
  <2>1. /\ revealV3[r] \in RevealRecord /\ now \in Time /\ now \in Int
        /\ roundV2[r] \in RoundRecord
    BY <1>2, <1>3, LedgerAssumption, U64Assumption
       DEF OpenRevealV2, OpeningAllowedV3, IInvV2, TypeOKV2, LedgerTypeOK, Time, Stored
  <2>2. reveal \in RevealRecord /\ reveal.opened_at = now /\ reveal.policy = revealV3[r].policy
    BY <2>1 DEF RevealRecord
  <2>3. revealV3' = [revealV3 EXCEPT ![r] = reveal]
    BY <1>3 DEF OpenRevealV2
  <2> HIDE DEF reveal
  <2>4. revealV3'[r] = reveal
    BY <2>3 DEF IInvV2, TypeOKV2
  <2>5. TimeOfRound(roundV2[r].reveal_round) <= now /\ now <= roundV2[r].reveal_deadline
    BY <1>3 DEF OpenRevealV2, OpeningAllowedV3
  <2>6. TimeOfRound(roundV2[r].reveal_round) \in Int /\ roundV2[r].reveal_deadline \in Int
    <3>1. roundV2[r].reveal_round \in Nat /\ roundV2[r].reveal_deadline \in Time
      BY <2>1, U64Assumption DEF RoundRecord, Time
    <3>2. TimeOfRound(roundV2[r].reveal_round) \in Time
      BY <3>1, TimeOfRoundInTime
    <3> QED BY <3>1, <3>2, U64Assumption DEF Time
  <2>7. now \in TimeOfRound(roundV2[r].reveal_round) .. roundV2[r].reveal_deadline
    BY <2>1, <2>5, <2>6
  <2>8. reveal # None /\ now # None
    BY <2>1, <2>2, NoneIsNoValue
  <2> QED BY <2>2, <2>4, <2>7, <2>8
<1>4. roundV2[r].protocol_version # 3 => revealV3' = revealV3
  BY DEF OpenRevealV2
<1>5. \A s \in RoundId \ {r} : revealV3'[s] = revealV3[s]
  BY <1>4 DEF OpenRevealV2, IInvV2, TypeOKV2
<1>6. TermsSound(r)'
  <2>1. revealV3[r] # None => revealV3'[r] # None /\ revealV3'[r].policy = revealV3[r].policy
    BY <1>3, <1>4
  <2> QED BY <1>1, <1>2, <2>1, TermsStay DEF Evident
<1>7. ProgressSound(r)'
  BY <1>1, <1>2, <1>3 DEF Evident, ProgressSound, TermsKept
<1>8. \A b \in Account : Committed(r, b)' => SubmissionEvident(r, b)'
  BY <1>1, <1>2 DEF Evident, SubmissionEvident, Committed, TermsKept
<1> QED BY <1>1, <1>2, <1>5, <1>6, <1>7, <1>8, OneEvident DEF Evident

\* reveal_v2 accepts only the preimage of the commitment.
LEMMA RevealEvident ==
    ASSUME IInvV2, EvidenceKept, NEW r \in RoundId, NEW b \in Account, NEW e \in Envelope,
           RevealV2(r, b, e)
    PROVE  EvidenceKept'
<1> DEFINE new == [submissionV2[r][b] EXCEPT !.revealed_envelope = e,
                                             !.revealed_amount = e.amount, !.valid = TRUE]
<1>1. /\ submissionV2[r][b] \in SubmissionRecord /\ e.amount \in Int \cup {None}
      /\ Stored(r) /\ roundV2[r].status = "Revealing" /\ e.decodes /\ Committed(r, b)
      /\ submissionV2[r][b].commitment = Sha256(e)
  BY RoundV2Assumption DEF RevealV2, Committed, SubmissionOf, IInvV2, TypeOKV2
<1>2. /\ submissionV2' = [submissionV2 EXCEPT ![r] = [submissionV2[r] EXCEPT ![b] = new]]
      /\ roundV2' = roundV2 /\ policyV2' = policyV2 /\ revealV3' = revealV3
  BY DEF RevealV2
<1>3. /\ new.escrow = submissionV2[r][b].escrow /\ new.revealed_envelope = e
      /\ new.revealed_amount = e.amount /\ new.commitment = submissionV2[r][b].commitment
  BY <1>1 DEF SubmissionRecord
<1> HIDE DEF new
<1>4. /\ OthersKept(r) /\ submissionV2'[r][b] = new
      /\ \A x \in Account \ {b} : submissionV2'[r][x] = submissionV2[r][x]
  BY <1>2 DEF OthersKept, IInvV2, TypeOKV2
<1>5. TermsSound(r) /\ ProgressSound(r) /\ SubmissionEvident(r, b)
  BY <1>1 DEF EvidenceKept, Evident
<1>6. TermsSound(r)' /\ ProgressSound(r)'
  BY <1>2, <1>5 DEF TermsSound, PolicyFitsRound, FallbackSound, ProgressSound
<1>7. SubmissionEvident(r, b)'
  <2>1. e # None
    BY NoneIsNoValue
  <2> QED BY <1>1, <1>2, <1>3, <1>4, <1>5, <2>1 DEF SubmissionEvident
<1>8. ASSUME NEW x \in Account \ {b}, Committed(r, x)' PROVE SubmissionEvident(r, x)'
  <2>1. SubmissionEvident(r, x)
    BY <1>1, <1>4, <1>8 DEF EvidenceKept, Evident, Committed
  <2> QED BY <1>2, <1>4, <2>1 DEF SubmissionEvident
<1> QED BY <1>2, <1>4, <1>6, <1>7, <1>8, OneEvident DEF Evident

\* Ending a round sets settled flags, all of them if the round settles.
LEMMA EndEvident ==
    ASSUME IInvV2, EvidenceKept, NEW r \in RoundId, Stored(r), NEW status \in {"Settled", "Voided"},
           roundV2' = [roundV2 EXCEPT ![r].status = status],
           submissionV2' = AllSettled(r)
               \/ (status = "Voided" /\ submissionV2' = submissionV2),
           status = "Settled" => roundV2[r].status \in {"Revealing", "Cleared"},
           UNCHANGED <<policyV2, revealV3>>
    PROVE  EvidenceKept'
<1>1. /\ TermsKept(r) /\ roundV2'[r].status = status
      /\ roundV2'[r].winner = roundV2[r].winner
      /\ roundV2'[r].winning_bid = roundV2[r].winning_bid
      /\ \A s \in RoundId \ {r} : roundV2'[s] = roundV2[s]
  BY StatusKeepsTerms DEF IInvV2, Status
<1>2. OthersKept(r)
  BY <1>1, EndKeepsOthers DEF OthersKept
<1>3. TermsSound(r) /\ ProgressSound(r) /\ policyV2' = policyV2 /\ revealV3' = revealV3
  BY DEF EvidenceKept, Evident
<1>4. TermsSound(r)'
  BY <1>1, <1>3, TermsStay
<1>5. ProgressSound(r)'
  BY <1>1, <1>3 DEF ProgressSound, TermsKept
<1>6. ASSUME NEW b \in Account, Committed(r, b)' PROVE SubmissionEvident(r, b)'
  <2>1. CASE submissionV2' = AllSettled(r)
    <3>1. /\ Committed(r, b)
          /\ submissionV2'[r][b].settled
          /\ submissionV2'[r][b].commitment = submissionV2[r][b].commitment
          /\ submissionV2'[r][b].valid = submissionV2[r][b].valid
          /\ submissionV2'[r][b].revealed_envelope = submissionV2[r][b].revealed_envelope
          /\ submissionV2'[r][b].revealed_amount = submissionV2[r][b].revealed_amount
          /\ submissionV2'[r][b].escrow = submissionV2[r][b].escrow
      BY <1>6, <2>1, AllSettledFacts DEF Committed
    <3>2. SubmissionEvident(r, b)
      BY <3>1 DEF EvidenceKept, Evident
    <3> QED BY <1>1, <1>3, <3>1, <3>2 DEF SubmissionEvident, TermsKept
  <2>2. CASE status = "Voided" /\ submissionV2' = submissionV2
    <3>1. SubmissionEvident(r, b)
      BY <1>6, <2>2 DEF EvidenceKept, Evident, Committed
    <3> QED BY <1>1, <1>3, <2>2, <3>1 DEF SubmissionEvident, TermsKept
  <2> QED BY <2>1, <2>2
<1> QED BY <1>2, <1>3, <1>4, <1>5, <1>6, OneEvident DEF Evident

\* clear_v2 chooses a winner of auctions only.
LEMMA SelectEvident ==
    ASSUME IInvV2, EvidenceKept, NEW r \in RoundId, Stored(r), roundV2[r].status = "Revealing",
           SelectWinner(r), TermsKept(r), OthersKept(r), roundV2'[r].status = "Cleared",
           UNCHANGED <<policyV2, revealV3>>
    PROVE  EvidenceKept'
<1>1. /\ roundV2[r].mode = "Auction" /\ submissionV2' = submissionV2
      /\ policyV2' = policyV2 /\ revealV3' = revealV3
  BY DEF SelectWinner
<1>2. TermsSound(r) /\ ProgressSound(r)
  BY DEF EvidenceKept, Evident
<1>3. TermsSound(r)'
  BY <1>1, <1>2, TermsStay
<1>4. ProgressSound(r)'
  BY <1>1, <1>2 DEF ProgressSound, TermsKept
<1>5. \A b \in Account : Committed(r, b)' => SubmissionEvident(r, b)'
  BY <1>1 DEF EvidenceKept, Evident, SubmissionEvident, Committed, TermsKept
<1> QED BY <1>1, <1>3, <1>4, <1>5, OneEvident DEF Evident

\* No round is stored at first.
LEMMA InitEvident == InitV2 => EvidenceKept
BY DEF InitV2, StorageInitV2, EvidenceKept, Evident, Stored

\* Every entry point keeps the evidence.
LEMMA CallEvident ==
    ASSUME IInvV2, EvidenceKept, CallV2
    PROVE  EvidenceKept'
<1>1. ASSUME NEW op \in Account, NEW q \in RequestV2,
             CreateRoundV2(op, q) \/ CreatePartnerRoundV2(op, q) \/ CreateRoundV3(op, q)
      PROVE  EvidenceKept'
  <2>1. q.policy \in PolicyRecord \cup {None}
    BY RoundV2Assumption DEF RequestRecord
  <2>2. CASE CreateRoundV2(op, q)
    BY <2>2, CreateEvident DEF CreateRoundV2
  <2>3. CASE CreatePartnerRoundV2(op, q)
    BY <2>1, <2>3, CreateEvident DEF CreatePartnerRoundV2
  <2>4. CASE CreateRoundV3(op, q)
    BY <2>1, <2>4, CreateEvident DEF CreateRoundV3
  <2> QED BY <1>1, <2>2, <2>3, <2>4
<1>2. ASSUME NEW r \in RoundId, NEW b \in Account, NEW e \in Envelope, NEW x \in EscrowV2,
             CommitV2(r, b, e, x)
      PROVE  EvidenceKept'
  BY <1>2, CommitKeepsTerms, CommitEvident
<1>3. ASSUME NEW r \in RoundId, NEW c \in Account, OpenRevealV2(r, c) PROVE EvidenceKept'
  BY <1>3, OpenEvident
<1>4. ASSUME NEW r \in RoundId, NEW b \in Account, NEW e \in Envelope, RevealV2(r, b, e)
      PROVE  EvidenceKept'
  BY <1>4, RevealEvident
<1>5. ASSUME NEW r \in RoundId, ClearV2(r) PROVE EvidenceKept'
  <2>1. Stored(r) /\ roundV2[r].status = "Revealing" /\ UNCHANGED <<policyV2, revealV3>>
    BY <1>5 DEF ClearV2
  <2>2. CASE FinalizeReceiptOnly(r)
    BY <2>1, <2>2, EndEvident DEF FinalizeReceiptOnly
  <2>3. CASE VoidForNoValidBid(r)
    BY <2>1, <2>3, EndEvident DEF VoidForNoValidBid, VoidRound, RefundAllV2
  <2>4. CASE SelectWinner(r)
    BY <1>5, <2>1, <2>4, SelectKeepsTerms, SelectEvident
  <2> QED BY <1>5, <2>2, <2>3, <2>4 DEF ClearV2
<1>6. ASSUME NEW r \in RoundId, SettleV2(r) PROVE EvidenceKept'
  BY <1>6, EndEvident DEF SettleV2
<1>7. ASSUME NEW r \in RoundId, VoidV2(r) PROVE EvidenceKept'
  BY <1>7, EndEvident DEF VoidV2, VoidRound, RefundAllV2
<1> QED BY <1>1, <1>2, <1>3, <1>4, <1>5, <1>6, <1>7 DEF CallV2

\* The evidence a receipt is built from is kept, step by step.
LEMMA NextEvident == IInvV2 /\ EvidenceKept /\ [NextV2]_varsV2 => EvidenceKept'
<1> SUFFICES ASSUME IInvV2, EvidenceKept, [NextV2]_varsV2 PROVE EvidenceKept'
  OBVIOUS
<1>1. CASE CallV2
  BY <1>1, CallEvident
<1>2. CASE UNCHANGED storageV2
  BY <1>2, EvidentFrame DEF EvidenceKept, storageV2
<1> QED BY <1>1, <1>2 DEF NextV2, varsV2

\* What a v2 or v3 round stores is always the evidence its receipt needs: the
\* terms creation checked, the policy every commit passed, the preimage every
\* reveal showed, and the opening time of a v3 round inside its window.
THEOREM EvidenceInvariant == SpecV2 => []EvidenceKept
<1>1. SpecV2 => []IInvV2
  BY InvariantV2
<1>2. InitV2 => EvidenceKept
  BY InitEvident
<1>3. IInvV2 /\ EvidenceKept /\ [NextV2]_varsV2 => EvidenceKept'
  BY NextEvident
<1> QED BY <1>1, <1>2, <1>3, PTL DEF SpecV2

---------------------------------------------------------------------------
(* From the evidence to the verifier's verdict.                            *)

\* An unbeaten revealed bid wins by the clearing rule.
LEMMA UnbeatenWins ==
    ASSUME IInvV2, NEW r \in RoundId, Stored(r), roundV2[r].mode = "Auction",
           NEW i \in Revealed(r), Unbeaten(r, i)
    PROVE  i \in WinningBids(roundV2[r].clearing_rule, OffersV2(r))
<1> DEFINE rule == roundV2[r].clearing_rule
<1>1. rule \in {"HighestBid", "LowestBid"}
  BY DEF IInvV2, TypeOKV2, Stored, RoundRecord, ClearingRule
<1>2. ASSUME NEW j \in Revealed(r)
      PROVE  /\ j \in Nat /\ Bid(r, j).revealed_amount \in Int
             /\ OffersV2(r)[j] = Bid(r, j).revealed_amount
  BY OffersAreRevealed
<1>3. Valid(OffersV2(r)) = Revealed(r)
  BY OffersAreRevealed
<1> HIDE DEF rule
<1>4. ASSUME NEW j \in Revealed(r) \ {i}
      PROVE  /\ ~ Beats(rule, Bid(r, j).revealed_amount, Bid(r, i).revealed_amount)
             /\ j < i => Beats(rule, Bid(r, i).revealed_amount, Bid(r, j).revealed_amount)
  BY <1>1, <1>2, <1>4 DEF Unbeaten, Beats, rule
<1>5. i \in WinningBids(rule, OffersV2(r))
  BY <1>2, <1>3, <1>4 DEF WinningBids
<1> QED BY <1>5 DEF rule

\* The fields of a receipt are those the contract stores.
LEMMA ReceiptFields ==
    ASSUME NEW r \in RoundId
    PROVE  LET receipt == QuietReceipt(r)
           IN  /\ receipt.version = roundV2[r].protocol_version /\ receipt.round = roundV2[r]
               /\ receipt.enforced <=> policyV2[r] # None
               /\ receipt.bidders = roundV2[r].bidders
               /\ \A b \in Bidders(r) : receipt.submissions[b] = submissionV2[r][b]
               /\ revealV3[r] # None => /\ receipt.fallbackAt = revealV3[r].policy
                                        /\ receipt.openedAt = revealV3[r].opened_at
               /\ policyV2[r] # None =>
                      /\ receipt.fixedEscrow = policyV2[r].fixed_escrow
                      /\ receipt.eligible = policyV2[r].eligible_participants
               /\ policyV2[r] = None => receipt.eligible = <<>>
BY DEF QuietReceipt, ReceiptOf, Evidence, Bidders

\* The offers the verifier recomputes from a receipt are those clear_v2 walked.
LEMMA ReceiptOffers ==
    ASSUME IInvV2, NEW r \in RoundId, Stored(r), NEW receipt,
           receipt.bidders = roundV2[r].bidders,
           \A b \in Bidders(r) : receipt.submissions[b] = submissionV2[r][b]
    PROVE  ComputedOffers(receipt) = OffersV2(r)
<1>1. ASSUME NEW i \in DOMAIN roundV2[r].bidders
      PROVE  LET s == receipt.submissions[receipt.bidders[i]]
             IN  (IF s.valid THEN s.revealed_amount ELSE None) = OffersV2(r)[i]
  <2>1. Committed(r, roundV2[r].bidders[i]) /\ roundV2[r].bidders[i] \in Bidders(r)
    BY IndexedCommitted DEF Bidders, Range
  <2> QED BY <2>1 DEF OffersV2, SubmissionOf
<1>2. OffersV2(r) = [i \in DOMAIN roundV2[r].bidders |-> OffersV2(r)[i]]
  BY DEF OffersV2
<1> QED BY <1>1, <1>2 DEF ComputedOffers

\* The verifier accepts the receipt of a round, unless it was opened and then
\* voided.
LEMMA ReceiptSound ==
    ASSUME IInvV2, NEW r \in RoundId, Stored(r), Evident(r), ~ OpenedThenVoided(r)
    PROVE  VerifyReceiptV2(QuietReceipt(r))
<1> DEFINE receipt == QuietReceipt(r)
           round == roundV2[r]
<1>1. /\ receipt.version = round.protocol_version /\ receipt.round = round
      /\ receipt.enforced <=> policyV2[r] # None
      /\ receipt.bidders = round.bidders
      /\ \A b \in Bidders(r) : receipt.submissions[b] = submissionV2[r][b]
      /\ revealV3[r] # None => /\ receipt.fallbackAt = revealV3[r].policy
                               /\ receipt.openedAt = revealV3[r].opened_at
      /\ policyV2[r] # None => /\ receipt.fixedEscrow = policyV2[r].fixed_escrow
                               /\ receipt.eligible = policyV2[r].eligible_participants
      /\ policyV2[r] = None => receipt.eligible = <<>>
  BY ReceiptFields
<1> HIDE DEF receipt
<1>2. TermsSound(r) /\ ProgressSound(r) /\ RoundSound(r)
  BY DEF Evident, IInvV2, RoundInv
<1>3. round \in RoundRecord /\ round.status \in Status
      /\ round.protocol_version \in {2, 3} /\ round.mode \in RoundMode
  BY DEF IInvV2, TypeOKV2, Stored, RoundRecord
<1>4. Range(receipt.bidders) = Bidders(r) /\ IsInjective(receipt.bidders)
      /\ Bidders(r) = {b \in Account : Committed(r, b)}
  BY <1>1 DEF Bidders, IInvV2, RoundInv, IndexExact
<1>5. ASSUME NEW b \in Bidders(r)
      PROVE  /\ SubmissionEvident(r, b) /\ SubmissionSound(r, b)
             /\ receipt.submissions[b] = SubmissionOf(r, b)
             /\ SubmissionOf(r, b) \in SubmissionRecord
  BY <1>1, <1>4 DEF Evident, IInvV2, RoundInv, SubmissionOf, Committed, TypeOKV2
<1>6. RevealEvidenceOK(receipt)
  <2> SUFFICES ASSUME receipt.version = 3 PROVE RevealEvidenceOK(receipt)
    BY DEF RevealEvidenceOK
  <2>1. round.protocol_version = 3 /\ policyV2[r] # None /\ revealV3[r] # None
        /\ FallbackSound(revealV3[r], round)
    BY <1>1, <1>2 DEF TermsSound
  <2>2. round.commit_deadline < TimeOfRound(round.reveal_round)
        /\ TimeOfRound(round.reveal_round) < round.reveal_deadline
    BY <1>2 DEF TermsSound, RoundSound
  <2>3. receipt.fallbackAt # None => round.reveal_deadline - receipt.fallbackAt >= MinRevealWindow
                                     /\ TimeOfRound(round.reveal_round) < receipt.fallbackAt
    <3>1. receipt.fallbackAt = revealV3[r].policy /\ revealV3[r] \in RevealRecord
      BY <1>1, <2>1 DEF IInvV2, TypeOKV2
    <3>2. receipt.fallbackAt # None => receipt.fallbackAt \in Int
      BY <3>1, U64Assumption DEF RevealRecord, RevealPolicy, Time
    <3>3. round.reveal_deadline \in Int /\ MinRevealWindow \in Int
      BY <1>3, U64Assumption, RoundV2Assumption DEF RoundRecord, Time
    <3>4. receipt.fallbackAt # None =>
             TimeOfRound(round.reveal_round) < receipt.fallbackAt
             /\ receipt.fallbackAt + MinRevealWindow <= round.reveal_deadline
      BY <2>1, <3>1 DEF FallbackSound
    <3> HIDE DEF round
    <3> QED BY <3>2, <3>3, <3>4
  <2>4. IF ExpectedOpening(receipt)
        THEN receipt.openedAt # None
             /\ receipt.openedAt \in TimeOfRound(round.reveal_round) .. round.reveal_deadline
        ELSE receipt.openedAt = None
    BY <1>1, <1>2, <1>3, <2>1 DEF ProgressSound, ExpectedOpening, OpenedThenVoided, Status
  <2> QED BY <1>1, <2>1, <2>2, <2>3, <2>4 DEF RevealEvidenceOK
<1>7. PolicyEvidenceOK(receipt)
  <2>1. CASE policyV2[r] = None
    <3>1. IsInjective(<<>>) /\ Len(<<>>) = 0
      BY DEF IsInjective
    <3> QED BY <1>1, <1>2, <2>1, <3>1, RoundV2Assumption DEF PolicyEvidenceOK, TermsSound
  <2>2. CASE policyV2[r] # None
    <3>1. PolicyFitsRound(policyV2[r], round) /\ policyV2[r] \in PolicyRecord
      BY <1>2, <2>2 DEF TermsSound, IInvV2, TypeOKV2
    <3>2. receipt.fixedEscrow # None /\ receipt.fixedEscrow = policyV2[r].fixed_escrow
      BY <1>1, <2>2, <3>1, NoneIsNoValue DEF PolicyRecord
    <3>3. Range(receipt.eligible) # {} => Range(receipt.bidders) \subseteq Range(receipt.eligible)
      <4>1. Range(<<>>) = {}
        BY DEF Range
      <4> QED BY <1>1, <1>4, <1>5, <2>2, <4>1 DEF SubmissionEvident
    <3>4. round.mode = "Auction" =>
            \A b \in Range(receipt.bidders) : receipt.submissions[b].escrow = receipt.fixedEscrow
      BY <1>4, <1>5, <2>2, <3>2 DEF SubmissionEvident, SubmissionOf
    <3> QED BY <1>1, <2>2, <3>1, <3>2, <3>3, <3>4 DEF PolicyEvidenceOK, PolicyFitsRound
  <2> QED BY <2>1, <2>2
<1>8. ModeEvidenceOK(round)
  BY <1>2, <1>3 DEF TermsSound, ProgressSound, ModeEvidenceOK, RoundMode
<1>9. ASSUME NEW b \in Bidders(r)
      PROVE  SubmissionEvidenceOK(receipt, receipt.submissions[b])
  <2> DEFINE s == SubmissionOf(r, b)
  <2>1. s.revealed_envelope # None => /\ Sha256(s.revealed_envelope) = s.commitment
                                      /\ s.revealed_envelope.decodes
                                      /\ s.revealed_envelope.amount = s.revealed_amount
    BY <1>5 DEF SubmissionEvident, SubmissionOf
  <2>2. /\ s.valid => s.revealed_envelope # None
        /\ round.status = "Settled" => s.settled
    BY <1>5 DEF SubmissionEvident, SubmissionOf
  <2>3. s.valid /\ round.mode = "Auction" => s.revealed_amount \in 1 .. s.escrow /\ s.escrow \in Nat
    BY <1>5 DEF SubmissionSound, SubmissionRecord
  <2>4. receipt.submissions[b] = s
    BY <1>5
  <2> HIDE DEF s
  <2>5. s.valid /\ round.mode = "Auction" =>
          /\ s.revealed_envelope.amount # None
          /\ s.revealed_envelope.amount > 0 /\ s.revealed_envelope.amount <= s.escrow
    BY <2>1, <2>2, <2>3, NoneIsNoValue
  <2> QED BY <1>1, <2>1, <2>2, <2>4, <2>5 DEF SubmissionEvidenceOK
<1>10. WinnerEvidenceOK(receipt)
  <2> SUFFICES ASSUME round.mode = "Auction", round.status \in {"Cleared", "Settled"}
               PROVE  \E i \in WinningBids(round.clearing_rule, ComputedOffers(receipt)) :
                          /\ round.winner = round.bidders[i]
                          /\ round.winning_bid = ComputedOffers(receipt)[i]
    BY <1>1 DEF WinnerEvidenceOK
  <2>1. ComputedOffers(receipt) = OffersV2(r)
    BY <1>1, ReceiptOffers
  <2>2. PICK i \in Revealed(r) : /\ round.winner = round.bidders[i]
                                 /\ round.winning_bid = Bid(r, i).revealed_amount
                                 /\ Unbeaten(r, i)
    BY DEF IInvV2, RoundInv, OutcomeJust
  <2>3. i \in WinningBids(round.clearing_rule, OffersV2(r))
    BY <2>2, UnbeatenWins
  <2>4. OffersV2(r)[i] = Bid(r, i).revealed_amount
    BY OffersAreRevealed
  <2> QED BY <2>1, <2>2, <2>3, <2>4
<1>11. round.max_participants \in 1 .. MaxV2Participants
  BY <1>2 DEF TermsSound
<1>12. VerifyReceiptV2(receipt)
  BY <1>1, <1>4, <1>6, <1>7, <1>8, <1>9, <1>10, <1>11 DEF VerifyReceiptV2
<1> QED BY <1>12 DEF receipt

\* verifyReceiptV2 accepts the receipt of any v2 or v3 round in any state:
\* whatever was committed, replaced, revealed, refused, cleared, settled or
\* refunded, the offline check recomputes what the contract decided - except
\* of a v3 round opened and then voided.
THEOREM ReceiptsAgreeV2 == SpecV2 => []ReceiptsVerifyV2
<1>1. SpecV2 => []IInvV2
  BY InvariantV2
<1>2. SpecV2 => []EvidenceKept
  BY EvidenceInvariant
<1>3. IInvV2 /\ EvidenceKept => ReceiptsVerifyV2
  BY ReceiptSound DEF ReceiptsVerifyV2, EvidenceKept
<1> QED BY <1>1, <1>2, <1>3, PTL

---------------------------------------------------------------------------
(* exportReceipt, which reads a v1 round one read at a time while anybody  *)
(* calls the contract.                                                     *)

\* s is the beginning of t.
Begins(s, t) == Len(s) <= Len(t) /\ \A i \in 1 .. Len(s) : t[i] = s[i]

\* A v1 round record and a later one: the index only grows, and once there is
\* a winner neither changes any more.
OnwardV1(old, new) ==
    /\ new.clearing_rule = old.clearing_rule
    /\ Begins(old.bidders, new.bidders)
    /\ old.winner # None => new.winner = old.winner /\ new.bidders = old.bidders

\* What a call leaves a reader of round r: a later record, and after clearing
\* what the winner was computed from.
MovesOnV1(r) ==
    /\ StoredV1(r)'
    /\ OnwardV1(roundV1[r], roundV1'[r])
    /\ roundV1[r].winner # None =>
           \A b \in Account : HasBid(r, b) =>
               /\ HasBid(r, b)'
               /\ bidV1'[r][b].revealed = bidV1[r][b].revealed
               /\ bidV1'[r][b].valid = bidV1[r][b].valid

\* Before clearing it is enough that the index grows.
LEMMA EditMovesOnV1 ==
    ASSUME NEW r \in RoundId, roundV1[r].winner = None, StoredV1(r)',
           roundV1'[r].clearing_rule = roundV1[r].clearing_rule,
           Begins(roundV1[r].bidders, roundV1'[r].bidders)
    PROVE  MovesOnV1(r)
BY DEF MovesOnV1, OnwardV1

\* A sequence begins itself.
LEMMA BeginsItself == ASSUME NEW S, NEW s \in Seq(S) PROVE Begins(s, s)
BY DEF Begins

\* A sequence begins the one that has one more element.
LEMMA BeginsAppend ==
    ASSUME NEW S, NEW s \in Seq(S), NEW b \in S
    PROVE  Begins(s, Append(s, b))
BY DEF Begins

\* The record of a stored round.
LEMMA StoredRecordV1 ==
    ASSUME IInvV1, NEW r \in RoundId, StoredV1(r)
    PROVE  /\ roundV1[r] \in RoundRecordV1 /\ roundV1[r].bidders \in Seq(Account)
           /\ roundV1[r].status \in Status
           /\ roundV1[r].status \notin {"Cleared", "Settled"} => roundV1[r].winner = None
<1>1. roundV1[r] \in RoundRecordV1
  BY DEF IInvV1, ShapeV1, StoredV1
<1>2. RecordSoundV1(r)
  BY DEF IInvV1, RoundInvV1
<1> QED BY <1>1, <1>2 DEF RoundRecordV1, RecordSoundV1, Status

\* A call of another round.
LEMMA QuietMovesOnV1 ==
    ASSUME IInvV1, NEW r \in RoundId, StoredV1(r),
           roundV1'[r] = roundV1[r], bidV1'[r] = bidV1[r]
    PROVE  MovesOnV1(r)
<1>1. Begins(roundV1[r].bidders, roundV1[r].bidders)
  BY StoredRecordV1 DEF Begins
<1> QED BY <1>1 DEF MovesOnV1, OnwardV1, StoredV1, HasBid

\* A call that edits the record of a round that is not cleared yet.
LEMMA RecordMovesOnV1 ==
    ASSUME IInvV1, NEW r \in RoundId, StoredV1(r), roundV1[r].winner = None,
           NEW round, roundV1' = [roundV1 EXCEPT ![r] = round], round \in RoundRecordV1,
           round.clearing_rule = roundV1[r].clearing_rule,
           Begins(roundV1[r].bidders, round.bidders)
    PROVE  MovesOnV1(r)
<1>1. roundV1'[r] = round
  BY DEF IInvV1, ShapeV1
<1>2. StoredV1(r)'
  BY <1>1, NoneIsNoValueV1 DEF StoredV1
<1> QED BY <1>1, <1>2, EditMovesOnV1

\* commit: the bidder is in the index or enters it at the end.
LEMMA CommitMovesOnV1 ==
    ASSUME IInvV1, NEW r \in RoundId, NEW b \in Account, NEW p \in Preimage,
           NEW escrow \in EscrowV1, Commit(r, b, p, escrow)
    PROVE  MovesOnV1(r)
<1> DEFINE index == IF HasBid(r, b) THEN roundV1[r].bidders ELSE Append(roundV1[r].bidders, b)
           round == [roundV1[r] EXCEPT !.bidders = index]
<1>1. StoredV1(r) /\ roundV1[r].status = "Open"
  BY DEF Commit, CommitOpen
<1>2. roundV1[r] \in RoundRecordV1 /\ roundV1[r].bidders \in Seq(Account)
      /\ roundV1[r].winner = None
  BY <1>1, StoredRecordV1
<1>3. Begins(roundV1[r].bidders, index) /\ index \in Seq(Account)
  BY <1>2, BeginsItself, BeginsAppend
<1>4. roundV1' = [roundV1 EXCEPT ![r] = round]
  BY DEF Commit
<1> HIDE DEF index
<1>5. round \in RoundRecordV1 /\ round.bidders = index
      /\ round.clearing_rule = roundV1[r].clearing_rule
  BY <1>2, <1>3 DEF RoundRecordV1
<1> HIDE DEF round
<1> QED BY <1>1, <1>2, <1>3, <1>4, <1>5, RecordMovesOnV1

\* A step of the status alone.
LEMMA StatusMovesOnV1 ==
    ASSUME IInvV1, NEW r \in RoundId, StoredV1(r), roundV1[r].winner = None,
           NEW status \in Status, roundV1' = [roundV1 EXCEPT ![r].status = status]
    PROVE  MovesOnV1(r)
<1> DEFINE round == [roundV1[r] EXCEPT !.status = status]
<1>1. roundV1[r] \in RoundRecordV1 /\ roundV1[r].bidders \in Seq(Account)
  BY StoredRecordV1
<1>2. round \in RoundRecordV1 /\ round.bidders = roundV1[r].bidders
      /\ round.clearing_rule = roundV1[r].clearing_rule
  BY <1>1 DEF RoundRecordV1
<1>3. roundV1' = [roundV1 EXCEPT ![r] = round]
  OBVIOUS
<1> HIDE DEF round
<1> QED BY <1>1, <1>2, <1>3, BeginsItself, RecordMovesOnV1

\* clear names the winner: the index is what it was.
LEMMA SelectMovesOnV1 ==
    ASSUME IInvV1, NEW r \in RoundId, StoredV1(r), roundV1[r].winner = None, SelectWinnerV1(r),
           StoredV1(r)'
    PROVE  MovesOnV1(r)
<1>1. PICK w, bid : roundV1' = [roundV1 EXCEPT ![r].status = "Cleared", ![r].winner = w,
                                               ![r].winning_bid = bid]
  BY DEF SelectWinnerV1
<1> DEFINE round == [roundV1[r] EXCEPT !.status = "Cleared", !.winner = w, !.winning_bid = bid]
<1>2. roundV1[r] \in RoundRecordV1 /\ roundV1[r].bidders \in Seq(Account)
  BY StoredRecordV1
<1>3. round.bidders = roundV1[r].bidders /\ round.clearing_rule = roundV1[r].clearing_rule
  BY <1>2 DEF RoundRecordV1
<1>4. roundV1' = [roundV1 EXCEPT ![r] = round]
  BY <1>1
<1> HIDE DEF round
<1>5. roundV1'[r] = round
  BY <1>4 DEF IInvV1, ShapeV1
<1>6. Begins(roundV1[r].bidders, roundV1'[r].bidders)
  BY <1>2, <1>3, <1>5, BeginsItself
<1> QED BY <1>3, <1>5, <1>6, EditMovesOnV1

\* settle: the winner stands, and only settled flags change.
LEMMA SettleMovesOnV1 ==
    ASSUME IInvV1, NEW r \in RoundId, Settle(r)
    PROVE  MovesOnV1(r)
<1> DEFINE round == [roundV1[r] EXCEPT !.status = "Settled"]
<1>1. /\ StoredV1(r) /\ roundV1[r].status = "Cleared"
      /\ roundV1' = [roundV1 EXCEPT ![r] = round]
      /\ bidV1' = SettledV1(r, {x \in Account : OwingV1(r, x)})
  BY DEF Settle
<1>2. roundV1[r] \in RoundRecordV1 /\ roundV1[r].bidders \in Seq(Account)
  BY <1>1, StoredRecordV1
<1>3. /\ round \in RoundRecordV1 /\ round.bidders = roundV1[r].bidders
      /\ round.clearing_rule = roundV1[r].clearing_rule /\ round.winner = roundV1[r].winner
  BY <1>2 DEF RoundRecordV1, Status
<1> HIDE DEF round
<1>4. roundV1'[r] = round /\ StoredV1(r)'
  BY <1>1, <1>3, NoneIsNoValueV1 DEF IInvV1, ShapeV1, StoredV1
<1>5. PICK paid : /\ bidV1' = SettledV1(r, paid)
                  /\ \/ paid = {x \in Account : OwingV1(r, x)}
                     \/ paid = {x \in Account : UnsettledV1(r, x) > 0}
  BY <1>1
<1>0. StoredV1(r) /\ roundV1[r].status \in {"Open", "Revealing", "Cleared"}
  BY <1>1
<1>6. PICK bids \in [Account -> BidState \cup {None}] :
         /\ bidV1' = [bidV1 EXCEPT ![r] = bids]
         /\ \A x \in Account :
              /\ bids[x] # None <=> bidV1[r][x] # None
              /\ bidV1[r][x] # None => /\ bids[x].valid = bidV1[r][x].valid
                                       /\ bids[x].revealed = bidV1[r][x].revealed
  BY <1>0, <1>5, EverybodyPaidV1
<1>7. bidV1'[r] = bids
  BY <1>6 DEF IInvV1, ShapeV1
<1>8. OnwardV1(roundV1[r], roundV1'[r])
  BY <1>2, <1>3, <1>4 DEF OnwardV1, Begins
<1> QED BY <1>4, <1>6, <1>7, <1>8 DEF MovesOnV1, HasBid

\* Every v1 call moves every stored round on, or leaves it alone.
LEMMA CallMovesOnV1 ==
    ASSUME IInvV1, CallV1, NEW r \in RoundId, StoredV1(r)
    PROVE  MovesOnV1(r)
<1>1. ASSUME NEW op \in Account, NEW q \in RequestV1, CreateRound(op, q) PROVE MovesOnV1(r)
  <2>1. roundCounter \in Nat /\ r \in Nat /\ r <= roundCounter
    BY DEF IInvV1, ShapeV1, LedgerTypeOK, CountedV1, RoundId
  <2>2. NextRoundId # r
    BY <2>1 DEF NextRoundId
  <2>3. roundV1'[r] = roundV1[r] /\ bidV1'[r] = bidV1[r]
    BY <1>1, <2>2 DEF CreateRound, IInvV1, ShapeV1
  <2> QED BY <2>3, QuietMovesOnV1
<1>2. ASSUME NEW s \in RoundId, NEW b \in Account, NEW p \in Preimage, NEW x \in EscrowV1,
             Commit(s, b, p, x)
      PROVE  MovesOnV1(r)
  <2>1. CASE s # r
    <3>1. roundV1'[r] = roundV1[r] /\ bidV1'[r] = bidV1[r]
      BY <1>2, <2>1 DEF Commit, IInvV1, ShapeV1
    <3> QED BY <3>1, QuietMovesOnV1
  <2>2. CASE s = r
    BY <1>2, <2>2, CommitMovesOnV1
  <2> QED BY <2>1, <2>2
<1>3. ASSUME NEW s \in RoundId, OpenReveal(s) PROVE MovesOnV1(r)
  <2>1. CASE s # r
    <3>1. roundV1'[r] = roundV1[r] /\ bidV1'[r] = bidV1[r]
      BY <1>3, <2>1 DEF OpenReveal, IInvV1, ShapeV1
    <3> QED BY <3>1, QuietMovesOnV1
  <2>2. CASE s = r
    <3>1. roundV1[r].winner = None
      BY <1>3, <2>2, StoredRecordV1 DEF OpenReveal
    <3>2. roundV1' = [roundV1 EXCEPT ![r].status = "Revealing"] /\ "Revealing" \in Status
      BY <1>3, <2>2 DEF OpenReveal, Status
    <3> QED BY <3>1, <3>2, StatusMovesOnV1
  <2> QED BY <2>1, <2>2
<1>4. ASSUME NEW s \in RoundId, NEW b \in Account, NEW p \in Preimage, Reveal(s, b, p)
      PROVE  MovesOnV1(r)
  <2>1. CASE s # r
    <3>1. roundV1'[r] = roundV1[r] /\ bidV1'[r] = bidV1[r]
      BY <1>4, <2>1 DEF Reveal, IInvV1, ShapeV1
    <3> QED BY <3>1, QuietMovesOnV1
  <2>2. CASE s = r
    <3>1. roundV1[r].winner = None /\ roundV1[r].bidders \in Seq(Account)
      BY <1>4, <2>2, StoredRecordV1 DEF Reveal
    <3>2. roundV1' = roundV1
      BY <1>4 DEF Reveal
    <3> QED BY <3>1, <3>2, EditMovesOnV1 DEF Begins, StoredV1
  <2> QED BY <2>1, <2>2
<1>5. ASSUME NEW s \in RoundId, Clear(s) \/ Void(s) PROVE MovesOnV1(r)
  <2>0. StoredV1(s) /\ roundV1[s].status \in {"Open", "Revealing"}
        /\ (VoidRoundV1(s) \/ SelectWinnerV1(s))
    BY <1>5 DEF Clear, Void
  <2>1. CASE s # r
    <3>1. roundV1'[r] = roundV1[r]
      BY <2>0, <2>1 DEF VoidRoundV1, SelectWinnerV1, IInvV1, ShapeV1
    <3>2. bidV1'[r] = bidV1[r]
      BY <2>0, <2>1 DEF VoidRoundV1, RefundAllV1, SelectWinnerV1, SettledV1, IInvV1, ShapeV1
    <3> QED BY <3>1, <3>2, QuietMovesOnV1
  <2>2. CASE s = r
    <3>1. roundV1[r].winner = None
      BY <2>0, <2>2, StoredRecordV1
    <3>2. CASE VoidRoundV1(r)
      <4>1. roundV1' = [roundV1 EXCEPT ![r].status = "Voided"] /\ "Voided" \in Status
        BY <3>2 DEF VoidRoundV1, Status
      <4> QED BY <3>1, <4>1, StatusMovesOnV1
    <3>3. CASE SelectWinnerV1(r)
      BY <3>1, <3>3, CallStepV1, SelectMovesOnV1 DEF StoredStaysV1
    <3> QED BY <2>0, <2>2, <3>2, <3>3
  <2> QED BY <2>1, <2>2
<1>6. ASSUME NEW s \in RoundId, Settle(s) PROVE MovesOnV1(r)
  <2>1. CASE s # r
    <3>1. roundV1'[r] = roundV1[r]
      BY <1>6, <2>1 DEF Settle, IInvV1, ShapeV1
    <3>2. bidV1'[r] = bidV1[r]
      BY <1>6, <2>1 DEF Settle, SettledV1, IInvV1, ShapeV1
    <3> QED BY <3>1, <3>2, QuietMovesOnV1
  <2>2. CASE s = r
    BY <1>6, <2>2, SettleMovesOnV1
  <2> QED BY <2>1, <2>2
<1> QED BY <1>1, <1>2, <1>3, <1>4, <1>5, <1>6 DEF CallV1

---------------------------------------------------------------------------
(* The export under way: what it has read is a past state of its round.    *)

ExportFields == DOMAIN NoExport

\* An export is of one round of one family, as its phase says.
ExportShape ==
    /\ DOMAIN export = ExportFields /\ DOMAIN export.parts = Account
    /\ export.phase \in {"idle", "batch", "reveal", "submissions", "pages", "bids", "done"}
    /\ export.bidders \in Seq(Account)
    /\ export.taken \in 0 .. Len(export.bidders)
    /\ Reading("idle") => export = NoExport
    /\ ~ Reading("idle") => export.rid \in RoundId
    /\ Reading("pages") \/ Reading("bids") => StoredV1(export.rid)
    /\ Reading("batch") \/ Reading("reveal") \/ Reading("submissions") => Stored(export.rid)
    /\ Reading("done") => StoredV1(export.rid) \/ Stored(export.rid)
    /\ Reading("batch") => export.taken = 0
    /\ Reading("done") => export.taken = Len(export.bidders)

\* The bid of b as it was when it was read: what it revealed it had committed
\* to, and it has not changed since if the round read had a winner.
BidRead(b) ==
    LET part == export.parts[b]
    IN  /\ part \in BidState
        /\ part.revealed # None => part.commitment = Sha256(part.revealed)
        /\ export.round.winner # None =>
               /\ HasBid(export.rid, b)
               /\ part.revealed = bidV1[export.rid][b].revealed
               /\ part.valid = bidV1[export.rid][b].valid

\* The round read is an earlier one, and the index read is a beginning of the
\* present one that, once the pages are through, reaches as far as the index
\* of the round read.
ReadInOrderV1 ==
    LET r == export.rid
    IN  /\ export.round \in RoundRecordV1 /\ export.before = export.round
        /\ OnwardV1(export.round, roundV1[r])
        /\ Begins(export.bidders, roundV1[r].bidders)
        /\ Reading("pages") => export.taken = 0 /\ export.cursor = Len(export.bidders)
        /\ ~ Reading("pages") => Len(export.round.bidders) <= Len(export.bidders)
        /\ \A i \in 1 .. export.taken : BidRead(export.bidders[i])

ExportedV1 == Reading("pages") \/ Reading("bids") \/ Reading("done")

ExportSoundV1 == ExportedV1 /\ StoredV1(export.rid) => ReadInOrderV1

\* Records that move on twice move on.
LEMMA OnwardTwiceV1 ==
    ASSUME NEW x \in RoundRecordV1, NEW y \in RoundRecordV1, NEW z \in RoundRecordV1,
           OnwardV1(x, y), OnwardV1(y, z)
    PROVE  OnwardV1(x, z)
<1>1. /\ Len(x.bidders) \in Nat /\ Len(y.bidders) \in Nat /\ Len(z.bidders) \in Nat
  BY DEF RoundRecordV1
<1>2. Begins(x.bidders, z.bidders)
  BY <1>1 DEF OnwardV1, Begins
<1> QED BY <1>2 DEF OnwardV1

\* What begins a sequence begins the one it begins.
LEMMA BeginsTwice ==
    ASSUME NEW S, NEW x \in Seq(S), NEW y \in Seq(S), NEW z \in Seq(S),
           Begins(x, y), Begins(y, z)
    PROVE  Begins(x, z)
<1>1. Len(x) \in Nat /\ Len(y) \in Nat /\ Len(z) \in Nat
  OBVIOUS
<1> QED BY <1>1 DEF Begins

\* Any call, of any family, leaves a v1 round moved on or alone.
LEMMA ContractMovesOnV1 ==
    ASSUME IInvContract, [NextContract]_contractVars, NEW r \in RoundId, StoredV1(r)
    PROVE  MovesOnV1(r)
<1>1. CASE CallV1
  BY <1>1, CallMovesOnV1 DEF IInvContract
<1>2. CASE UNCHANGED storageV1
  BY <1>2, QuietMovesOnV1 DEF IInvContract, storageV1
<1> QED BY <1>1, <1>2 DEF NextContract, contractVars

\* No call moves a round from one family to the other or removes it.
LEMMA ContractKeepsFamily ==
    ASSUME IInvContract, [NextContract]_contractVars, NEW r \in RoundId
    PROVE  /\ StoredV1(r) => StoredV1(r)' /\ ~ Stored(r)'
           /\ Stored(r) => Stored(r)' /\ ~ StoredV1(r)'
<1>1. IInvContract'
  BY NextIInvContract
<1>2. StoredV1(r) => StoredV1(r)'
  BY ContractMovesOnV1 DEF MovesOnV1
<1>3. Stored(r) => Stored(r)'
  <2>1. CASE CallV2
    BY <2>1, NextIInvV2 DEF IInvContract, NextV2, StoredStays
  <2>2. CASE UNCHANGED storageV2
    BY <2>2 DEF storageV2, Stored
  <2> QED BY <2>1, <2>2 DEF NextContract, contractVars
<1> QED BY <1>1, <1>2, <1>3 DEF IInvContract, OneFamilyPerId

\* A call during the export.
LEMMA CallKeepsShape ==
    ASSUME IInvContract, [NextContract]_contractVars, ExportShape, export' = export
    PROVE  ExportShape'
<1>1. \A r \in RoundId : (StoredV1(r) => StoredV1(r)') /\ (Stored(r) => Stored(r)')
  BY ContractKeepsFamily
<1> QED BY <1>1 DEF ExportShape, Reading

\* What was read before the call is still a past state after it.
LEMMA CallKeepsReadsV1 ==
    ASSUME IInvContract, [NextContract]_contractVars, ExportShape, ExportSoundV1,
           export' = export
    PROVE  ExportSoundV1'
<1> SUFFICES ASSUME ExportedV1, StoredV1(export.rid)' PROVE ReadInOrderV1'
  BY DEF ExportSoundV1, ExportedV1, Reading
<1> PICK r \in RoundId : r = export.rid
  BY DEF ExportedV1, ExportShape, Reading
<1>1. StoredV1(r)
  BY ContractKeepsFamily DEF ExportedV1, ExportShape, Reading
<1>2. ReadInOrderV1 /\ MovesOnV1(r) /\ IInvContract'
  BY <1>1, ContractMovesOnV1, NextIInvContract DEF ExportSoundV1
<1>3. /\ roundV1[r] \in RoundRecordV1 /\ roundV1'[r] \in RoundRecordV1
      /\ roundV1[r].bidders \in Seq(Account) /\ roundV1'[r].bidders \in Seq(Account)
  BY <1>1, <1>2 DEF IInvContract, IInvV1, ShapeV1, StoredV1, RoundRecordV1
<1>4. OnwardV1(export.round, roundV1'[r])
  BY <1>2, <1>3, OnwardTwiceV1 DEF ReadInOrderV1, MovesOnV1
<1>5. Begins(export.bidders, roundV1'[r].bidders)
  BY <1>2, <1>3, BeginsTwice DEF ReadInOrderV1, MovesOnV1, OnwardV1, ExportShape
<1>6. ASSUME NEW i \in 1 .. export.taken PROVE BidRead(export.bidders[i])'
  <2> PICK b : b = export.bidders[i]
    OBVIOUS
  <2>1. BidRead(b) /\ b \in Account
    BY <1>2 DEF ReadInOrderV1, ExportShape
  <2>2. ASSUME export.round.winner # None
        PROVE  /\ HasBid(r, b)'
               /\ export.parts[b].revealed = bidV1'[r][b].revealed
               /\ export.parts[b].valid = bidV1'[r][b].valid
    <3>1. roundV1[r].winner # None
      BY <1>2, <2>2 DEF ReadInOrderV1, OnwardV1
    <3> QED BY <1>2, <2>1, <2>2, <3>1 DEF MovesOnV1, BidRead
  <2>3. BidRead(b)'
    BY <2>1, <2>2 DEF BidRead
  <2> QED BY <2>3
<1> QED BY <1>2, <1>4, <1>5, <1>6 DEF ReadInOrderV1, Reading

\* Taking the next bidder's part keeps the shape and the parts taken before.
LEMMA TakePartKeeps ==
    ASSUME ExportShape, ~ AllTaken, NEW record, TakePart(record)
    PROVE  LET b == export.bidders[export.taken + 1]
           IN  /\ export.taken + 1 \in 1 .. Len(export.bidders) /\ b \in Account
               /\ DOMAIN export' = ExportFields /\ DOMAIN export'.parts = Account
               /\ \A f \in ExportFields \ {"parts", "taken"} : export'[f] = export[f]
               /\ export'.taken = export.taken + 1
               /\ export'.parts[b] = record[b]
               /\ \A x \in Account \ {b} : export'.parts[x] = export.parts[x]
<1> PICK b : b = export.bidders[export.taken + 1]
  OBVIOUS
<1>1. export.taken + 1 \in 1 .. Len(export.bidders) /\ b \in Account
  BY DEF ExportShape, AllTaken
<1>2. export' = [export EXCEPT !.parts = [export.parts EXCEPT ![b] = record[b]],
                               !.taken = export.taken + 1]
  BY DEF TakePart
<1> PICK parts : parts = [export.parts EXCEPT ![b] = record[b]]
  OBVIOUS
<1>3. /\ DOMAIN parts = Account /\ parts[b] = record[b]
      /\ \A x \in Account \ {b} : parts[x] = export.parts[x]
  BY <1>1 DEF ExportShape
<1>4. ExportFields = {"phase", "rid", "round", "bidders", "policy", "reveal", "due", "cursor",
                      "taken", "parts", "before"}
  BY DEF ExportFields, NoExport
<1>5. export' = [export EXCEPT !.parts = parts, !.taken = export.taken + 1]
  BY <1>2
<1>6. /\ DOMAIN export' = ExportFields
      /\ \A f \in ExportFields \ {"parts", "taken"} : export'[f] = export[f]
      /\ export'.taken = export.taken + 1 /\ export'.parts = parts
  BY <1>4, <1>5 DEF ExportShape
<1> QED BY <1>1, <1>3, <1>6

\* The pages read so far and the next one, which ends at entry m.
WithPage(s, index, m) == s \o SubSeq(index, Len(s) + 1, m)

\* The next page goes on where the pages before it ended.
LEMMA PageGoesOn ==
    ASSUME NEW index \in Seq(Account), NEW s \in Seq(Account), Begins(s, index),
           NEW m \in Nat, Len(s) <= m, m <= Len(index)
    PROVE  /\ WithPage(s, index, m) \in Seq(Account)
           /\ Len(WithPage(s, index, m)) = m /\ Begins(WithPage(s, index, m), index)
<1> PICK n \in Nat : n = Len(s)
  OBVIOUS
<1> PICK more : more = SubSeq(index, n + 1, m)
  OBVIOUS
<1>1. /\ more \in Seq(Account) /\ Len(more) = m - n
      /\ \A i \in 1 .. m - n : more[i] = index[n + i]
  OBVIOUS
<1>2. /\ s \o more \in Seq(Account) /\ Len(s \o more) = m
      /\ \A i \in 1 .. m : (s \o more)[i] = index[i]
  BY <1>1 DEF Begins
<1>3. WithPage(s, index, m) = s \o more
  BY DEF WithPage
<1> QED BY <1>2, <1>3 DEF Begins

\* get_bidders_page: the page from entry n on ends at some entry m, and names
\* the next one only if the index goes on.
LEMMA PageEnds ==
    ASSUME NEW r, NEW index \in Seq(Account), index = roundV1[r].bidders,
           NEW n \in Nat, n <= Len(index)
    PROVE  \E m \in Nat :
               /\ n <= m /\ m <= Len(index)
               /\ BiddersPage(r, n, PageSize).data = SubSeq(index, n + 1, m)
               /\ BiddersPage(r, n, PageSize).next_cursor = IF m < Len(index) THEN m ELSE 0
               /\ m < Len(index) => m > 0
<1> DEFINE start == IF n < Len(index) THEN n ELSE Len(index)
           end == IF start + PageSize < Len(index) THEN start + PageSize ELSE Len(index)
<1>1. /\ start = n /\ end \in Nat /\ n <= end /\ end <= Len(index)
      /\ end < Len(index) => end > 0
  BY ExportAssumption
<1>2. BiddersPage(r, n, PageSize) = [data |-> SubSeq(index, start + 1, end),
                                     next_cursor |-> IF end < Len(index) THEN end ELSE 0]
  BY DEF BiddersPage
<1>3. PICK data : data = SubSeq(index, n + 1, end)
  OBVIOUS
<1>4. PICK next : next = IF end < Len(index) THEN end ELSE 0
  OBVIOUS
<1>5. BiddersPage(r, n, PageSize) = [data |-> data, next_cursor |-> next]
  BY <1>1, <1>2, <1>3, <1>4
<1>6. BiddersPage(r, n, PageSize).data = data /\ BiddersPage(r, n, PageSize).next_cursor = next
  BY <1>5
<1> HIDE DEF start, end
<1> QED BY <1>1, <1>3, <1>4, <1>6

\* bidders(): a page read keeps what was read a beginning of the index.
LEMMA ReadPageKeeps ==
    ASSUME IInvContract, ExportShape, ExportSoundV1, ReadPage, UNCHANGED contractVars
    PROVE  ExportShape' /\ ExportSoundV1'
<1> PICK r \in RoundId : r = export.rid
  BY DEF ReadPage, ExportShape, Reading
<1>1. /\ StoredV1(r) /\ ReadInOrderV1 /\ Reading("pages")
      /\ export.taken = 0 /\ export.cursor = Len(export.bidders)
  BY DEF ReadPage, ExportShape, ExportSoundV1, ExportedV1, ReadInOrderV1
<1>2. PICK index \in Seq(Account) : index = roundV1[r].bidders
  BY <1>1, StoredRecordV1 DEF IInvContract
<1>3. PICK s \in Seq(Account) : s = export.bidders
  BY DEF ExportShape
<1>4. PICK page : page = BiddersPage(r, export.cursor, PageSize)
  OBVIOUS
<1>5. Begins(s, index) /\ Len(s) <= Len(index) /\ export.cursor = Len(s)
  BY <1>1, <1>2, <1>3 DEF ReadInOrderV1, Begins
<1>6. PICK n \in Nat : n = Len(s)
  OBVIOUS
<1>7. page = BiddersPage(r, n, PageSize) /\ n <= Len(index)
  BY <1>4, <1>5, <1>6
<1>8. PICK m \in Nat : /\ Len(s) <= m /\ m <= Len(index)
                       /\ page.data = SubSeq(index, Len(s) + 1, m)
                       /\ page.next_cursor = IF m < Len(index) THEN m ELSE 0
                       /\ m < Len(index) => m > 0
  BY <1>2, <1>6, <1>7, PageEnds
<1>9. PICK more : more = s \o page.data
  OBVIOUS
<1>10. more \in Seq(Account) /\ Len(more) = m /\ Begins(more, index)
  <2>1. more = WithPage(s, index, m)
    BY <1>8, <1>9 DEF WithPage
  <2> QED BY <1>5, <1>8, <2>1, PageGoesOn
<1>11. export' = [export EXCEPT !.bidders = more, !.cursor = page.next_cursor,
                               !.phase = IF page.next_cursor = 0 THEN "bids" ELSE "pages"]
  BY <1>1, <1>3, <1>4, <1>9 DEF ReadPage, NextPage, Reading
<1>12. /\ DOMAIN export' = ExportFields /\ export'.bidders = more
       /\ export'.cursor = page.next_cursor
       /\ export'.phase = IF page.next_cursor = 0 THEN "bids" ELSE "pages"
       /\ export'.parts = export.parts /\ export'.taken = 0 /\ export'.rid = r
       /\ export'.round = export.round /\ export'.before = export.before
  BY <1>1, <1>11 DEF ExportShape, ExportFields, NoExport
<1>13. roundV1' = roundV1 /\ bidV1' = bidV1
  BY DEF contractVars, storageV1
<1>14. ExportShape'
  <2>1. export'.taken \in 0 .. Len(export'.bidders) /\ export'.bidders \in Seq(Account)
    BY <1>10, <1>12
  <2>2. StoredV1(r)'
    BY <1>1, <1>13 DEF StoredV1
  <2>3. DOMAIN export'.parts = Account
    BY <1>12 DEF ExportShape
  <2>4. export'.phase \in {"bids", "pages"}
    BY <1>12
  <2> QED BY <1>12, <2>1, <2>2, <2>3, <2>4 DEF ExportShape, Reading
<1>15. export'.phase # "pages" => Len(export.round.bidders) <= Len(more)
  <2>1. Len(export.round.bidders) <= Len(index)
    BY <1>1, <1>2 DEF ReadInOrderV1, OnwardV1, Begins
  <2>2. export'.phase # "pages" => m = Len(index)
    BY <1>2, <1>8, <1>12
  <2> QED BY <1>10, <2>1, <2>2
<1>16. export'.phase = "pages" => export'.cursor = Len(more)
  BY <1>8, <1>10, <1>12
<1>17. ReadInOrderV1'
  <2>1. 1 .. export'.taken = {}
    BY <1>12
  <2>2. Begins(export'.bidders, roundV1'[r].bidders)
    BY <1>2, <1>10, <1>12, <1>13
  <2>3. /\ export.round \in RoundRecordV1 /\ export.before = export.round
        /\ OnwardV1(export.round, roundV1'[r])
    BY <1>1, <1>13 DEF ReadInOrderV1
  <2> QED BY <1>12, <1>15, <1>16, <2>1, <2>2, <2>3 DEF ReadInOrderV1, Reading
<1> QED BY <1>14, <1>17 DEF ExportSoundV1

\* getBid: what is read of a bid opens its commitment.
LEMMA ReadBidKeeps ==
    ASSUME IInvContract, ExportShape, ExportSoundV1, ReadBid, UNCHANGED contractVars
    PROVE  ExportShape' /\ ExportSoundV1'
<1> PICK r \in RoundId : r = export.rid
  BY DEF ReadBid, ExportShape, Reading
<1>1. StoredV1(r) /\ ReadInOrderV1 /\ Reading("bids")
  BY DEF ReadBid, ExportShape, ExportSoundV1, ExportedV1
<1>2. roundV1' = roundV1 /\ bidV1' = bidV1
  BY DEF contractVars, storageV1
<1>3. CASE AllTaken
  <2>1. export' = [export EXCEPT !.phase = "done"]
    BY <1>3 DEF ReadBid, FinishExport
  <2>2. /\ DOMAIN export' = ExportFields /\ export'.phase = "done"
        /\ \A f \in ExportFields \ {"phase"} : export'[f] = export[f]
    BY <2>1 DEF ExportShape
  <2>3. /\ export'.bidders = export.bidders /\ export'.parts = export.parts
        /\ export'.taken = export.taken /\ export'.rid = r
        /\ export'.round = export.round /\ export'.before = export.before
    BY <2>2 DEF ExportFields, NoExport
  <2>4. ExportShape'
    BY <1>1, <1>2, <1>3, <2>2, <2>3 DEF ExportShape, Reading, StoredV1, AllTaken
  <2>5. ReadInOrderV1'
    BY <1>1, <1>2, <2>2, <2>3 DEF ReadInOrderV1, Reading, BidRead, HasBid
  <2> QED BY <2>4, <2>5 DEF ExportSoundV1
<1>4. CASE ~ AllTaken
  <2> PICK b : b = export.bidders[export.taken + 1]
    OBVIOUS
  <2> PICK record : record = bidV1[r]
    OBVIOUS
  <2>0. TakePart(record)
    BY <1>1, <1>4 DEF ReadBid
  <2>1. /\ export.taken + 1 \in 1 .. Len(export.bidders) /\ b \in Account
        /\ DOMAIN export' = ExportFields /\ DOMAIN export'.parts = Account
        /\ \A f \in ExportFields \ {"parts", "taken"} : export'[f] = export[f]
        /\ export'.taken = export.taken + 1
        /\ export'.parts[b] = record[b]
        /\ \A x \in Account \ {b} : export'.parts[x] = export.parts[x]
    BY <1>4, <2>0, TakePartKeeps
  <2>2. /\ export'.bidders = export.bidders /\ export'.phase = "bids" /\ export'.rid = r
        /\ export'.round = export.round /\ export'.before = export.before
        /\ export'.cursor = export.cursor
    BY <1>1, <2>1 DEF ExportFields, NoExport, Reading
  <2>3. ExportShape'
    BY <1>1, <1>2, <2>1, <2>2 DEF ExportShape, Reading, StoredV1
  <2>4. HasBid(r, b)
    <3>1. b \in Range(roundV1[r].bidders)
      BY <1>1, <2>1, StoredRecordV1 DEF ReadInOrderV1, Begins, Range, IInvContract, ExportShape
    <3> QED BY <1>1, <3>1 DEF IInvContract, IInvV1, RoundInvV1, IndexSoundV1
  <2>5. BidRead(b)'
    <3>1. record[b] \in BidState /\ BidSoundV1(r, b)
      BY <1>1, <2>1, <2>4 DEF IInvContract, IInvV1, ShapeV1, RoundInvV1, HasBid
    <3> QED BY <1>2, <2>1, <2>2, <2>4, <3>1 DEF BidRead, BidSoundV1, BidOf, HasBid
  <2>6. ASSUME NEW i \in 1 .. export'.taken PROVE BidRead(export.bidders[i])'
    <3> PICK c : c = export.bidders[i]
      OBVIOUS
    <3>0. BidRead(c)'
      <4>1. CASE c = b
        BY <2>5, <4>1
      <4>2. CASE c # b
        <5>1. i \in 1 .. export.taken
          BY <2>1, <2>6, <4>2 DEF ExportShape
        <5>2. BidRead(c) /\ c \in Account
          BY <1>1, <5>1 DEF ReadInOrderV1, ExportShape
        <5> QED BY <1>2, <2>1, <2>2, <4>2, <5>2 DEF BidRead, HasBid
      <4> QED BY <4>1, <4>2
    <3> QED BY <2>2, <3>0
  <2>7. ReadInOrderV1'
    BY <1>1, <1>2, <2>2, <2>6 DEF ReadInOrderV1, Reading
  <2> QED BY <2>3, <2>7 DEF ExportSoundV1
<1> QED BY <1>3, <1>4

\* A new export has read the round, and nothing else yet.
LEMMA StartKeepsV1 ==
    ASSUME IInvContract, ExportShape, NEW r \in RoundId, StartExportV1(r),
           UNCHANGED contractVars
    PROVE  ExportShape' /\ ExportSoundV1'
<1>1. StoredV1(r) /\ export = NoExport /\ roundV1' = roundV1
  BY DEF StartExportV1, ExportShape, Reading, contractVars, storageV1
<1>2. /\ export'.phase = "pages" /\ export'.rid = r /\ export'.round = roundV1[r]
      /\ export'.before = roundV1[r] /\ export'.bidders = <<>> /\ export'.taken = 0
      /\ export'.cursor = 0 /\ DOMAIN export' = ExportFields
      /\ DOMAIN export'.parts = Account
  BY <1>1 DEF StartExportV1, NoExport, ExportFields
<1>3. ExportShape'
  BY <1>1, <1>2 DEF ExportShape, Reading, StoredV1
<1>4. /\ roundV1[r] \in RoundRecordV1 /\ roundV1[r].bidders \in Seq(Account)
  BY <1>1, StoredRecordV1 DEF IInvContract
<1>5. OnwardV1(roundV1[r], roundV1[r]) /\ Begins(<<>>, roundV1[r].bidders)
  <2>1. Begins(roundV1[r].bidders, roundV1[r].bidders)
    BY <1>4, BeginsItself
  <2>2. Begins(<<>>, roundV1[r].bidders)
    BY <1>4 DEF Begins
  <2> QED BY <2>1, <2>2 DEF OnwardV1
<1>6. Len(<<>>) = 0 /\ 1 .. 0 = {}
  OBVIOUS
<1>7. ReadInOrderV1'
  BY <1>1, <1>2, <1>4, <1>5, <1>6 DEF ReadInOrderV1, Reading
<1> QED BY <1>3, <1>7 DEF ExportSoundV1

\* The reads of exportReceiptV2 are of a round of the other family.
StepV2 ==
    \/ \E r \in RoundId : StartExportV2(r)
    \/ \E read \in {"round", "bidders", "policy"} : AnswerBatch(read)
    \/ BatchComplete \/ ReadRevealState \/ ReadSubmission

\* exportReceiptV2 keeps the shape of an export.
LEMMA ShapeKeptV2 ==
    ASSUME IInvContract, ExportShape, StepV2, UNCHANGED contractVars
    PROVE  ExportShape' /\ Stored(export.rid)'
<1>1. roundV1' = roundV1 /\ roundV2' = roundV2
  BY DEF contractVars, storageV1, storageV2
<1>2. ASSUME NEW r \in RoundId, StartExportV2(r) PROVE ExportShape' /\ Stored(export.rid)'
  <2>1. export = NoExport /\ Stored(r)
    BY <1>2 DEF StartExportV2, ExportShape, Reading
  <2>2. /\ export'.phase = "batch" /\ export'.rid = r /\ export'.bidders = <<>>
        /\ export'.taken = 0 /\ DOMAIN export' = ExportFields
        /\ DOMAIN export'.parts = Account
    BY <1>2, <2>1 DEF StartExportV2, NoExport, ExportFields
  <2> QED BY <1>1, <2>1, <2>2 DEF ExportShape, Reading, Stored
<1>3. ASSUME NEW read \in {"round", "bidders", "policy"}, AnswerBatch(read)
      PROVE  ExportShape' /\ Stored(export.rid)'
  <2>1. Stored(export.rid) /\ export.rid \in RoundId /\ export.taken = 0
    BY <1>3 DEF AnswerBatch, ExportShape, Reading
  <2>2. roundV2[export.rid].bidders \in Seq(Account)
    BY <2>1 DEF IInvContract, IInvV2, TypeOKV2, Stored, RoundRecord
  <2>3. /\ export'.phase = "batch" /\ export'.rid = export.rid
        /\ export'.bidders = export.bidders \/ export'.bidders = roundV2[export.rid].bidders
        /\ export'.taken = 0 /\ DOMAIN export' = ExportFields
        /\ export'.parts = export.parts
    BY <1>3, <2>1 DEF AnswerBatch, ExportShape, ExportFields, NoExport, Reading
  <2> QED BY <1>1, <2>1, <2>2, <2>3 DEF ExportShape, Reading, Stored
<1>4. ASSUME BatchComplete \/ ReadRevealState PROVE ExportShape' /\ Stored(export.rid)'
  <2>1. Stored(export.rid) /\ export.rid \in RoundId
    BY <1>4 DEF BatchComplete, ReadRevealState, ExportShape, Reading
  <2>2. /\ export'.phase \in {"reveal", "submissions"} /\ export'.rid = export.rid
        /\ export'.bidders = export.bidders /\ export'.taken = export.taken
        /\ DOMAIN export' = ExportFields /\ export'.parts = export.parts
    BY <1>4 DEF BatchComplete, AfterBatch, ReadRevealState, ExportShape, ExportFields, NoExport
  <2> QED BY <1>1, <2>1, <2>2 DEF ExportShape, Reading, Stored
<1>5. ASSUME ReadSubmission PROVE ExportShape' /\ Stored(export.rid)'
  <2>1. Stored(export.rid) /\ export.rid \in RoundId /\ Reading("submissions")
    BY <1>5 DEF ReadSubmission, ExportShape, Reading
  <2>2. CASE AllTaken
    <3>1. /\ export'.phase = "done" /\ export'.rid = export.rid
          /\ export'.bidders = export.bidders /\ export'.taken = export.taken
          /\ DOMAIN export' = ExportFields /\ export'.parts = export.parts
      BY <1>5, <2>2 DEF ReadSubmission, FinishExport, ExportShape, ExportFields, NoExport
    <3> QED BY <1>1, <2>1, <2>2, <3>1 DEF ExportShape, Reading, Stored, AllTaken
  <2>3. CASE ~ AllTaken
    <3>0. TakePart(submissionV2[export.rid])
      BY <1>5, <2>3 DEF ReadSubmission
    <3>1. /\ export'.phase = "submissions" /\ export'.rid = export.rid
          /\ export'.bidders = export.bidders
          /\ export'.taken \in 0 .. Len(export.bidders)
          /\ DOMAIN export' = ExportFields /\ DOMAIN export'.parts = Account
      BY <2>1, <2>3, <3>0, TakePartKeeps DEF Reading, ExportFields, NoExport
    <3> QED BY <1>1, <2>1, <3>1 DEF ExportShape, Reading, Stored
  <2> QED BY <2>2, <2>3
<1> QED BY <1>2, <1>3, <1>4, <1>5 DEF StepV2

\* So nothing of a v1 export is touched.
LEMMA StepV2KeepsReadsV1 ==
    ASSUME IInvContract, ExportShape, StepV2, UNCHANGED contractVars
    PROVE  ExportSoundV1'
<1>1. ExportShape' /\ Stored(export.rid)' /\ IInvContract'
  BY ShapeKeptV2, NextIInvContract
<1>2. export'.phase # "idle" => export'.rid \in RoundId
  BY <1>1 DEF ExportShape, Reading
<1> QED BY <1>1, <1>2 DEF ExportSoundV1, ExportedV1, Reading, IInvContract, OneFamilyPerId

\* What the invariants are together, and that every step keeps them.
ExportInv == IInvContract /\ ExportShape /\ ExportSoundV1

\* Before any call there is no export.
LEMMA InitExport == InitDeployment => ExportInv
<1> SUFFICES ASSUME InitDeployment PROVE ExportInv
  OBVIOUS
<1>1. IInvContract
  BY InitIInvContract DEF InitDeployment
<1>2. /\ export.phase = "idle" /\ export = NoExport /\ export.bidders = <<>>
      /\ export.taken = 0 /\ DOMAIN export.parts = Account /\ DOMAIN export = ExportFields
  BY DEF InitDeployment, ExportInit, NoExport, ExportFields
<1>3. ExportShape
  BY <1>2 DEF ExportShape, Reading
<1> QED BY <1>1, <1>2, <1>3 DEF ExportInv, ExportSoundV1, ExportedV1, Reading

\* Calls and reads, in whatever order.
LEMMA NextExportInv == ExportInv /\ [NextDeployment]_deploymentVars => ExportInv'
<1> SUFFICES ASSUME ExportInv, [NextDeployment]_deploymentVars PROVE ExportInv'
  OBVIOUS
<1>1. [NextContract]_contractVars
  BY DEF NextDeployment, NextRounds, NextExport, deploymentVars
<1>2. IInvContract'
  BY <1>1, NextIInvContract DEF ExportInv
<1>3. CASE export' = export
  BY <1>1, <1>2, <1>3, CallKeepsShape, CallKeepsReadsV1 DEF ExportInv
<1>4. ASSUME ExportStep, UNCHANGED contractVars PROVE ExportShape' /\ ExportSoundV1'
  <2>1. ASSUME NEW r \in RoundId, StartExportV1(r) PROVE ExportShape' /\ ExportSoundV1'
    BY <1>4, <2>1, StartKeepsV1 DEF ExportInv
  <2>2. CASE ReadPage
    BY <1>4, <2>2, ReadPageKeeps DEF ExportInv
  <2>3. CASE ReadBid
    BY <1>4, <2>3, ReadBidKeeps DEF ExportInv
  <2>4. CASE StepV2
    BY <1>4, <2>4, ShapeKeptV2, StepV2KeepsReadsV1 DEF ExportInv
  <2> QED BY <1>4, <2>1, <2>2, <2>3, <2>4 DEF ExportStep, StepV2
<1> QED BY <1>2, <1>3, <1>4 DEF ExportInv, NextDeployment, NextRounds, NextExport, deploymentVars

---------------------------------------------------------------------------
(* From a finished export to the verdict on its receipt.                   *)

\* Of two beginnings of a sequence the shorter begins the longer.
LEMMA ShorterBegins ==
    ASSUME NEW S, NEW x \in Seq(S), NEW y \in Seq(S), NEW z \in Seq(S),
           Begins(x, z), Begins(y, z), Len(x) <= Len(y)
    PROVE  Begins(x, y)
<1>1. Len(x) \in Nat /\ Len(y) \in Nat /\ Len(z) \in Nat
  OBVIOUS
<1> QED BY <1>1 DEF Begins

\* A beginning in the sense of the module of sequences.
LEMMA BeginsIsPrefix ==
    ASSUME NEW S, NEW x \in Seq(S), NEW y \in Seq(S), Begins(x, y)
    PROVE  IsPrefix(x, y)
BY DEF Begins, IsPrefix

\* A beginning as long as the whole is the whole.
LEMMA BeginsWhole ==
    ASSUME NEW S, NEW x \in Seq(S), NEW y \in Seq(S), Begins(x, y), Len(y) <= Len(x)
    PROVE  x = y
BY DEF Begins

\* A beginning of an index without repetitions has none.
LEMMA BeginsInjective ==
    ASSUME NEW S, NEW x \in Seq(S), NEW y \in Seq(S), Begins(x, y), IsInjective(y)
    PROVE  IsInjective(x)
<1>1. \A i \in DOMAIN x : i \in DOMAIN y /\ x[i] = y[i]
  BY DEF Begins
<1> QED BY <1>1 DEF IsInjective

\* Two receipts list the same bidders, revealed and valid alike.
AlikeV1(x, y) ==
    /\ x.bidders = y.bidders
    /\ \A i \in DOMAIN x.bidders :
           LET b == x.bidders[i]
           IN  x.bids[b].revealed = y.bids[b].revealed /\ x.bids[b].valid = y.bids[b].valid

\* No more than that matters to the offers a verifier sees.
LEMMA SameOffersV1 ==
    ASSUME NEW x, NEW y, AlikeV1(x, y)
    PROVE  ComputedOffersV1(x) = ComputedOffersV1(y)
<1>1. ASSUME NEW i \in DOMAIN x.bidders
      PROVE  (LET bid == x.bids[x.bidders[i]]
              IN  IF bid.revealed # None /\ bid.valid THEN bid.revealed.value ELSE None)
             = (LET bid == y.bids[x.bidders[i]]
                IN  IF bid.revealed # None /\ bid.valid THEN bid.revealed.value ELSE None)
  BY DEF AlikeV1
<1> QED BY <1>1 DEF AlikeV1, ComputedOffersV1

\* Whatever was called during the export, verifyReceipt accepts what it read.
LEMMA ExportSoundVerifiesV1 ==
    ASSUME ExportInv
    PROVE  ExportVerifiesV1
<1> SUFFICES ASSUME Reading("done"), StoredV1(export.rid)
             PROVE  /\ VerifyReceiptV1(ReceiptOfV1(export.round, export.bidders, export.parts))
                    /\ IsPrefix(export.before.bidders, export.bidders)
                    /\ IsPrefix(export.bidders, roundV1[export.rid].bidders)
  BY DEF ExportVerifiesV1, Exported
<1> PICK r \in RoundId : r = export.rid
  BY DEF ExportInv, ExportShape, Reading
<1>1. /\ StoredV1(r) /\ ReadInOrderV1 /\ IInvV1
      /\ export.taken = Len(export.bidders) /\ export.bidders \in Seq(Account)
  BY DEF ExportInv, ExportSoundV1, ExportedV1, ExportShape, IInvContract
<1> PICK index : index = roundV1[r].bidders
  OBVIOUS
<1> PICK listed : listed = export.bidders
  OBVIOUS
<1> PICK round \in RoundRecordV1 : round = export.round
  BY <1>1 DEF ReadInOrderV1
<1>2. /\ index \in Seq(Account) /\ listed \in Seq(Account) /\ round.bidders \in Seq(Account)
      /\ Begins(listed, index) /\ OnwardV1(round, roundV1[r])
      /\ Len(round.bidders) <= Len(listed) /\ export.before = round
  BY <1>1, StoredRecordV1 DEF ReadInOrderV1, RoundRecordV1, Reading
<1>3. Begins(round.bidders, listed)
  BY <1>2, ShorterBegins DEF OnwardV1
<1>4. ASSUME NEW b \in Range(listed) PROVE BidRead(b)
  <2>1. PICK i \in 1 .. Len(listed) : b = listed[i]
    BY <1>2 DEF Range
  <2> QED BY <1>1, <2>1 DEF ReadInOrderV1
<1> PICK receipt : receipt = ReceiptOfV1(round, listed, export.parts)
  OBVIOUS
<1>5. /\ receipt.round = round /\ receipt.bidders = listed
      /\ \A b \in Range(listed) : receipt.bids[b] = export.parts[b]
  BY DEF ReceiptOfV1
<1>6. IsInjective(listed)
  <2>1. IsInjective(index)
    BY <1>1 DEF IInvV1, RoundInvV1, IndexSoundV1
  <2> QED BY <1>2, <2>1, BeginsInjective
<1>7. ASSUME NEW b \in Range(listed)
      PROVE  /\ receipt.bids[b].escrow >= 0
             /\ receipt.bids[b].revealed # None =>
                    Sha256(receipt.bids[b].revealed) = receipt.bids[b].commitment
  BY <1>4, <1>5 DEF BidRead, BidState
<1>8. ASSUME round.winner # None
      PROVE  ComputedWinnerV1(receipt) = {round.winner}
  <2> PICK quiet : quiet = ReceiptOfV1(roundV1[r], index, bidV1[r])
    OBVIOUS
  <2>1. /\ quiet.round = roundV1[r] /\ quiet.bidders = index
        /\ \A b \in Range(index) : quiet.bids[b] = bidV1[r][b]
    BY DEF ReceiptOfV1
  <2>2. /\ roundV1[r].winner = round.winner /\ index = round.bidders
        /\ roundV1[r].clearing_rule = round.clearing_rule
    BY <1>2, <1>8 DEF OnwardV1
  <2>3. listed = index
    BY <1>2, <2>2, BeginsWhole
  <2>4. roundV1[r].status \in {"Cleared", "Settled"}
    BY <1>1, <1>8, <2>2, StoredRecordV1
  <2>5. ComputedWinnerV1(quiet) = {roundV1[r].winner}
    BY <1>1, <2>4, ReceiptSoundV1
  <2>6. ASSUME NEW b \in Range(listed)
        PROVE  /\ receipt.bids[b].revealed = quiet.bids[b].revealed
               /\ receipt.bids[b].valid = quiet.bids[b].valid
    <3>1. BidRead(b) /\ receipt.bids[b] = export.parts[b] /\ quiet.bids[b] = bidV1[r][b]
      BY <1>4, <1>5, <2>1, <2>3
    <3>2. export.round.winner # None
      BY <1>8
    <3> QED BY <3>1, <3>2 DEF BidRead
  <2>7. ComputedOffersV1(receipt) = ComputedOffersV1(quiet)
    <3>1. ASSUME NEW i \in DOMAIN listed
          PROVE  /\ receipt.bids[listed[i]].revealed = quiet.bids[listed[i]].revealed
                 /\ receipt.bids[listed[i]].valid = quiet.bids[listed[i]].valid
      BY <2>6 DEF Range
    <3>2. receipt.bidders = listed /\ quiet.bidders = listed
      BY <1>5, <2>1, <2>3
    <3>3. AlikeV1(receipt, quiet)
      BY ONLY <3>1, <3>2 DEF AlikeV1
    <3> QED BY <3>3, SameOffersV1
  <2> QED BY <1>5, <2>1, <2>2, <2>3, <2>5, <2>7 DEF ComputedWinnerV1
<1>9. VerifyReceiptV1(receipt)
  BY <1>5, <1>6, <1>7, <1>8 DEF VerifyReceiptV1
<1>10. IsPrefix(round.bidders, listed) /\ IsPrefix(listed, index)
  BY <1>2, <1>3, BeginsIsPrefix
<1> QED BY <1>2, <1>9, <1>10

\* exportReceipt reads the round first, then pages through the index and reads
\* one bid after the other while anybody commits, reveals, clears, settles or
\* voids: its receipt verifies all the same, and lists, once each, a beginning
\* of the bidder index with everybody who was in it when the export began.
THEOREM ExportsVerifyV1 == SpecDeployment => []ExportVerifiesV1
BY InitExport, NextExportInv, ExportSoundVerifiesV1, PTL DEF SpecDeployment

---------------------------------------------------------------------------
(* exportReceiptV2.                                                        *)

\* How far a round has come: its status, and before that of its index.
Rank(status) ==
    CASE status = "Open" -> 0 [] status = "Revealing" -> 1 [] status = "Cleared" -> 2
      [] OTHER -> 3

\* The record y comes later in the life of a round than x.
Later(x, y) ==
    \/ Rank(x.status) < Rank(y.status)
    \/ Rank(x.status) = Rank(y.status) /\ Len(x.bidders) < Len(y.bidders)

\* A call that leaves the record of round r leaves its terms, and the
\* submissions of a round that has a winner.
Unmoved(r) ==
    /\ roundV2'[r] = roundV2[r] /\ policyV2'[r] = policyV2[r] /\ revealV3'[r] = revealV3[r]
    /\ roundV2[r].status \in {"Cleared", "Settled"} => submissionV2'[r] = submissionV2[r]

\* What comes after a later record is later still.
LEMMA LaterTwice ==
    ASSUME NEW x \in RoundRecord, NEW y \in RoundRecord, NEW z \in RoundRecord,
           Later(x, y), Later(y, z)
    PROVE  Later(x, z)
<1>1. /\ Len(x.bidders) \in Nat /\ Len(y.bidders) \in Nat /\ Len(z.bidders) \in Nat
      /\ Rank(x.status) \in Nat /\ Rank(y.status) \in Nat /\ Rank(z.status) \in Nat
  BY DEF RoundRecord, Rank
<1> QED BY <1>1 DEF Later

\* No record comes later than itself.
LEMMA LaterDiffers ==
    ASSUME NEW x \in RoundRecord, NEW y \in RoundRecord, Later(x, y)
    PROVE  x # y
<1>1. Len(x.bidders) \in Nat /\ Rank(x.status) \in Nat
  BY DEF RoundRecord, Rank
<1> QED BY <1>1 DEF Later

\* commit_v2 overwrites a submission or lets the index grow.
LEMMA CommitMovesOnV2 ==
    ASSUME IInvV2, NEW r \in RoundId, NEW b \in Account, NEW e \in Envelope,
           NEW escrow \in EscrowV2, CommitV2(r, b, e, escrow)
    PROVE  Unmoved(r) \/ Later(roundV2[r], roundV2'[r])
<1>1. /\ roundV2[r] \in RoundRecord /\ roundV2[r].status = "Open"
      /\ policyV2' = policyV2 /\ revealV3' = revealV3
      /\ roundV2'[r] = [roundV2[r] EXCEPT !.bidders = IndexWith(r, b)]
  BY DEF CommitV2, Stored, IInvV2, TypeOKV2
<1>2. CASE Committed(r, b)
  <2>1. roundV2'[r] = roundV2[r]
    BY <1>1, <1>2 DEF IndexWith, RoundRecord
  <2> QED BY <1>1, <2>1 DEF Unmoved
<1>3. CASE ~ Committed(r, b)
  <2>1. roundV2[r].bidders \in Seq(Account)
    BY <1>1 DEF RoundRecord
  <2>2. Len(IndexWith(r, b)) = Len(roundV2[r].bidders) + 1
    BY <1>3, <2>1 DEF IndexWith
  <2>3. roundV2'[r].bidders = IndexWith(r, b) /\ roundV2'[r].status = roundV2[r].status
    BY <1>1 DEF RoundRecord
  <2>4. Rank(roundV2'[r].status) = Rank(roundV2[r].status)
    BY <2>3
  <2> QED BY <2>1, <2>2, <2>3, <2>4 DEF Later
<1> QED BY <1>2, <1>3

\* A step that moves the status of round s on, and settles or keeps its
\* submissions.
EndsWith(s, status) ==
    /\ policyV2' = policyV2 /\ revealV3' = revealV3
    /\ roundV2' = [roundV2 EXCEPT ![s].status = status]
    /\ Rank(roundV2[s].status) < Rank(status)
    /\ submissionV2' = AllSettled(s) \/ submissionV2' = submissionV2

\* Voiding is one.
LEMMA VoidEnds ==
    ASSUME NEW s \in RoundId, roundV2[s].status \in {"Open", "Revealing"}, VoidRound(s),
           policyV2' = policyV2, revealV3' = revealV3
    PROVE  EndsWith(s, "Voided")
<1>1. submissionV2' = AllSettled(s) \/ submissionV2' = submissionV2
  BY DEF VoidRound, RefundAllV2
<1>2. roundV2' = [roundV2 EXCEPT ![s].status = "Voided"]
  BY DEF VoidRound
<1> QED BY <1>1, <1>2 DEF EndsWith, Rank

\* Such a step leaves the other rounds alone.
LEMMA EndMovesOnV2 ==
    ASSUME IInvV2, NEW s \in RoundId, Stored(s), NEW status \in Status, EndsWith(s, status),
           NEW r \in RoundId
    PROVE  Unmoved(r) \/ Later(roundV2[r], roundV2'[r])
<1>1. CASE s = r
  <2>1. roundV2'[r].status = status
    BY <1>1, StatusKeepsTerms DEF IInvV2, EndsWith
  <2> QED BY <1>1, <2>1 DEF EndsWith, Later
<1>2. CASE s # r
  <2>1. submissionV2'[r] = submissionV2[r]
    BY <1>2, EndKeepsOthers DEF EndsWith
  <2> QED BY <1>2, <2>1 DEF EndsWith, Unmoved, IInvV2, TypeOKV2
<1> QED BY <1>1, <1>2

\* Every v2 or v3 call leaves a stored round alone or moves it on.
LEMMA CallMovesOnV2 ==
    ASSUME IInvV2, CallV2, NEW r \in RoundId, Stored(r)
    PROVE  Unmoved(r) \/ Later(roundV2[r], roundV2'[r])
<1>1. ASSUME NEW op \in Account, NEW q \in RequestV2,
             CreateRoundV2(op, q) \/ CreatePartnerRoundV2(op, q) \/ CreateRoundV3(op, q)
      PROVE  Unmoved(r)
  <2>1. roundCounter \in Nat /\ r \in Nat /\ r <= roundCounter
    BY DEF IInvV2, TypeOKV2, LedgerTypeOK, Counted, RoundId
  <2>2. NextRoundId # r
    BY <2>1 DEF NextRoundId
  <2>3. PICK policy, version, reveal : CreateRoundV2Impl(op, q, policy, version, reveal)
    BY <1>1 DEF CreateRoundV2, CreatePartnerRoundV2, CreateRoundV3
  <2> QED BY <2>2, <2>3 DEF CreateRoundV2Impl, Unmoved, IInvV2, TypeOKV2
<1>2. ASSUME NEW s \in RoundId, NEW b \in Account, NEW e \in Envelope, NEW x \in EscrowV2,
             CommitV2(s, b, e, x)
      PROVE  Unmoved(r) \/ Later(roundV2[r], roundV2'[r])
  <2>1. CASE s = r
    BY <1>2, <2>1, CommitMovesOnV2
  <2>2. CASE s # r
    BY <1>2, <2>2 DEF CommitV2, Unmoved, IInvV2, TypeOKV2
  <2> QED BY <2>1, <2>2
<1>3. ASSUME NEW s \in RoundId, NEW c \in Account, OpenRevealV2(s, c)
      PROVE  Unmoved(r) \/ Later(roundV2[r], roundV2'[r])
  <2>1. CASE s = r
    <3>1. roundV2[r].status = "Open" /\ roundV2'[r].status = "Revealing"
      BY <1>3, <2>1, StatusKeepsTerms DEF OpenRevealV2, IInvV2, Status
    <3> QED BY <3>1 DEF Later, Rank
  <2>2. CASE s # r
    BY <1>3, <2>2 DEF OpenRevealV2, Unmoved, IInvV2, TypeOKV2
  <2> QED BY <2>1, <2>2
<1>4. ASSUME NEW s \in RoundId, NEW b \in Account, NEW e \in Envelope, RevealV2(s, b, e)
      PROVE  Unmoved(r)
  BY <1>4 DEF RevealV2, Unmoved, IInvV2, TypeOKV2
<1>5. ASSUME NEW s \in RoundId, ClearV2(s)
      PROVE  Unmoved(r) \/ Later(roundV2[r], roundV2'[r])
  <2>1. Stored(s) /\ roundV2[s].status = "Revealing" /\ policyV2' = policyV2
        /\ revealV3' = revealV3
    BY <1>5 DEF ClearV2
  <2>2. CASE FinalizeReceiptOnly(s)
    <3>1. EndsWith(s, "Settled")
      BY <2>1, <2>2 DEF FinalizeReceiptOnly, EndsWith, Rank
    <3> QED BY <2>1, <3>1, EndMovesOnV2 DEF Status
  <2>3. CASE VoidForNoValidBid(s)
    <3>1. EndsWith(s, "Voided")
      BY <2>1, <2>3, VoidEnds DEF VoidForNoValidBid
    <3> QED BY <2>1, <3>1, EndMovesOnV2 DEF Status
  <2>4. CASE SelectWinner(s)
    <3>1. roundV2'[s].status = "Cleared" /\ OthersKept(s)
      BY <1>5, <2>4, SelectKeepsTerms
    <3> QED BY <2>1, <3>1 DEF Later, Rank, OthersKept, Unmoved
  <2> QED BY <1>5, <2>2, <2>3, <2>4 DEF ClearV2
<1>6. ASSUME NEW s \in RoundId, SettleV2(s) PROVE Unmoved(r) \/ Later(roundV2[r], roundV2'[r])
  <2>0. /\ Stored(s) /\ roundV2[s].status = "Cleared" /\ submissionV2' = AllSettled(s)
        /\ policyV2' = policyV2 /\ revealV3' = revealV3
        /\ roundV2' = [roundV2 EXCEPT ![s].status = "Settled"]
    BY <1>6 DEF SettleV2
  <2>1. Stored(s) /\ EndsWith(s, "Settled")
    BY <2>0 DEF EndsWith, Rank
  <2> QED BY <2>1, EndMovesOnV2 DEF Status
<1>7. ASSUME NEW s \in RoundId, VoidV2(s) PROVE Unmoved(r) \/ Later(roundV2[r], roundV2'[r])
  <2>0. /\ Stored(s) /\ roundV2[s].status = "Open" /\ VoidRound(s)
        /\ policyV2' = policyV2 /\ revealV3' = revealV3
    BY <1>7 DEF VoidV2
  <2>1. Stored(s) /\ EndsWith(s, "Voided")
    BY <2>0, VoidEnds
  <2> QED BY <2>1, EndMovesOnV2 DEF Status
<1> QED BY <1>1, <1>2, <1>3, <1>4, <1>5, <1>6, <1>7 DEF CallV2

\* Any call, of any family.
LEMMA ContractMovesOnV2 ==
    ASSUME IInvContract, [NextContract]_contractVars, NEW r \in RoundId, Stored(r)
    PROVE  Unmoved(r) \/ Later(roundV2[r], roundV2'[r])
<1>1. CASE CallV2
  BY <1>1, CallMovesOnV2 DEF IInvContract
<1>2. CASE UNCHANGED storageV2
  BY <1>2 DEF Unmoved, storageV2
<1> QED BY <1>1, <1>2 DEF NextContract, contractVars

\* The evidence is kept by calls of any family.
LEMMA ContractKeepsEvidence ==
    ASSUME IInvContract, EvidenceKept, [NextContract]_contractVars
    PROVE  EvidenceKept'
<1>1. CASE CallV2
  BY <1>1, CallEvident DEF IInvContract
<1>2. CASE UNCHANGED storageV2
  BY <1>2, EvidentFrame DEF EvidenceKept, storageV2
<1> QED BY <1>1, <1>2 DEF NextContract, contractVars

\* A submission as it was when it was read: admitted by the policy and opened
\* by what it revealed, and what is stored if the round has a winner.
PartFits(b) ==
    LET part == export.parts[b]
        round == roundV2[export.rid]
        policy == policyV2[export.rid]
    IN  /\ policy # None /\ round.mode = "Auction" => part.escrow = policy.fixed_escrow
        /\ part.revealed_envelope # None =>
               /\ Sha256(part.revealed_envelope) = part.commitment
               /\ part.revealed_envelope.decodes
               /\ part.revealed_envelope.amount = part.revealed_amount
        /\ part.valid => part.revealed_envelope # None
        /\ part.valid /\ round.mode = "Auction" =>
               part.escrow \in Nat /\ part.revealed_amount \in 1 .. part.escrow
        /\ round.status \in {"Cleared", "Settled"} => part = submissionV2[export.rid][b]

\* What the reads answered, if the round is as it was before the first.
AnswersFit ==
    LET r == export.rid
    IN  /\ "round" \notin export.due => export.round = roundV2[r]
        /\ "bidders" \notin export.due => export.bidders = roundV2[r].bidders
        /\ "policy" \notin export.due => export.policy = policyV2[r]
        /\ (Reading("submissions") \/ Reading("done")) /\ roundV2[r].protocol_version = 3 =>
               export.reveal = revealV3[r]
        /\ \A i \in 1 .. export.taken : PartFits(export.bidders[i])

\* The round is where it was when the export began, and what was read is
\* what it is; or it has moved on and will not come back.
ReadInOrderV2 ==
    LET r == export.rid
    IN  /\ export.before \in RoundRecord
        /\ roundV2[r] = export.before \/ Later(export.before, roundV2[r])
        /\ ~ Reading("batch") => export.due = {}
        /\ roundV2[r] = export.before => AnswersFit

ExportedV2 == Reading("batch") \/ Reading("reveal") \/ Reading("submissions") \/ Reading("done")

ExportSoundV2 == ExportedV2 /\ Stored(export.rid) => ReadInOrderV2

\* A call during the export leaves the round, and what was read fits, or moves
\* it on for good.
LEMMA CallKeepsReadsV2 ==
    ASSUME IInvContract, [NextContract]_contractVars, ExportShape, ExportSoundV2,
           export' = export
    PROVE  ExportSoundV2'
<1> SUFFICES ASSUME ExportedV2, Stored(export.rid)' PROVE ReadInOrderV2'
  BY DEF ExportSoundV2, ExportedV2, Reading
<1> PICK r \in RoundId : r = export.rid
  BY DEF ExportedV2, ExportShape, Reading
<1>1. Stored(r)
  BY ContractKeepsFamily DEF ExportedV2, ExportShape, Reading
<1>2. ReadInOrderV2 /\ IInvContract' /\ (Unmoved(r) \/ Later(roundV2[r], roundV2'[r]))
  BY <1>1, ContractMovesOnV2, NextIInvContract DEF ExportSoundV2
<1>3. roundV2[r] \in RoundRecord /\ roundV2'[r] \in RoundRecord
  BY <1>1, <1>2 DEF IInvContract, IInvV2, TypeOKV2, Stored
<1>4. CASE Later(roundV2[r], roundV2'[r])
  <2>1. Later(export.before, roundV2'[r])
    BY <1>2, <1>3, <1>4, LaterTwice DEF ReadInOrderV2
  <2>2. roundV2'[r] # export.before
    BY <1>2, <1>3, <2>1, LaterDiffers DEF ReadInOrderV2
  <2> QED BY <1>2, <2>1, <2>2 DEF ReadInOrderV2, Reading
<1>5. CASE Unmoved(r)
  <2>1. ASSUME AnswersFit PROVE AnswersFit'
    <3>1. ASSUME NEW i \in 1 .. export.taken PROVE PartFits(export.bidders[i])'
      <4> PICK b : b = export.bidders[i]
        OBVIOUS
      <4>1. PartFits(b)
        BY <2>1 DEF AnswersFit
      <4>2. PartFits(b)'
        BY <1>5, <4>1 DEF PartFits, Unmoved
      <4> QED BY <4>2
    <3> QED BY <1>5, <2>1, <3>1 DEF AnswersFit, Unmoved, Reading
  <2> QED BY <1>2, <1>5, <2>1 DEF ReadInOrderV2, Unmoved, Reading
<1> QED BY <1>2, <1>4, <1>5

\* A new export has read nothing yet.
LEMMA StartKeepsV2 ==
    ASSUME IInvContract, ExportShape, NEW r \in RoundId, StartExportV2(r), UNCHANGED contractVars
    PROVE  ExportSoundV2'
<1>1. Stored(r) /\ export = NoExport /\ roundV2' = roundV2
  BY DEF StartExportV2, ExportShape, Reading, contractVars, storageV2
<1>2. /\ export'.phase = "batch" /\ export'.rid = r /\ export'.before = roundV2[r]
      /\ export'.due = {"round", "bidders", "policy"} /\ export'.taken = 0
  BY <1>1 DEF StartExportV2, NoExport
<1>3. roundV2[r] \in RoundRecord
  BY <1>1 DEF IInvContract, IInvV2, TypeOKV2, Stored
<1>4. AnswersFit'
  <2>1. 1 .. export'.taken = {}
    BY <1>2
  <2> QED BY <1>2, <2>1 DEF AnswersFit, Reading
<1> QED BY <1>1, <1>2, <1>3, <1>4 DEF ExportSoundV2, ReadInOrderV2, Reading

\* One answer of the batch.
LEMMA AnswerKeepsV2 ==
    ASSUME IInvContract, ExportShape, ExportSoundV2,
           NEW read \in {"round", "bidders", "policy"}, AnswerBatch(read), UNCHANGED contractVars
    PROVE  ExportSoundV2'
<1> PICK r \in RoundId : r = export.rid
  BY DEF AnswerBatch, ExportShape, Reading
<1>1. Stored(r) /\ ReadInOrderV2 /\ Reading("batch") /\ export.taken = 0
  BY DEF AnswerBatch, ExportShape, ExportSoundV2, ExportedV2, Reading
<1>2. roundV2' = roundV2 /\ policyV2' = policyV2
  BY DEF contractVars, storageV2
<1>3. /\ export'.phase = "batch" /\ export'.rid = r /\ export'.before = export.before
      /\ export'.due = export.due \ {read} /\ export'.taken = 0
      /\ export'.round = IF read = "round" THEN roundV2[r] ELSE export.round
      /\ export'.bidders = IF read = "bidders" THEN roundV2[r].bidders ELSE export.bidders
      /\ export'.policy = IF read = "policy" THEN policyV2[r] ELSE export.policy
  BY <1>1 DEF AnswerBatch, ExportShape, ExportFields, NoExport, Reading
<1>4. ASSUME AnswersFit PROVE AnswersFit'
  <2>1. 1 .. export'.taken = {}
    BY <1>3
  <2> QED BY <1>2, <1>3, <1>4, <2>1 DEF AnswersFit, Reading
<1> QED BY <1>1, <1>2, <1>3, <1>4 DEF ExportSoundV2, ReadInOrderV2, Reading

\* The batch is complete, and a v3 round has a reveal state to read.
LEMMA BatchKeepsV2 ==
    ASSUME IInvContract, ExportShape, ExportSoundV2, BatchComplete \/ ReadRevealState,
           UNCHANGED contractVars
    PROVE  ExportSoundV2'
<1> PICK r \in RoundId : r = export.rid
  BY DEF BatchComplete, ReadRevealState, ExportShape, Reading
<1>1. Stored(r) /\ ReadInOrderV2 /\ export.due = {}
  BY DEF BatchComplete, ReadRevealState, ExportShape, ExportSoundV2, ExportedV2, ReadInOrderV2,
         Reading
<1>2. /\ roundV2' = roundV2 /\ policyV2' = policyV2 /\ revealV3' = revealV3
      /\ submissionV2' = submissionV2
  BY DEF contractVars, storageV2
<1>3. /\ \A f \in ExportFields \ {"phase", "reveal"} : export'[f] = export[f]
      /\ \/ export'.phase = "reveal"
         \/ export'.phase = "submissions" /\ export.round.protocol_version # 3
         \/ export'.phase = "submissions" /\ export'.reveal = revealV3[r]
  BY DEF BatchComplete, AfterBatch, ReadRevealState, ExportShape, ExportFields, NoExport
<1>4. /\ export'.rid = r /\ export'.before = export.before /\ export'.due = {}
      /\ export'.taken = export.taken /\ export'.bidders = export.bidders
      /\ export'.round = export.round /\ export'.policy = export.policy
      /\ export'.parts = export.parts
  BY <1>1, <1>3 DEF ExportFields, NoExport
<1>5. ASSUME AnswersFit PROVE AnswersFit'
  <2>1. ASSUME NEW i \in 1 .. export.taken PROVE PartFits(export.bidders[i])'
    <3> PICK b : b = export.bidders[i]
      OBVIOUS
    <3>1. PartFits(b)
      BY <1>5, <2>1 DEF AnswersFit
    <3>2. PartFits(b)'
      BY <1>2, <1>4, <3>1 DEF PartFits
    <3> QED BY <1>4, <3>2
  <2>2. export.round = roundV2[r]
    BY <1>1, <1>5 DEF AnswersFit
  <2> QED BY <1>1, <1>2, <1>3, <1>4, <1>5, <2>1, <2>2 DEF AnswersFit, Reading
<1> QED BY <1>1, <1>2, <1>3, <1>4, <1>5 DEF ExportSoundV2, ReadInOrderV2, Reading

\* getSubmission: what is read of a submission fits the round it belongs to.
LEMMA ReadSubmissionKeepsV2 ==
    ASSUME IInvContract, EvidenceKept, ExportShape, ExportSoundV2, ReadSubmission,
           UNCHANGED contractVars
    PROVE  ExportSoundV2'
<1> PICK r \in RoundId : r = export.rid
  BY DEF ReadSubmission, ExportShape, Reading
<1>1. Stored(r) /\ ReadInOrderV2 /\ export.due = {} /\ Reading("submissions")
  BY DEF ReadSubmission, ExportShape, ExportSoundV2, ExportedV2, ReadInOrderV2, Reading
<1>2. /\ roundV2' = roundV2 /\ policyV2' = policyV2 /\ revealV3' = revealV3
      /\ submissionV2' = submissionV2
  BY DEF contractVars, storageV2
<1>3. CASE AllTaken
  <2>1. export' = [export EXCEPT !.phase = "done"]
    BY <1>3 DEF ReadSubmission, FinishExport
  <2>2. /\ export'.phase = "done" /\ \A f \in ExportFields \ {"phase"} : export'[f] = export[f]
    BY <2>1 DEF ExportShape, ExportFields, NoExport
  <2>3. /\ export'.rid = r /\ export'.before = export.before /\ export'.due = {}
        /\ export'.taken = export.taken /\ export'.bidders = export.bidders
        /\ export'.round = export.round /\ export'.policy = export.policy
        /\ export'.parts = export.parts /\ export'.reveal = export.reveal
    BY <1>1, <2>2 DEF ExportFields, NoExport
  <2>4. ASSUME AnswersFit PROVE AnswersFit'
    <3>1. ASSUME NEW i \in 1 .. export.taken PROVE PartFits(export.bidders[i])'
      <4> PICK b : b = export.bidders[i]
        OBVIOUS
      <4>1. PartFits(b)
        BY <2>4, <3>1 DEF AnswersFit
      <4>2. PartFits(b)'
        BY <1>2, <2>3, <4>1 DEF PartFits
      <4> QED BY <2>3, <4>2
    <3> QED BY <1>1, <1>2, <2>2, <2>3, <2>4, <3>1 DEF AnswersFit, Reading
  <2> QED BY <1>1, <1>2, <2>2, <2>3, <2>4 DEF ExportSoundV2, ReadInOrderV2, Reading
<1>4. CASE ~ AllTaken
  <2> PICK b : b = export.bidders[export.taken + 1]
    OBVIOUS
  <2> PICK record : record = submissionV2[r]
    OBVIOUS
  <2>0. TakePart(record)
    BY <1>1, <1>4 DEF ReadSubmission
  <2>1. /\ export.taken + 1 \in 1 .. Len(export.bidders) /\ b \in Account
        /\ \A f \in ExportFields \ {"parts", "taken"} : export'[f] = export[f]
        /\ export'.taken = export.taken + 1
        /\ export'.parts[b] = record[b]
        /\ \A x \in Account \ {b} : export'.parts[x] = export.parts[x]
    BY <1>4, <2>0, TakePartKeeps
  <2>2. /\ export'.phase = "submissions" /\ export'.rid = r /\ export'.due = {}
        /\ export'.before = export.before /\ export'.bidders = export.bidders
        /\ export'.round = export.round /\ export'.policy = export.policy
        /\ export'.reveal = export.reveal
    BY <1>1, <2>1 DEF ExportFields, NoExport, Reading
  <2>3. ASSUME AnswersFit PROVE AnswersFit'
    <3>1. Committed(r, b)
      <4>1. export.bidders = roundV2[r].bidders
        BY <1>1, <2>3 DEF AnswersFit
      <4>2. b \in Range(roundV2[r].bidders)
        BY <2>1, <4>1 DEF Range, ExportShape
      <4> QED BY <1>1, <4>2 DEF IInvContract, IInvV2, RoundInv, IndexExact
    <3>2. /\ SubmissionEvident(r, b) /\ SubmissionSound(r, b)
          /\ submissionV2[r][b] \in SubmissionRecord
      BY <1>1, <2>1, <3>1 DEF EvidenceKept, Evident, IInvContract, IInvV2, RoundInv, TypeOKV2,
                              Committed
    <3>3. PartFits(b)'
      BY <1>2, <2>1, <2>2, <3>2 DEF PartFits, SubmissionEvident, SubmissionSound, SubmissionOf,
                                    SubmissionRecord
    <3>4. ASSUME NEW i \in 1 .. export'.taken PROVE PartFits(export.bidders[i])'
      <4> PICK c : c = export.bidders[i]
        OBVIOUS
      <4>0. PartFits(c)'
        <5>1. CASE c = b
          BY <3>3, <5>1
        <5>2. CASE c # b
          <6>1. i \in 1 .. export.taken
            BY <2>1, <3>4, <5>2 DEF ExportShape
          <6>2. PartFits(c) /\ c \in Account
            BY <2>3, <6>1 DEF AnswersFit, ExportShape
          <6> QED BY <1>2, <2>1, <2>2, <5>2, <6>2 DEF PartFits
        <5> QED BY <5>1, <5>2
      <4> QED BY <2>2, <4>0
    <3> QED BY <1>1, <1>2, <2>2, <2>3, <3>4 DEF AnswersFit, Reading
  <2> QED BY <1>1, <1>2, <2>2, <2>3 DEF ExportSoundV2, ReadInOrderV2, Reading
<1> QED BY <1>3, <1>4

\* The reads of exportReceipt are of a round of the other family.
StepV1 == (\E r \in RoundId : StartExportV1(r)) \/ ReadPage \/ ReadBid

\* So nothing of a v2 export is touched.
LEMMA StepV1KeepsReadsV2 ==
    ASSUME ExportInv, StepV1, UNCHANGED contractVars
    PROVE  ExportSoundV2'
<1>1. ExportShape' /\ IInvContract'
  BY StartKeepsV1, ReadPageKeeps, ReadBidKeeps, NextIInvContract DEF StepV1, ExportInv
<1>2. ASSUME NEW r \in RoundId, StartExportV1(r) PROVE ExportSoundV2'
  <2>1. export = NoExport
    BY <1>2 DEF StartExportV1, ExportInv, ExportShape
  <2>2. export'.phase = "pages"
    BY <1>2, <2>1 DEF StartExportV1, NoExport
  <2> QED BY <2>2 DEF ExportSoundV2, ExportedV2, Reading
<1>3. ASSUME ReadPage \/ ReadBid PROVE ExportSoundV2'
  <2>1. StoredV1(export.rid) /\ export.rid \in RoundId /\ DOMAIN export = ExportFields
    BY <1>3 DEF ReadPage, ReadBid, ExportInv, ExportShape, Reading
  <2>2. export'.rid = export.rid
    BY <1>3, <2>1 DEF ReadPage, ReadBid, FinishExport, TakePart, ExportFields, NoExport
  <2>3. ~ Stored(export.rid)'
    BY <1>1, <2>1, <2>2, ContractKeepsFamily DEF ExportInv, contractVars
  <2> QED BY <2>3 DEF ExportSoundV2
<1> QED BY <1>2, <1>3 DEF StepV1

\* Both exports, and the evidence that the receipts of v2 rounds rest on.
ExportInvV2 == ExportInv /\ EvidenceKept /\ ExportSoundV2

\* At first there is neither a round nor an export.
LEMMA InitExportV2 == InitDeployment => ExportInvV2
<1> SUFFICES ASSUME InitDeployment PROVE ExportInvV2
  OBVIOUS
<1>1. export.phase = "idle"
  BY DEF InitDeployment, ExportInit, NoExport
<1>2. EvidenceKept
  BY DEF InitDeployment, InitContract, StorageInitV2, EvidenceKept, Evident, Stored
<1> QED BY <1>1, <1>2, InitExport DEF ExportInvV2, ExportSoundV2, ExportedV2, Reading

\* Calls and reads, in whatever order.
LEMMA NextExportInvV2 == ExportInvV2 /\ [NextDeployment]_deploymentVars => ExportInvV2'
<1> SUFFICES ASSUME ExportInvV2, [NextDeployment]_deploymentVars PROVE ExportInvV2'
  OBVIOUS
<1>1. [NextContract]_contractVars
  BY DEF NextDeployment, NextRounds, NextExport, deploymentVars
<1>2. ExportInv' /\ EvidenceKept'
  BY <1>1, NextExportInv, ContractKeepsEvidence DEF ExportInvV2, ExportInv
<1>3. CASE export' = export
  BY <1>1, <1>2, <1>3, CallKeepsReadsV2 DEF ExportInvV2, ExportInv
<1>4. ASSUME ExportStep, UNCHANGED contractVars PROVE ExportSoundV2'
  <2>1. ASSUME NEW r \in RoundId, StartExportV2(r) PROVE ExportSoundV2'
    BY <1>4, <2>1, StartKeepsV2 DEF ExportInvV2, ExportInv
  <2>2. ASSUME NEW read \in {"round", "bidders", "policy"}, AnswerBatch(read)
        PROVE  ExportSoundV2'
    BY <1>4, <2>2, AnswerKeepsV2 DEF ExportInvV2, ExportInv
  <2>3. CASE BatchComplete \/ ReadRevealState
    BY <1>4, <2>3, BatchKeepsV2 DEF ExportInvV2, ExportInv
  <2>4. CASE ReadSubmission
    BY <1>4, <2>4, ReadSubmissionKeepsV2 DEF ExportInvV2, ExportInv
  <2>5. CASE StepV1
    BY <1>4, <2>5, StepV1KeepsReadsV2 DEF ExportInvV2
  <2> QED BY <1>4, <2>1, <2>2, <2>3, <2>4, <2>5 DEF ExportStep, StepV1
<1> QED BY <1>2, <1>3, <1>4 DEF ExportInvV2, NextDeployment, NextRounds, NextExport,
                                deploymentVars

---------------------------------------------------------------------------
(* From a finished exportReceiptV2 to the verdict on its receipt.          *)

\* Two receipts list the same bidders with the same valid amounts.
AlikeV2(x, y) ==
    /\ x.bidders = y.bidders
    /\ \A i \in DOMAIN x.bidders :
           x.submissions[x.bidders[i]] = y.submissions[x.bidders[i]]

\* No more than that matters to the winner a verifier computes.
LEMMA SameOffersV2 ==
    ASSUME NEW x, NEW y, AlikeV2(x, y)
    PROVE  ComputedOffers(x) = ComputedOffers(y)
<1>1. ASSUME NEW i \in DOMAIN x.bidders
      PROVE  (LET s == x.submissions[x.bidders[i]] IN IF s.valid THEN s.revealed_amount ELSE None)
             = (LET s == y.submissions[x.bidders[i]] IN IF s.valid THEN s.revealed_amount ELSE None)
  BY DEF AlikeV2
<1> QED BY <1>1 DEF AlikeV2, ComputedOffers

\* If the round is where it was when exportReceiptV2 began, verifyReceiptV2
\* accepts what was read, as it accepts what is stored.
LEMMA ExportSoundVerifiesV2 ==
    ASSUME ExportInvV2
    PROVE  StableExportVerifiesV2
<1> SUFFICES ASSUME Reading("done"), Stored(export.rid), roundV2[export.rid] = export.before,
                    ~ OpenedThenVoided(export.rid)
             PROVE  VerifyReceiptV2(ReceiptOf(export.round, export.bidders, export.policy,
                                              export.reveal, export.parts))
  BY DEF StableExportVerifiesV2, Exported
<1> PICK r \in RoundId : r = export.rid
  BY DEF ExportInvV2, ExportInv, ExportShape, Reading
<1>1. /\ IInvV2 /\ Evident(r) /\ Stored(r) /\ AnswersFit /\ export.due = {}
      /\ export.taken = Len(export.bidders)
  BY DEF ExportInvV2, ExportInv, IInvContract, EvidenceKept, ExportSoundV2, ExportedV2,
         ReadInOrderV2, ExportShape, Reading
<1> PICK round \in RoundRecord : round = roundV2[r]
  BY <1>1 DEF IInvV2, TypeOKV2, Stored
<1> PICK receipt : receipt = ReceiptOf(export.round, export.bidders, export.policy,
                                       export.reveal, export.parts)
  OBVIOUS
<1> PICK quiet : quiet = QuietReceipt(r)
  OBVIOUS
<1>2. /\ export.round = round /\ export.bidders = round.bidders /\ export.policy = policyV2[r]
      /\ round.protocol_version = 3 => export.reveal = revealV3[r]
  BY <1>1 DEF AnswersFit, Reading
<1>3. /\ receipt.version = round.protocol_version /\ receipt.round = round
      /\ receipt.enforced = (policyV2[r] # None) /\ receipt.bidders = round.bidders
      /\ receipt.fixedEscrow = IF policyV2[r] = None THEN None ELSE policyV2[r].fixed_escrow
      /\ receipt.eligible = IF policyV2[r] = None THEN <<>> ELSE policyV2[r].eligible_participants
      /\ round.protocol_version = 3 =>
            /\ receipt.fallbackAt = IF revealV3[r] = None THEN None ELSE revealV3[r].policy
            /\ receipt.openedAt = IF revealV3[r] = None THEN None ELSE revealV3[r].opened_at
      /\ \A b \in Range(round.bidders) : receipt.submissions[b] = export.parts[b]
  BY <1>2 DEF ReceiptOf, Evidence
<1>4. /\ quiet.version = round.protocol_version /\ quiet.round = round
      /\ quiet.enforced = (policyV2[r] # None) /\ quiet.bidders = round.bidders
      /\ quiet.fixedEscrow = IF policyV2[r] = None THEN None ELSE policyV2[r].fixed_escrow
      /\ quiet.eligible = IF policyV2[r] = None THEN <<>> ELSE policyV2[r].eligible_participants
      /\ quiet.fallbackAt = IF revealV3[r] = None THEN None ELSE revealV3[r].policy
      /\ quiet.openedAt = IF revealV3[r] = None THEN None ELSE revealV3[r].opened_at
      /\ \A b \in Range(round.bidders) : quiet.submissions[b] = submissionV2[r][b]
  BY DEF QuietReceipt, ReceiptOf, Evidence
<1>5. VerifyReceiptV2(quiet)
  BY <1>1, ReceiptSound
<1>6. ASSUME NEW b \in Range(round.bidders) PROVE PartFits(b)
  <2>1. PICK i \in 1 .. Len(export.bidders) : b = export.bidders[i]
    BY <1>2 DEF Range, RoundRecord
  <2> QED BY <1>1, <2>1 DEF AnswersFit
<1>7. RevealEvidenceOK(receipt)
  <2>1. RevealEvidenceOK(quiet)
    BY <1>5 DEF VerifyReceiptV2
  <2> QED BY <1>3, <1>4, <2>1 DEF RevealEvidenceOK, ExpectedOpening
<1>8. PolicyEvidenceOK(receipt)
  <2>1. PolicyEvidenceOK(quiet)
    BY <1>5 DEF VerifyReceiptV2
  <2>2. policyV2[r] # None /\ round.mode = "Auction" =>
          \A b \in Range(round.bidders) : receipt.submissions[b].escrow = receipt.fixedEscrow
    BY <1>3, <1>6 DEF PartFits
  <2> QED BY <1>3, <1>4, <2>1, <2>2 DEF PolicyEvidenceOK
<1>9. ASSUME NEW b \in Range(round.bidders)
      PROVE  SubmissionEvidenceOK(receipt, receipt.submissions[b])
  <2> PICK s : s = export.parts[b]
    OBVIOUS
  <2>1. /\ s.revealed_envelope # None => /\ Sha256(s.revealed_envelope) = s.commitment
                                         /\ s.revealed_envelope.decodes
                                         /\ s.revealed_envelope.amount = s.revealed_amount
        /\ s.valid => s.revealed_envelope # None
        /\ s.valid /\ round.mode = "Auction" =>
               s.escrow \in Nat /\ s.revealed_amount \in 1 .. s.escrow
    BY <1>6 DEF PartFits
  <2>2. round.status = "Settled" => s.settled
    <3>1. ASSUME round.status = "Settled" PROVE s = submissionV2[r][b] /\ Committed(r, b)
      BY <1>1, <1>6, <3>1 DEF PartFits, IInvV2, RoundInv, IndexExact
    <3>2. b \in Account
      BY DEF RoundRecord, Range
    <3> QED BY <1>1, <3>1, <3>2 DEF Evident, SubmissionEvident
  <2>3. s.valid /\ round.mode = "Auction" =>
          /\ s.revealed_envelope.amount # None
          /\ s.revealed_envelope.amount > 0 /\ s.revealed_envelope.amount <= s.escrow
    BY <2>1, NoneIsNoValue
  <2> QED BY <1>3, <2>1, <2>2, <2>3 DEF SubmissionEvidenceOK
<1>10. WinnerEvidenceOK(receipt)
  <2> SUFFICES ASSUME round.status \in {"Cleared", "Settled"} PROVE WinnerEvidenceOK(receipt)
    BY <1>3 DEF WinnerEvidenceOK
  <2>1. WinnerEvidenceOK(quiet)
    BY <1>5 DEF VerifyReceiptV2
  <2>2. ASSUME NEW b \in Range(round.bidders) PROVE receipt.submissions[b] = quiet.submissions[b]
    BY <1>3, <1>4, <1>6 DEF PartFits
  <2>3. ASSUME NEW i \in DOMAIN round.bidders
        PROVE  receipt.submissions[round.bidders[i]] = quiet.submissions[round.bidders[i]]
    BY <2>2 DEF Range
  <2>4. receipt.bidders = round.bidders /\ quiet.bidders = round.bidders
        /\ receipt.round = round /\ quiet.round = round
    BY <1>3, <1>4
  <2>5. AlikeV2(receipt, quiet)
    BY ONLY <2>3, <2>4 DEF AlikeV2
  <2>6. ComputedOffers(receipt) = ComputedOffers(quiet)
    BY <2>5, SameOffersV2
  <2> QED BY <2>1, <2>4, <2>6 DEF WinnerEvidenceOK
<1>11. /\ round.max_participants \in 1 .. MaxV2Participants /\ ModeEvidenceOK(round)
       /\ IsInjective(round.bidders)
  BY <1>4, <1>5 DEF VerifyReceiptV2
<1>12. VerifyReceiptV2(receipt)
  BY <1>3, <1>7, <1>8, <1>9, <1>10, <1>11 DEF VerifyReceiptV2
<1> QED BY <1>12

\* exportReceiptV2 reads the round, its index, its policy, its reveal state and
\* every submission while anybody may go on calling: unless a new bidder
\* committed, or somebody opened, cleared, settled or voided the round meanwhile,
\* verifyReceiptV2 accepts what it put together, however many submissions were
\* overwritten or revealed in between - a round opened and then voided excepted.
THEOREM ExportsVerifyV2 == SpecDeployment => []StableExportVerifiesV2
BY InitExportV2, NextExportInvV2, ExportSoundVerifiesV2, PTL DEF SpecDeployment
=============================================================================
