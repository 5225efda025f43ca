--------------------------- MODULE RoundV1_proofs ---------------------------
(***************************************************************************)
(* Safety of v1 rounds for every set of accounts, bids and requests, and   *)
(* every bound.                                                            *)
(***************************************************************************)
EXTENDS ReceiptsV1, RoundTypes_proofs

---------------------------------------------------------------------------
(* The inductive invariant, as a conjunction of named parts.               *)

\* Commits end before the beacon is due, and only clearing names a winner.
RecordSoundV1(r) ==
    /\ roundV1[r].commit_deadline < TimeOfRound(roundV1[r].reveal_round)
    /\ roundV1[r].status \in {"Open", "Revealing", "Voided"} =>
           roundV1[r].winner = None /\ roundV1[r].winning_bid = 0

\* Every bid has an escrow; a revealed one is what was committed, and valid
\* exactly when it is positive; the settled flag marks the ended rounds.
BidSoundV1(r, b) ==
    /\ BidOf(r, b).escrow > 0
    /\ BidOf(r, b).revealed # None =>
           /\ roundV1[r].status # "Open"
           /\ BidOf(r, b).commitment = Sha256(BidOf(r, b).revealed)
           /\ BidOf(r, b).revealed.value <= BidOf(r, b).escrow
    /\ BidOf(r, b).valid <=>
           BidOf(r, b).revealed # None /\ BidOf(r, b).revealed.value > 0
    /\ BidOf(r, b).settled <=> roundV1[r].status \in {"Settled", "Voided"}

\* Everything about round r that its own record and bids decide.
RoundInvV1(r) ==
    /\ IndexSoundV1(r)
    /\ StoredV1(r) => /\ RecordSoundV1(r)
                      /\ \A b \in Account : HasBid(r, b) => BidSoundV1(r, b)
                      /\ OutcomeSoundV1(r)

\* Rounds are stored under ids the counter has handed out.
CountedV1(r) == StoredV1(r) => r <= roundCounter

\* What is stored has the shape of its Rust types, and no balance is negative.
ShapeV1 ==
    /\ LedgerTypeOK
    /\ roundV1 \in [RoundId -> RoundRecordV1 \cup {None}]
    /\ bidV1 \in [RoundId -> [Account -> BidState \cup {None}]]

IInvV1 ==
    /\ ShapeV1
    /\ BeaconsDue
    /\ \A r \in RoundId : CountedV1(r) /\ RoundInvV1(r)

\* A step never removes a round.
StoredStaysV1 == \A s \in RoundId : StoredV1(s) => StoredV1(s)'

---------------------------------------------------------------------------
(* Facts about the operators the actions are built from.                   *)

\* Option::None is distinct from every stored value.
LEMMA NoneIsNoValueV1 ==
    /\ None \notin Account /\ None \notin Int
    /\ None \notin Preimage /\ None \notin RoundRecordV1 /\ None \notin BidState
BY RoundTypesAssumption, RoundV1Assumption

\* What round r is does not depend on the other rounds.
LEMMA FrameV1 ==
    ASSUME NEW s \in RoundId, RoundInvV1(s),
           roundV1'[s] = roundV1[s], bidV1'[s] = bidV1[s]
    PROVE  RoundInvV1(s)'
<1>1. IndexSoundV1(s)'
  BY DEF RoundInvV1, IndexSoundV1, StoredV1, HasBid
<1>2. StoredV1(s)' => RecordSoundV1(s)'
  BY DEF RoundInvV1, RecordSoundV1, StoredV1
<1>3. StoredV1(s)' => \A b \in Account : HasBid(s, b)' => BidSoundV1(s, b)'
  BY DEF RoundInvV1, BidSoundV1, BidOf, StoredV1, HasBid
<1>4. StoredV1(s)' => OutcomeSoundV1(s)'
  BY DEF RoundInvV1, OutcomeSoundV1, UnbeatenV1, RevealedV1, AmountV1, BidAtV1, BidOf, StoredV1
<1> QED BY <1>1, <1>2, <1>3, <1>4 DEF RoundInvV1

\* What a step stores for round r is there afterwards, and nothing else is new.
LEMMA PlaceV1 ==
    ASSUME ShapeV1, NEW r \in RoundId, NEW round \in RoundRecordV1,
           NEW bids \in [Account -> BidState \cup {None}],
           roundV1' = [roundV1 EXCEPT ![r] = round], bidV1' = [bidV1 EXCEPT ![r] = bids]
    PROVE  /\ roundV1'[r] = round /\ bidV1'[r] = bids /\ StoredV1(r)'
           /\ \A s \in RoundId \ {r} : roundV1'[s] = roundV1[s] /\ bidV1'[s] = bidV1[s]
           /\ roundV1' \in [RoundId -> RoundRecordV1 \cup {None}]
           /\ bidV1' \in [RoundId -> [Account -> BidState \cup {None}]]
BY NoneIsNoValueV1 DEF ShapeV1, StoredV1

---------------------------------------------------------------------------
(* Initial states.                                                         *)

\* The deployed contract stores no round.
LEMMA InitIInvV1 == LedgerInit /\ StorageInitV1 => IInvV1
<1> SUFFICES ASSUME LedgerInit, StorageInitV1 PROVE IInvV1
  OBVIOUS
<1> USE DEF LedgerInit, StorageInitV1
<1>1. ShapeV1
  BY LedgerAssumption, U64Assumption DEF ShapeV1, LedgerTypeOK, Time
<1>2. BeaconsDue
  BY DEF BeaconsDue
<1>3. ASSUME NEW r \in RoundId PROVE CountedV1(r) /\ RoundInvV1(r)
  <2>1. ~ StoredV1(r) /\ \A b \in Account : ~ HasBid(r, b)
    BY DEF StoredV1, HasBid
  <2>2. Len(<<>>) <= MaxBidders
    BY RoundV1Assumption
  <2> QED BY <2>1, <2>2, EmptyIndex DEF CountedV1, RoundInvV1, IndexSoundV1
<1> QED BY <1>1, <1>2, <1>3 DEF IInvV1

---------------------------------------------------------------------------
(* Steps.                                                                  *)

\* A step that touches the record and bids of one stored round only.
LEMMA OneRoundV1 ==
    ASSUME IInvV1, NEW r \in RoundId, ShapeV1', RoundInvV1(r)',
           UNCHANGED <<now, published, roundCounter>>, StoredV1(r), StoredV1(r)',
           \A s \in RoundId \ {r} : roundV1'[s] = roundV1[s] /\ bidV1'[s] = bidV1[s]
    PROVE  IInvV1' /\ StoredStaysV1
<1>1. BeaconsDue'
  BY DEF IInvV1, BeaconsDue
<1>2. ASSUME NEW s \in RoundId PROVE CountedV1(s)' /\ RoundInvV1(s)'
  <2>1. CASE s = r
    BY <2>1 DEF IInvV1, CountedV1
  <2>2. CASE s # r
    BY <2>2, FrameV1 DEF IInvV1, CountedV1, StoredV1
  <2> QED BY <2>1, <2>2
<1>3. StoredStaysV1
  BY DEF StoredStaysV1, StoredV1
<1> QED BY <1>1, <1>2, <1>3 DEF IInvV1

\* What is kept of v1 rounds does not depend on what else the contract does:
\* time and Drand move on, tokens change hands, ids go to other rounds.
LEMMA ForeignStepV1 ==
    ASSUME IInvV1, UNCHANGED storageV1, LedgerTypeOK', BeaconsDue', roundCounter <= roundCounter'
    PROVE  IInvV1' /\ StoredStaysV1
<1>1. ASSUME NEW s \in RoundId PROVE CountedV1(s)' /\ RoundInvV1(s)'
  <2>1. s \in Int /\ roundCounter \in Int /\ roundCounter' \in Int
    BY LedgerAssumption DEF RoundId, IInvV1, ShapeV1, LedgerTypeOK
  <2>2. CountedV1(s)'
    BY <2>1 DEF IInvV1, CountedV1, StoredV1, storageV1
  <2> QED BY <2>2, FrameV1 DEF IInvV1, storageV1
<1>2. ShapeV1'
  BY DEF IInvV1, ShapeV1, storageV1
<1>3. StoredStaysV1
  BY DEF StoredStaysV1, StoredV1, storageV1
<1> QED BY <1>1, <1>2, <1>3 DEF IInvV1

\* Time and Drand move; no round does.
LEMMA LedgerStepV1 ==
    ASSUME IInvV1, LedgerNext \/ UNCHANGED ledgerVars, UNCHANGED storageV1
    PROVE  IInvV1' /\ StoredStaysV1
<1>1. LedgerTypeOK' /\ BeaconsDue' /\ roundCounter' = roundCounter
  BY LedgerKeepsTime DEF IInvV1, ShapeV1
<1>2. roundCounter <= roundCounter'
  BY <1>1 DEF IInvV1, ShapeV1, LedgerTypeOK
<1> QED BY <1>1, <1>2, ForeignStepV1

\* create_round preserves the invariant: the new round passed its checks.
LEMMA CreateStepV1 ==
    ASSUME IInvV1, NEW operator \in Account, NEW q \in RequestV1, CreateRound(operator, q)
    PROVE  IInvV1' /\ StoredStaysV1 /\ roundV1'[NextRoundId] # None
<1> DEFINE round == [operator |-> operator, reveal_round |-> q.reveal_round,
                     clearing_rule |-> q.clearing_rule, commit_deadline |-> q.commit_deadline,
                     reveal_deadline |-> q.reveal_deadline, status |-> "Open",
                     bidders |-> <<>>, winner |-> None, winning_bid |-> 0]
<1>1. q \in RequestRecordV1 /\ q.commit_deadline < TimeOfRound(q.reveal_round)
  BY RoundV1Assumption DEF CreateRound
<1>2. /\ roundCounter < MaxRounds /\ roundCounter' = NextRoundId
      /\ roundCounter \in 0 .. MaxRounds /\ MaxRounds \in Nat
  BY LedgerAssumption DEF CreateRound, IInvV1, ShapeV1, LedgerTypeOK
<1> PICK id \in RoundId : id = NextRoundId
  BY <1>2 DEF NextRoundId, RoundId
<1>3. /\ roundCounter' = id /\ id = roundCounter + 1
      /\ roundCounter \in Nat /\ roundCounter' \in 0 .. MaxRounds
  BY <1>2 DEF NextRoundId
<1>4. ~ StoredV1(id) /\ \A x \in Account : ~ HasBid(id, x)
  <2>1. ~ StoredV1(id)
    BY <1>3 DEF IInvV1, CountedV1
  <2> QED BY <2>1, EmptyIndex DEF IInvV1, RoundInvV1, IndexSoundV1
<1>5. /\ round \in RoundRecordV1 /\ round.bidders = <<>> /\ round.status = "Open"
      /\ round.winner = None /\ round.winning_bid = 0
      /\ round.commit_deadline < TimeOfRound(round.reveal_round)
  BY <1>1 DEF RequestRecordV1, RoundRecordV1, Status
<1>6. roundV1' = [roundV1 EXCEPT ![id] = round] /\ bidV1' = bidV1
  BY DEF CreateRound
<1> HIDE DEF round
<1>7. /\ roundV1'[id] = round /\ StoredV1(id)'
      /\ \A s \in RoundId \ {id} : roundV1'[s] = roundV1[s]
      /\ roundV1' \in [RoundId -> RoundRecordV1 \cup {None}]
  BY <1>5, <1>6, NoneIsNoValueV1 DEF IInvV1, ShapeV1, StoredV1
<1>8. ShapeV1'
  BY <1>3, <1>6, <1>7 DEF IInvV1, ShapeV1, LedgerTypeOK, CreateRound
<1>9. BeaconsDue'
  BY DEF IInvV1, BeaconsDue, CreateRound
<1>10. RoundInvV1(id)'
  <2>1. IndexSoundV1(id)'
    <3>1. Len(<<>>) <= MaxBidders
      BY RoundV1Assumption
    <3> QED BY <1>4, <1>5, <1>6, <1>7, <3>1, EmptyIndex DEF IndexSoundV1, HasBid
  <2>2. RecordSoundV1(id)' /\ OutcomeSoundV1(id)'
    BY <1>5, <1>7 DEF RecordSoundV1, OutcomeSoundV1
  <2>3. \A x \in Account : ~ HasBid(id, x)'
    BY <1>4, <1>6 DEF HasBid
  <2> QED BY <2>1, <2>2, <2>3 DEF RoundInvV1
<1>11. ASSUME NEW s \in RoundId PROVE CountedV1(s)' /\ RoundInvV1(s)'
  <2>1. CASE s = id
    BY <1>3, <1>10, <2>1 DEF CountedV1
  <2>2. CASE s # id
    <3>1. RoundInvV1(s)'
      BY <1>6, <1>7, <2>2, FrameV1 DEF IInvV1
    <3>2. s \in Int
      BY DEF RoundId
    <3> QED BY <1>3, <1>7, <2>2, <3>1, <3>2 DEF IInvV1, CountedV1, StoredV1
  <2> QED BY <2>1, <2>2
<1>12. StoredStaysV1 /\ roundV1'[NextRoundId] # None
  BY <1>7 DEF StoredStaysV1, StoredV1
<1> QED BY <1>8, <1>9, <1>11, <1>12 DEF IInvV1

\* commit preserves the invariant, for newcomers and overwrites.
LEMMA CommitStepV1 ==
    ASSUME IInvV1, NEW r \in RoundId, NEW b \in Account, NEW p \in Preimage,
           NEW escrow \in EscrowV1, Commit(r, b, p, escrow)
    PROVE  IInvV1' /\ StoredStaysV1
<1> DEFINE new == [commitment |-> Sha256(p), escrow |-> escrow, revealed |-> None,
                   valid |-> FALSE, settled |-> FALSE]
           index == IF HasBid(r, b) THEN roundV1[r].bidders ELSE Append(roundV1[r].bidders, b)
           round == [roundV1[r] EXCEPT !.bidders = index]
           bids == [bidV1[r] EXCEPT ![b] = new]
           back == EscrowBack(r, b)
<1>1. roundV1[r] \in RoundRecordV1 /\ StoredV1(r) /\ roundV1[r].status = "Open"
  BY DEF IInvV1, ShapeV1, Commit, CommitOpen, StoredV1
<1>2. escrow \in Nat /\ escrow > 0
  <2>1. escrow \in Int /\ PositiveEscrow(escrow)
    BY RoundV1Assumption DEF Commit
  <2> QED BY <2>1 DEF PositiveEscrow
<1>3. new \in BidState
  BY <1>2 DEF BidState, Sha256
<1>4. back \in Nat
  <2>1. HasBid(r, b) => bidV1[r][b] \in BidState
    BY DEF IInvV1, ShapeV1, HasBid
  <2> QED BY <2>1 DEF EscrowBack, BidOf, BidState
<1>5. /\ index \in Seq(Account) /\ IsInjective(index) /\ Len(index) <= MaxBidders
      /\ Range(index) = {x \in Account : HasBid(r, x)} \cup {b}
  <2>1. /\ roundV1[r].bidders \in Seq(Account) /\ IsInjective(roundV1[r].bidders)
        /\ Range(roundV1[r].bidders) = {x \in Account : HasBid(r, x)}
        /\ Len(roundV1[r].bidders) <= MaxBidders
    BY <1>1 DEF RoundRecordV1, IInvV1, RoundInvV1, IndexSoundV1
  <2>2. CASE HasBid(r, b)
    BY <2>1, <2>2
  <2>3. CASE ~ HasBid(r, b)
    <3>1. Len(index) = Len(roundV1[r].bidders) + 1 /\ Len(roundV1[r].bidders) \in Nat
      BY <2>1, <2>3
    <3>2. Len(roundV1[r].bidders) < MaxBidders /\ MaxBidders \in Nat
      BY <2>3, RoundV1Assumption DEF Commit, HasRoom
    <3>3. Len(index) <= MaxBidders
      BY <3>1, <3>2
    <3> QED BY <2>1, <2>3, <3>3, IndexAppend
  <2> QED BY <2>2, <2>3
<1> HIDE DEF index
<1>6. /\ round \in RoundRecordV1 /\ round.bidders = index
      /\ round.commit_deadline = roundV1[r].commit_deadline
      /\ round.reveal_round = roundV1[r].reveal_round
      /\ round.status = "Open"
      /\ round.winner = roundV1[r].winner /\ round.winning_bid = roundV1[r].winning_bid
  BY <1>1, <1>5 DEF RoundRecordV1
<1>7. bids \in [Account -> BidState \cup {None}] /\ bids[b] = new
      /\ \A x \in Account \ {b} : bids[x] = bidV1[r][x]
  BY <1>3 DEF IInvV1, ShapeV1
<1>8. roundV1' = [roundV1 EXCEPT ![r] = round] /\ bidV1' = [bidV1 EXCEPT ![r] = bids]
  BY DEF Commit, index
<1> HIDE DEF new, round, bids
<1>9. /\ roundV1'[r] = round /\ bidV1'[r] = bids /\ StoredV1(r)'
      /\ \A s \in RoundId \ {r} : roundV1'[s] = roundV1[s] /\ bidV1'[s] = bidV1[s]
      /\ roundV1' \in [RoundId -> RoundRecordV1 \cup {None}]
      /\ bidV1' \in [RoundId -> [Account -> BidState \cup {None}]]
  BY <1>6, <1>7, <1>8, PlaceV1 DEF IInvV1
<1>10. wallet' \in [Asset -> [Account -> Nat]]
  <2>1. wallet' = [a \in Asset |-> [x \in Account |-> wallet[a][x] +
                     (IF a = Usdc /\ x = b THEN back - escrow ELSE 0)]]
    BY DEF Commit, Credited
  <2>2. ASSUME NEW a \in Asset, NEW x \in Account
        PROVE  wallet[a][x] + (IF a = Usdc /\ x = b THEN back - escrow ELSE 0) \in Nat
    <3>1. wallet[a][x] \in Nat
      BY DEF IInvV1, ShapeV1, LedgerTypeOK
    <3>2. a = Usdc /\ x = b => wallet[a][x] + back >= escrow
      BY DEF Commit
    <3> HIDE DEF back
    <3> QED BY <1>2, <1>4, <3>1, <3>2
  <2> QED BY <2>1, <2>2
<1>11. ShapeV1'
  BY <1>9, <1>10 DEF IInvV1, ShapeV1, LedgerTypeOK, Commit
<1>12. RoundInvV1(r)'
  <2>1. \A x \in Account : HasBid(r, x)' <=> HasBid(r, x) \/ x = b
    BY <1>3, <1>7, <1>9, NoneIsNoValueV1 DEF HasBid
  <2>2. IndexSoundV1(r)'
    BY <1>5, <1>6, <1>9, <2>1 DEF IndexSoundV1
  <2>3. RecordSoundV1(r)'
    BY <1>1, <1>6, <1>9 DEF IInvV1, RoundInvV1, RecordSoundV1
  <2>4. new.escrow = escrow /\ new.revealed = None /\ ~ new.valid /\ ~ new.settled
    BY DEF new
  <2>5. BidSoundV1(r, b)'
    BY <1>2, <1>6, <1>7, <1>9, <2>4 DEF BidSoundV1, BidOf
  <2>6. \A x \in Account : HasBid(r, x)' => BidSoundV1(r, x)'
    BY <1>1, <1>6, <1>7, <1>9, <2>1, <2>5 DEF IInvV1, RoundInvV1, BidSoundV1, BidOf
  <2>7. OutcomeSoundV1(r)'
    BY <1>6, <1>9 DEF OutcomeSoundV1
  <2> QED BY <2>2, <2>3, <2>6, <2>7 DEF RoundInvV1
<1> QED BY <1>1, <1>9, <1>11, <1>12, OneRoundV1 DEF Commit

\* open_reveal preserves the invariant: it only moves the status on.
LEMMA OpenStepV1 ==
    ASSUME IInvV1, NEW r \in RoundId, OpenReveal(r)
    PROVE  IInvV1' /\ StoredStaysV1
<1> DEFINE round == [roundV1[r] EXCEPT !.status = "Revealing"]
<1>1. roundV1[r] \in RoundRecordV1 /\ StoredV1(r) /\ roundV1[r].status = "Open"
  BY DEF IInvV1, ShapeV1, OpenReveal, StoredV1
<1>2. /\ round \in RoundRecordV1 /\ round.bidders = roundV1[r].bidders
      /\ round.commit_deadline = roundV1[r].commit_deadline
      /\ round.reveal_round = roundV1[r].reveal_round
      /\ round.status = "Revealing"
      /\ round.winner = roundV1[r].winner /\ round.winning_bid = roundV1[r].winning_bid
  BY <1>1 DEF RoundRecordV1, Status
<1>3. roundV1' = [roundV1 EXCEPT ![r] = round] /\ bidV1' = bidV1
  BY DEF OpenReveal
<1> HIDE DEF round
<1>4. /\ roundV1'[r] = round /\ StoredV1(r)'
      /\ \A s \in RoundId \ {r} : roundV1'[s] = roundV1[s]
      /\ roundV1' \in [RoundId -> RoundRecordV1 \cup {None}]
  BY <1>2, <1>3, NoneIsNoValueV1 DEF IInvV1, ShapeV1, StoredV1
<1>5. ShapeV1'
  BY <1>3, <1>4 DEF IInvV1, ShapeV1, LedgerTypeOK, OpenReveal, ledgerVars
<1>6. RoundInvV1(r)'
  <2>1. IndexSoundV1(r)'
    BY <1>1, <1>2, <1>3, <1>4 DEF IInvV1, RoundInvV1, IndexSoundV1, HasBid
  <2>2. RecordSoundV1(r)' /\ OutcomeSoundV1(r)'
    BY <1>1, <1>2, <1>4 DEF IInvV1, RoundInvV1, RecordSoundV1, OutcomeSoundV1
  <2>3. \A b \in Account : HasBid(r, b)' => BidSoundV1(r, b)'
    BY <1>1, <1>2, <1>3, <1>4 DEF IInvV1, RoundInvV1, BidSoundV1, BidOf, HasBid
  <2> QED BY <2>1, <2>2, <2>3 DEF RoundInvV1
<1> QED BY <1>1, <1>3, <1>4, <1>5, <1>6, OneRoundV1 DEF OpenReveal, ledgerVars

\* reveal preserves the invariant: what it records matches the commitment and
\* lies within the escrow, and counts only when positive.
LEMMA RevealStepV1 ==
    ASSUME IInvV1, NEW r \in RoundId, NEW b \in Account, NEW p \in Preimage, Reveal(r, b, p)
    PROVE  IInvV1' /\ StoredStaysV1
<1> DEFINE old == bidV1[r][b]
           positive == p.value > 0
           new == [old EXCEPT !.revealed = p, !.valid = positive]
           bids == [bidV1[r] EXCEPT ![b] = new]
<1>1. /\ roundV1[r] \in RoundRecordV1 /\ StoredV1(r) /\ roundV1[r].status = "Revealing"
      /\ old \in BidState /\ HasBid(r, b)
  BY DEF IInvV1, ShapeV1, Reveal, StoredV1, HasBid
<1>2. /\ new \in BidState /\ new.escrow = old.escrow /\ new.settled = old.settled
      /\ new.commitment = old.commitment /\ new.revealed = p /\ (new.valid <=> positive)
  <2>1. positive \in BOOLEAN
    OBVIOUS
  <2> HIDE DEF positive
  <2> QED BY <1>1, <2>1 DEF BidState
<1>3. bids \in [Account -> BidState \cup {None}] /\ bids[b] = new
      /\ \A x \in Account \ {b} : bids[x] = bidV1[r][x]
  BY <1>2 DEF IInvV1, ShapeV1
<1>4. bidV1' = [bidV1 EXCEPT ![r] = bids] /\ roundV1' = roundV1
  BY DEF Reveal
<1> HIDE DEF new, bids
<1>5. /\ bidV1'[r] = bids /\ \A s \in RoundId \ {r} : bidV1'[s] = bidV1[s]
      /\ bidV1' \in [RoundId -> [Account -> BidState \cup {None}]]
  BY <1>3, <1>4 DEF IInvV1, ShapeV1
<1>6. ShapeV1'
  BY <1>4, <1>5 DEF IInvV1, ShapeV1, LedgerTypeOK, Reveal, ledgerVars
<1>7. RoundInvV1(r)'
  <2>1. \A x \in Account : HasBid(r, x)' <=> HasBid(r, x)
    BY <1>1, <1>2, <1>3, <1>5, NoneIsNoValueV1 DEF HasBid
  <2>2. IndexSoundV1(r)'
    BY <1>4, <2>1 DEF IInvV1, RoundInvV1, IndexSoundV1, StoredV1
  <2>3. RecordSoundV1(r)' /\ OutcomeSoundV1(r)'
    BY <1>1, <1>4 DEF IInvV1, RoundInvV1, RecordSoundV1, OutcomeSoundV1
  <2>4. BidSoundV1(r, b)'
    <3>1. BidSoundV1(r, b)
      BY <1>1 DEF IInvV1, RoundInvV1
    <3>2. old.commitment = Sha256(p) /\ p.value <= old.escrow /\ p # None
      BY NoneIsNoValueV1 DEF Reveal, Matches, WithinEscrow, BidOf
    <3> QED BY <1>1, <1>2, <1>3, <1>4, <1>5, <3>1, <3>2 DEF BidSoundV1, BidOf
  <2>5. \A x \in Account : HasBid(r, x)' => BidSoundV1(r, x)'
    BY <1>1, <1>3, <1>4, <1>5, <2>1, <2>4 DEF IInvV1, RoundInvV1, BidSoundV1, BidOf
  <2> QED BY <2>2, <2>3, <2>5 DEF RoundInvV1
<1> QED BY <1>1, <1>4, <1>5, <1>6, <1>7, OneRoundV1 DEF Reveal, ledgerVars, StoredV1

---------------------------------------------------------------------------
(* Steps that end a round: the bids stay what they were.                   *)

\* The index of round r and what was bid in it are the same after the step.
SameBidsV1(r) ==
    /\ roundV1'[r].bidders = roundV1[r].bidders
    /\ roundV1'[r].clearing_rule = roundV1[r].clearing_rule
    /\ \A x \in Account :
        /\ bidV1'[r][x] # None <=> bidV1[r][x] # None
        /\ bidV1[r][x] # None =>
              /\ bidV1'[r][x].commitment = bidV1[r][x].commitment
              /\ bidV1'[r][x].valid = bidV1[r][x].valid
              /\ bidV1'[r][x].revealed = bidV1[r][x].revealed
              /\ bidV1'[r][x].escrow = bidV1[r][x].escrow

\* In a stored round the index lists accounts with a bid only.
LEMMA IndexedV1 ==
    ASSUME IInvV1, NEW r \in RoundId, StoredV1(r), NEW i \in DOMAIN roundV1[r].bidders
    PROVE  /\ roundV1[r].bidders[i] \in Account
           /\ HasBid(r, roundV1[r].bidders[i])
           /\ BidAtV1(r, i) \in BidState
           /\ i \in Nat
<1>1. roundV1[r] \in RoundRecordV1
  BY DEF IInvV1, ShapeV1, StoredV1
<1>2. roundV1[r].bidders \in Seq(Account)
  BY <1>1 DEF RoundRecordV1
<1>3. roundV1[r].bidders[i] \in Range(roundV1[r].bidders)
  BY DEF Range
<1>4. Range(roundV1[r].bidders) = {b \in Account : HasBid(r, b)}
  BY DEF IInvV1, RoundInvV1, IndexSoundV1
<1> QED BY <1>2, <1>3, <1>4 DEF IInvV1, ShapeV1, BidAtV1, BidOf, HasBid

\* A sound index and a just outcome stay so while the bids do.
LEMMA SameBidsFactsV1 ==
    ASSUME IInvV1, NEW r \in RoundId, StoredV1(r), StoredV1(r)', SameBidsV1(r)
    PROVE  /\ IndexSoundV1(r)'
           /\ RevealedV1(r)' = RevealedV1(r)
           /\ \A i \in DOMAIN roundV1[r].bidders :
                /\ AmountV1(r, i)' = AmountV1(r, i)
                /\ BidAtV1(r, i)'.escrow = BidAtV1(r, i).escrow
                /\ UnbeatenV1(r, i) => UnbeatenV1(r, i)'
<1>1. IndexSoundV1(r)'
  BY DEF IInvV1, RoundInvV1, IndexSoundV1, SameBidsV1, HasBid
<1>2. ASSUME NEW i \in DOMAIN roundV1[r].bidders
      PROVE  /\ AmountV1(r, i)' = AmountV1(r, i)
             /\ BidAtV1(r, i)'.escrow = BidAtV1(r, i).escrow
             /\ BidAtV1(r, i)'.valid = BidAtV1(r, i).valid
  BY IndexedV1 DEF SameBidsV1, AmountV1, BidAtV1, BidOf, HasBid
<1>3. RevealedV1(r)' = RevealedV1(r)
  BY <1>2 DEF RevealedV1, SameBidsV1
<1>4. ASSUME NEW i \in DOMAIN roundV1[r].bidders, UnbeatenV1(r, i) PROVE UnbeatenV1(r, i)'
  <2>1. RevealedV1(r) \subseteq DOMAIN roundV1[r].bidders
    BY DEF RevealedV1
  <2> QED BY <1>2, <1>3, <1>4, <2>1 DEF UnbeatenV1, SameBidsV1
<1> QED BY <1>1, <1>2, <1>3, <1>4

\* In a round that has not ended everybody with a bid is owed its escrow, so
\* refund_all and settle mark everybody settled, and change nothing but flags.
LEMMA EverybodyPaidV1 ==
    ASSUME IInvV1, NEW r \in RoundId, StoredV1(r),
           roundV1[r].status \in {"Open", "Revealing", "Cleared"},
           NEW paid, paid = {x \in Account : OwingV1(r, x)}
                     \/ paid = {x \in Account : UnsettledV1(r, x) > 0}
    PROVE  \E bids \in [Account -> BidState \cup {None}] :
             /\ SettledV1(r, paid) = [bidV1 EXCEPT ![r] = bids]
             /\ \A x \in Account :
                  /\ bids[x] # None <=> bidV1[r][x] # None
                  /\ bidV1[r][x] # None =>
                       /\ bids[x].settled
                       /\ bids[x].commitment = bidV1[r][x].commitment
                       /\ bids[x].valid = bidV1[r][x].valid
                       /\ bids[x].revealed = bidV1[r][x].revealed
                       /\ bids[x].escrow = bidV1[r][x].escrow
<1> DEFINE bids == [b \in Account |->
                      IF b \in paid THEN [BidOf(r, b) EXCEPT !.settled = TRUE] ELSE BidOf(r, b)]
<1>1. ASSUME NEW x \in Account
      PROVE  /\ OwingV1(r, x) <=> HasBid(r, x)
             /\ HasBid(r, x) => bidV1[r][x] \in BidState /\ UnsettledV1(r, x) > 0
             /\ ~ HasBid(r, x) => UnsettledV1(r, x) = 0
  <2>1. HasBid(r, x) => bidV1[r][x] \in BidState /\ BidSoundV1(r, x)
    BY DEF IInvV1, ShapeV1, RoundInvV1, HasBid
  <2>2. x \in BiddersV1(r) <=> HasBid(r, x)
    BY DEF IInvV1, RoundInvV1, IndexSoundV1, BiddersV1
  <2> QED BY <2>1, <2>2 DEF OwingV1, UnsettledV1, BidSoundV1
<1>2. paid = {x \in Account : HasBid(r, x)}
  BY <1>1
<1>3. ASSUME NEW x \in Account, HasBid(r, x)
      PROVE  /\ bids[x] \in BidState /\ bids[x] # None
             /\ bids[x].settled
             /\ bids[x].commitment = bidV1[r][x].commitment
             /\ bids[x].valid = bidV1[r][x].valid
             /\ bids[x].revealed = bidV1[r][x].revealed
             /\ bids[x].escrow = bidV1[r][x].escrow
  <2>1. bids[x] = [bidV1[r][x] EXCEPT !.settled = TRUE] /\ bidV1[r][x] \in BidState
    BY <1>1, <1>2, <1>3 DEF BidOf
  <2> QED BY <2>1, NoneIsNoValueV1 DEF BidState
<1>4. ASSUME NEW x \in Account, ~ HasBid(r, x) PROVE bids[x] = None
  BY <1>2, <1>4 DEF BidOf, HasBid
<1>5. SettledV1(r, paid) = [bidV1 EXCEPT ![r] = bids]
  BY DEF SettledV1
<1> HIDE DEF bids
<1>6. bids \in [Account -> BidState \cup {None}]
  <2>1. \A x \in Account : bids[x] \in BidState \cup {None}
    BY <1>3, <1>4
  <2>2. bids = [x \in Account |-> bids[x]]
    BY DEF bids
  <2> QED BY <2>1, <2>2
<1> QED BY <1>3, <1>4, <1>5, <1>6 DEF HasBid

\* What a round still owes is never negative.
LEMMA UnsettledNatV1 ==
    ASSUME IInvV1, NEW r \in RoundId, NEW x \in Account
    PROVE  UnsettledV1(r, x) \in Nat
<1>1. CASE OwingV1(r, x)
  BY <1>1 DEF OwingV1, UnsettledV1, HasBid, BidOf, IInvV1, ShapeV1, BidState
<1>2. CASE ~ OwingV1(r, x)
  BY <1>2 DEF UnsettledV1
<1> QED BY <1>1, <1>2

\* A round ends: everybody is marked settled and only the status changes.
LEMMA EndStepV1 ==
    ASSUME IInvV1, NEW r \in RoundId, StoredV1(r),
           roundV1[r].status \in {"Open", "Revealing", "Cleared"},
           NEW status \in {"Voided", "Settled"},
           roundV1' = [roundV1 EXCEPT ![r].status = status],
           \/ bidV1' = SettledV1(r, {x \in Account : OwingV1(r, x)})
           \/ bidV1' = SettledV1(r, {x \in Account : UnsettledV1(r, x) > 0}),
           status = "Voided" => RevealedV1(r) = {} /\ roundV1[r].status # "Cleared",
           status = "Settled" => roundV1[r].status = "Cleared",
           wallet' \in [Asset -> [Account -> Nat]],
           UNCHANGED <<now, published, roundCounter>>
    PROVE  IInvV1' /\ StoredStaysV1
<1> DEFINE round == [roundV1[r] EXCEPT !.status = status]
<1>1. roundV1[r] \in RoundRecordV1
  BY DEF IInvV1, ShapeV1, StoredV1
<1>2. /\ round \in RoundRecordV1 /\ round.bidders = roundV1[r].bidders
      /\ round.clearing_rule = roundV1[r].clearing_rule
      /\ round.commit_deadline = roundV1[r].commit_deadline
      /\ round.reveal_round = roundV1[r].reveal_round
      /\ round.status = status
      /\ round.winner = roundV1[r].winner /\ round.winning_bid = roundV1[r].winning_bid
  BY <1>1 DEF RoundRecordV1, Status
<1>3. roundV1' = [roundV1 EXCEPT ![r] = round]
  OBVIOUS
<1> HIDE DEF round
<1>4. PICK bids \in [Account -> BidState \cup {None}] :
         /\ bidV1' = [bidV1 EXCEPT ![r] = bids]
         /\ \A x \in Account :
              /\ bids[x] # None <=> bidV1[r][x] # None
              /\ bidV1[r][x] # None =>
                   /\ bids[x].settled
                   /\ bids[x].commitment = bidV1[r][x].commitment
                   /\ bids[x].valid = bidV1[r][x].valid
                   /\ bids[x].revealed = bidV1[r][x].revealed
                   /\ bids[x].escrow = bidV1[r][x].escrow
  <2>1. PICK paid : /\ bidV1' = SettledV1(r, paid)
                    /\ \/ paid = {x \in Account : OwingV1(r, x)}
                       \/ paid = {x \in Account : UnsettledV1(r, x) > 0}
    OBVIOUS
  <2> QED BY <2>1, EverybodyPaidV1
<1>5. /\ roundV1'[r] = round /\ bidV1'[r] = bids /\ StoredV1(r)'
      /\ \A s \in RoundId \ {r} : roundV1'[s] = roundV1[s] /\ bidV1'[s] = bidV1[s]
      /\ roundV1' \in [RoundId -> RoundRecordV1 \cup {None}]
      /\ bidV1' \in [RoundId -> [Account -> BidState \cup {None}]]
  BY <1>2, <1>3, <1>4, PlaceV1 DEF IInvV1
<1>6. SameBidsV1(r)
  BY <1>2, <1>4, <1>5 DEF SameBidsV1
<1>7. ShapeV1'
  BY <1>5 DEF IInvV1, ShapeV1, LedgerTypeOK
<1>8. RoundInvV1(r)'
  <2>1. IndexSoundV1(r)'
    BY <1>5, <1>6, SameBidsFactsV1
  <2>2. RecordSoundV1(r)'
    BY <1>2, <1>5 DEF IInvV1, RoundInvV1, RecordSoundV1
  <2>3. ASSUME NEW x \in Account, HasBid(r, x)' PROVE BidSoundV1(r, x)'
    <3>1. HasBid(r, x) /\ BidSoundV1(r, x)
      BY <1>4, <1>5, <2>3 DEF HasBid, IInvV1, RoundInvV1
    <3> QED BY <1>2, <1>4, <1>5, <3>1 DEF BidSoundV1, BidOf, HasBid
  <2>4. OutcomeSoundV1(r)'
    <3>1. CASE status = "Voided"
      BY <1>2, <1>5, <1>6, <3>1, SameBidsFactsV1 DEF OutcomeSoundV1
    <3>2. CASE status = "Settled"
      <4>1. PICK i \in RevealedV1(r) :
               /\ roundV1[r].winner = roundV1[r].bidders[i]
               /\ roundV1[r].winning_bid = AmountV1(r, i)
               /\ roundV1[r].winning_bid \in 1 .. BidAtV1(r, i).escrow
               /\ UnbeatenV1(r, i)
        BY <3>2 DEF IInvV1, RoundInvV1, OutcomeSoundV1
      <4>2. /\ i \in RevealedV1(r)' /\ UnbeatenV1(r, i)'
            /\ AmountV1(r, i)' = AmountV1(r, i)
            /\ BidAtV1(r, i)'.escrow = BidAtV1(r, i).escrow
        BY <1>5, <1>6, <4>1, SameBidsFactsV1 DEF RevealedV1
      <4> QED BY <1>2, <1>5, <3>2, <4>1, <4>2 DEF OutcomeSoundV1
    <3> QED BY <3>1, <3>2
  <2> QED BY <2>1, <2>2, <2>3, <2>4 DEF RoundInvV1
<1> QED BY <1>5, <1>7, <1>8, OneRoundV1

\* Voiding a round without valid bids.
LEMMA VoidRoundStepV1 ==
    ASSUME IInvV1, NEW r \in RoundId, StoredV1(r),
           roundV1[r].status \in {"Open", "Revealing"}, RevealedV1(r) = {}, VoidRoundV1(r),
           UNCHANGED <<now, published, roundCounter>>
    PROVE  IInvV1' /\ StoredStaysV1
<1>1. wallet' \in [Asset -> [Account -> Nat]]
  <2>1. wallet' = [a \in Asset |-> [x \in Account |-> wallet[a][x] +
                     (IF a = Usdc THEN UnsettledV1(r, x) ELSE 0)]]
    BY DEF VoidRoundV1, RefundAllV1, Credited
  <2>2. \A a \in Asset, x \in Account : wallet[a][x] \in Nat /\ UnsettledV1(r, x) \in Nat
    BY UnsettledNatV1 DEF IInvV1, ShapeV1, LedgerTypeOK
  <2> QED BY <2>1, <2>2
<1> QED BY <1>1, EndStepV1 DEF VoidRoundV1, RefundAllV1

\* void preserves the invariant: an unopened round has no valid bid.
LEMMA VoidStepV1 ==
    ASSUME IInvV1, NEW r \in RoundId, Void(r)
    PROVE  IInvV1' /\ StoredStaysV1
<1>1. StoredV1(r) /\ roundV1[r].status = "Open"
  BY DEF Void
<1>2. RevealedV1(r) = {}
  <2>1. ASSUME NEW i \in DOMAIN roundV1[r].bidders PROVE ~ BidAtV1(r, i).valid
    BY <1>1, IndexedV1 DEF BidAtV1, BidSoundV1, BidOf, IInvV1, RoundInvV1
  <2> QED BY <2>1 DEF RevealedV1
<1> QED BY <1>1, <1>2, VoidRoundStepV1 DEF Void
\* The offers that compete are the valid bids, with their amounts.
LEMMA OffersAreRevealedV1 ==
    ASSUME IInvV1, NEW r \in RoundId, StoredV1(r)
    PROVE  /\ Valid(OffersV1(r)) = RevealedV1(r)
           /\ RevealedV1(r) \subseteq DOMAIN roundV1[r].bidders
           /\ \A i \in RevealedV1(r) :
                /\ i \in Nat
                /\ OffersV1(r)[i] = AmountV1(r, i)
                /\ AmountV1(r, i) \in 1 .. BidAtV1(r, i).escrow
                /\ BidAtV1(r, i).escrow \in Nat
<1>1. DOMAIN OffersV1(r) = DOMAIN roundV1[r].bidders
  BY DEF OffersV1
<1>2. ASSUME NEW i \in DOMAIN roundV1[r].bidders
      PROVE  /\ i \in Nat
             /\ OffersV1(r)[i] = IF BidAtV1(r, i).valid THEN AmountV1(r, i) ELSE None
             /\ BidAtV1(r, i).valid => AmountV1(r, i) \in 1 .. BidAtV1(r, i).escrow
             /\ BidAtV1(r, i).escrow \in Nat
  <2>1. /\ i \in Nat /\ roundV1[r].bidders[i] \in Account
        /\ HasBid(r, roundV1[r].bidders[i]) /\ BidAtV1(r, i) \in BidState
    BY IndexedV1
  <2>2. BidSoundV1(r, roundV1[r].bidders[i])
    BY <2>1 DEF IInvV1, RoundInvV1
  <2>3. BidAtV1(r, i).revealed # None => AmountV1(r, i) \in Int
    BY <2>1, RoundV1Assumption DEF BidState, AmountV1
  <2> QED BY <2>1, <2>2, <2>3 DEF OffersV1, BidAtV1, AmountV1, BidSoundV1, BidOf, BidState
<1> QED BY <1>1, <1>2, NoneIsNoValueV1 DEF Valid, RevealedV1

\* A winner by the clearing rule is unbeaten.
LEMMA WinnerUnbeatenV1 ==
    ASSUME IInvV1, NEW r \in RoundId, StoredV1(r),
           NEW i \in WinningBids(roundV1[r].clearing_rule, OffersV1(r))
    PROVE  i \in RevealedV1(r) /\ UnbeatenV1(r, i)
<1>1. i \in RevealedV1(r)
  BY OffersAreRevealedV1 DEF WinningBids
<1>2. ASSUME NEW j \in RevealedV1(r) \ {i}
      PROVE  /\ ~ Beats(roundV1[r].clearing_rule, AmountV1(r, j), AmountV1(r, i))
             /\ j < i => Beats(roundV1[r].clearing_rule, AmountV1(r, i), AmountV1(r, j))
  BY <1>1, OffersAreRevealedV1 DEF WinningBids
<1>3. ASSUME NEW j \in RevealedV1(r)
      PROVE  j \in Nat /\ AmountV1(r, j) \in Int
  BY OffersAreRevealedV1
<1> QED BY <1>1, <1>2, <1>3 DEF UnbeatenV1, Beats

\* clear with a winner preserves the invariant: the price is the best valid bid.
LEMMA SelectStepV1 ==
    ASSUME IInvV1, NEW r \in RoundId, StoredV1(r), roundV1[r].status = "Revealing",
           SelectWinnerV1(r), UNCHANGED <<now, published, roundCounter>>
    PROVE  IInvV1' /\ StoredStaysV1
<1>1. roundV1[r] \in RoundRecordV1
  BY DEF IInvV1, ShapeV1, StoredV1
<1>2. PICK i \in WinningBids(roundV1[r].clearing_rule, OffersV1(r)) :
         roundV1' = [roundV1 EXCEPT ![r].status = "Cleared",
                                    ![r].winner = roundV1[r].bidders[i],
                                    ![r].winning_bid = OffersV1(r)[i]]
  BY DEF SelectWinnerV1
<1>3. i \in RevealedV1(r) /\ UnbeatenV1(r, i)
  BY WinnerUnbeatenV1
<1>4. /\ i \in DOMAIN roundV1[r].bidders
      /\ OffersV1(r)[i] = AmountV1(r, i)
      /\ AmountV1(r, i) \in 1 .. BidAtV1(r, i).escrow
      /\ BidAtV1(r, i).escrow \in Nat
  BY <1>3, OffersAreRevealedV1
<1>5. roundV1[r].bidders[i] \in Account
  BY <1>4, IndexedV1
<1> DEFINE round == [roundV1[r] EXCEPT !.status = "Cleared",
                                       !.winner = roundV1[r].bidders[i],
                                       !.winning_bid = AmountV1(r, i)]
<1>6. /\ round \in RoundRecordV1 /\ round # None /\ round.status = "Cleared"
      /\ round.winner = roundV1[r].bidders[i] /\ round.winning_bid = AmountV1(r, i)
      /\ round.bidders = roundV1[r].bidders /\ round.clearing_rule = roundV1[r].clearing_rule
      /\ round.commit_deadline = roundV1[r].commit_deadline
      /\ round.reveal_round = roundV1[r].reveal_round
  <2>1. AmountV1(r, i) \in Nat
    BY <1>4
  <2>2. round \in RoundRecordV1
    BY <1>1, <1>5, <2>1 DEF RoundRecordV1, Status
  <2> QED BY <1>1, <2>2, NoneIsNoValueV1 DEF RoundRecordV1
<1>7. roundV1' = [roundV1 EXCEPT ![r] = round] /\ bidV1' = bidV1
  <2>1. roundV1 \in [RoundId -> RoundRecordV1 \cup {None}]
    BY DEF IInvV1, ShapeV1
  <2> QED BY <1>1, <1>2, <1>4, <2>1 DEF SelectWinnerV1
<1> HIDE DEF round
<1>8. /\ roundV1'[r] = round
      /\ \A s \in RoundId \ {r} : roundV1'[s] = roundV1[s]
      /\ roundV1' \in [RoundId -> RoundRecordV1 \cup {None}]
  BY <1>6, <1>7 DEF IInvV1, ShapeV1
<1>9. SameBidsV1(r) /\ StoredV1(r)'
  BY <1>6, <1>7, <1>8 DEF SameBidsV1, StoredV1
<1>10. ShapeV1'
  BY <1>7, <1>8 DEF IInvV1, ShapeV1, LedgerTypeOK, SelectWinnerV1
<1>11. RoundInvV1(r)'
  <2>1. IndexSoundV1(r)'
    BY <1>9, SameBidsFactsV1
  <2>2. RecordSoundV1(r)'
    BY <1>6, <1>8 DEF IInvV1, RoundInvV1, RecordSoundV1
  <2>3. ASSUME NEW x \in Account, HasBid(r, x)' PROVE BidSoundV1(r, x)'
    <3>1. HasBid(r, x) /\ BidSoundV1(r, x)
      BY <1>7, <2>3 DEF HasBid, IInvV1, RoundInvV1
    <3> QED BY <1>6, <1>7, <1>8, <3>1 DEF BidSoundV1, BidOf
  <2>4. OutcomeSoundV1(r)'
    <3>1. /\ i \in RevealedV1(r)' /\ UnbeatenV1(r, i)'
          /\ AmountV1(r, i)' = AmountV1(r, i)
          /\ BidAtV1(r, i)'.escrow = BidAtV1(r, i).escrow
      BY <1>3, <1>4, <1>9, SameBidsFactsV1
    <3> QED BY <1>4, <1>6, <1>8, <3>1 DEF OutcomeSoundV1
  <2> QED BY <2>1, <2>2, <2>3, <2>4 DEF RoundInvV1
<1> QED BY <1>7, <1>8, <1>9, <1>10, <1>11, OneRoundV1 DEF SelectWinnerV1

\* clear preserves the invariant, with a winner or without.
LEMMA ClearStepV1 ==
    ASSUME IInvV1, NEW r \in RoundId, Clear(r)
    PROVE  IInvV1' /\ StoredStaysV1
<1>1. CASE Valid(OffersV1(r)) = {} /\ VoidRoundV1(r)
  <2>1. RevealedV1(r) = {}
    BY <1>1, OffersAreRevealedV1 DEF Clear
  <2> QED BY <1>1, <2>1, VoidRoundStepV1 DEF Clear
<1>2. CASE SelectWinnerV1(r)
  BY <1>2, SelectStepV1 DEF Clear
<1> QED BY <1>1, <1>2 DEF Clear

\* settle preserves the invariant: it changes flags, never the outcome.
LEMMA SettleStepV1 ==
    ASSUME IInvV1, NEW r \in RoundId, Settle(r)
    PROVE  IInvV1' /\ StoredStaysV1
<1>1. roundV1[r] \in RoundRecordV1 /\ StoredV1(r) /\ roundV1[r].status = "Cleared"
  BY DEF IInvV1, ShapeV1, StoredV1, Settle
<1>2. wallet' \in [Asset -> [Account -> Nat]]
  <2>1. wallet' = [a \in Asset |-> [x \in Account |-> wallet[a][x] +
                     (IF a = Usdc THEN PayoutV1(r, x) ELSE 0)]]
    BY DEF Settle, Credited
  <2>2. roundV1[r].winning_bid \in Nat
    BY <1>1 DEF RoundRecordV1
  <2>3. \A x \in Account : PayoutV1(r, x) \in Nat
    BY <2>2, UnsettledNatV1 DEF PayoutV1
  <2>4. \A a \in Asset, x \in Account : wallet[a][x] \in Nat
    BY DEF IInvV1, ShapeV1, LedgerTypeOK
  <2> QED BY <2>1, <2>3, <2>4
<1> QED BY <1>1, <1>2, EndStepV1 DEF Settle

\* Every entry point of the v1 round preserves the invariant.
LEMMA CallStepV1 == IInvV1 /\ CallV1 => IInvV1' /\ StoredStaysV1
<1> SUFFICES ASSUME IInvV1, CallV1 PROVE IInvV1' /\ StoredStaysV1
  OBVIOUS
<1>1. ASSUME NEW op \in Account, NEW q \in RequestV1, CreateRound(op, q)
      PROVE  IInvV1' /\ StoredStaysV1
  BY <1>1, CreateStepV1
<1>2. ASSUME NEW r \in RoundId, NEW b \in Account, NEW p \in Preimage, NEW x \in EscrowV1,
             Commit(r, b, p, x)
      PROVE  IInvV1' /\ StoredStaysV1
  BY <1>2, CommitStepV1
<1>3. ASSUME NEW r \in RoundId, NEW b \in Account, NEW p \in Preimage, Reveal(r, b, p)
      PROVE  IInvV1' /\ StoredStaysV1
  BY <1>3, RevealStepV1
<1>4. ASSUME NEW r \in RoundId, OpenReveal(r) \/ Clear(r) \/ Settle(r) \/ Void(r)
      PROVE  IInvV1' /\ StoredStaysV1
  BY <1>4, OpenStepV1, ClearStepV1, SettleStepV1, VoidStepV1
<1> QED BY <1>1, <1>2, <1>3, <1>4 DEF CallV1

\* The invariant, step by step; no round is ever removed.
LEMMA NextIInvV1 == IInvV1 /\ [NextV1]_varsV1 => IInvV1' /\ StoredStaysV1
BY CallStepV1, LedgerStepV1 DEF NextV1, varsV1

---------------------------------------------------------------------------
(* Theorems.                                                               *)

\* The inductive invariant holds in every reachable state of v1 rounds:
\* create_round, commit, open_reveal, reveal, clear, settle and void keep it.
THEOREM InvariantV1 == SpecV1 => []IInvV1
BY InitIInvV1, NextIInvV1, PTL DEF SpecV1, InitV1

\* create_round to void keep every record well-typed and every balance
\* non-negative; commit keeps the index exact and within MAX_BIDDERS, so the
\* loops of clear, settle and refund_all miss nobody and pay nobody twice.
THEOREM TypeCorrectV1 == SpecV1 => []TypeOKV1
<1>1. IInvV1 => TypeOKV1
  BY DEF IInvV1, ShapeV1, RoundInvV1, TypeOKV1, IndexExactV1
<1> QED BY <1>1, InvariantV1, PTL

\* clear awards the round to the best valid bid, the earliest among equals, at
\* a price within the winner's escrow, and settle changes none of it; no round
\* with a valid bid is voided.
THEOREM OutcomesJustV1 == SpecV1 => []OutcomeJustV1
<1>1. IInvV1 => OutcomeJustV1
  BY DEF IInvV1, RoundInvV1, OutcomeJustV1
<1> QED BY <1>1, InvariantV1, PTL

---------------------------------------------------------------------------
(* The action property: seals are fixed before they can be read.           *)

\* The step keeps the commitment and escrow of b in round r, if b has a bid.
SealKeptV1(r, b) ==
    /\ HasBid(r, b)' = HasBid(r, b)
    /\ HasBid(r, b) =>
           /\ BidOf(r, b)'.commitment = BidOf(r, b).commitment
           /\ BidOf(r, b)'.escrow = BidOf(r, b).escrow

\* A step that leaves the bids of a round alone keeps its seals.
LEMMA SameBidsKeepSealsV1 ==
    ASSUME NEW r \in RoundId, NEW b \in Account, bidV1'[r] = bidV1[r]
    PROVE  SealKeptV1(r, b)
BY DEF SealKeptV1, HasBid, BidOf

\* refund_all and settle set settled flags and keep every seal.
LEMMA EndKeepsSealsV1 ==
    ASSUME IInvV1, NEW r \in RoundId, StoredV1(r),
           roundV1[r].status \in {"Open", "Revealing", "Cleared"},
           \/ bidV1' = SettledV1(r, {x \in Account : OwingV1(r, x)})
           \/ bidV1' = SettledV1(r, {x \in Account : UnsettledV1(r, x) > 0})
           \/ bidV1' = bidV1,
           NEW s \in RoundId, NEW b \in Account
    PROVE  SealKeptV1(s, b)
<1>1. CASE bidV1' = bidV1
  BY <1>1, SameBidsKeepSealsV1
<1>2. CASE bidV1' # bidV1
  <2>1. PICK paid : /\ bidV1' = SettledV1(r, paid)
                    /\ \/ paid = {x \in Account : OwingV1(r, x)}
                       \/ paid = {x \in Account : UnsettledV1(r, x) > 0}
    BY <1>2
  <2>2. PICK bids \in [Account -> BidState \cup {None}] :
           /\ bidV1' = [bidV1 EXCEPT ![r] = bids]
           /\ \A x \in Account :
                /\ bids[x] # None <=> bidV1[r][x] # None
                /\ bidV1[r][x] # None =>
                     /\ bids[x].commitment = bidV1[r][x].commitment
                     /\ bids[x].escrow = bidV1[r][x].escrow
    BY <2>1, EverybodyPaidV1
  <2>3. CASE s # r
    BY <2>2, <2>3, SameBidsKeepSealsV1 DEF IInvV1, ShapeV1
  <2>4. CASE s = r
    BY <2>2, <2>4 DEF IInvV1, ShapeV1, SealKeptV1, HasBid, BidOf
  <2> QED BY <2>3, <2>4
<1> QED BY <1>1, <1>2

\* Once the beacon of a round is out commit is closed, so no step alters a seal.
LEMMA StepKeepsSealsV1 ==
    ASSUME IInvV1, NextV1, NEW s \in RoundId, NEW b \in Account,
           StoredV1(s), HasSignature(roundV1[s].reveal_round)
    PROVE  SealKeptV1(s, b)
<1>1. ASSUME NEW r \in RoundId, NEW c \in Account, NEW p \in Preimage, NEW x \in EscrowV1,
             Commit(r, c, p, x)
      PROVE  SealKeptV1(s, b)
  <2>1. r # s
    <3> SUFFICES ASSUME r = s PROVE FALSE
      OBVIOUS
    <3>1. now <= roundV1[s].commit_deadline
      BY <1>1 DEF Commit, CommitOpen
    <3>2. roundV1[s].commit_deadline < TimeOfRound(roundV1[s].reveal_round)
      BY DEF IInvV1, RoundInvV1, RecordSoundV1
    <3>3. TimeOfRound(roundV1[s].reveal_round) <= now
      BY DEF IInvV1, BeaconsDue, HasSignature
    <3>4. roundV1[s] \in RoundRecordV1
      BY DEF IInvV1, ShapeV1, StoredV1
    <3>5. /\ roundV1[s].commit_deadline \in Int /\ now \in Int
          /\ TimeOfRound(roundV1[s].reveal_round) \in Int
      BY <3>4, TimeOfRoundInTime DEF RoundRecordV1, Time, IInvV1, ShapeV1, LedgerTypeOK
    <3> QED BY <3>1, <3>2, <3>3, <3>5
  <2>2. bidV1'[s] = bidV1[s]
    BY <1>1, <2>1 DEF Commit, IInvV1, ShapeV1
  <2> QED BY <2>2, SameBidsKeepSealsV1
<1>2. ASSUME NEW r \in RoundId, NEW c \in Account, NEW p \in Preimage, Reveal(r, c, p)
      PROVE  SealKeptV1(s, b)
  <2> DEFINE positive == p.value > 0
             new == [bidV1[r][c] EXCEPT !.revealed = p, !.valid = positive]
  <2>1. bidV1[r][c] \in BidState
    BY <1>2 DEF Reveal, HasBid, IInvV1, ShapeV1
  <2>2. bidV1' = [bidV1 EXCEPT ![r] = [bidV1[r] EXCEPT ![c] = new]]
    BY <1>2 DEF Reveal
  <2>3. positive \in BOOLEAN
    OBVIOUS
  <2> HIDE DEF positive
  <2>4. /\ new.commitment = bidV1[r][c].commitment /\ new.escrow = bidV1[r][c].escrow
        /\ new # None /\ bidV1[r][c] # None
    BY <2>1, <2>3, NoneIsNoValueV1 DEF BidState
  <2> HIDE DEF new
  <2>5. CASE s = r /\ b = c
    BY <2>2, <2>4, <2>5 DEF SealKeptV1, HasBid, BidOf, IInvV1, ShapeV1
  <2>6. CASE s # r \/ b # c
    BY <2>2, <2>6 DEF SealKeptV1, HasBid, BidOf, IInvV1, ShapeV1
  <2> QED BY <2>5, <2>6
<1>3. ASSUME NEW r \in RoundId, Clear(r) \/ Settle(r) \/ Void(r) PROVE SealKeptV1(s, b)
  <2>1. StoredV1(r) /\ roundV1[r].status \in {"Open", "Revealing", "Cleared"}
    BY <1>3 DEF Clear, Settle, Void
  <2>2. \/ bidV1' = SettledV1(r, {x \in Account : OwingV1(r, x)})
        \/ bidV1' = SettledV1(r, {x \in Account : UnsettledV1(r, x) > 0})
        \/ bidV1' = bidV1
    BY <1>3 DEF Clear, Settle, Void, VoidRoundV1, RefundAllV1, SelectWinnerV1
  <2> QED BY <2>1, <2>2, EndKeepsSealsV1
<1>4. (\E op \in Account, q \in RequestV1 : CreateRound(op, q)) \/ (\E r \in RoundId : OpenReveal(r))
      \/ UNCHANGED storageV1 => SealKeptV1(s, b)
  BY SameBidsKeepSealsV1 DEF CreateRound, OpenReveal, storageV1
<1> QED BY <1>1, <1>2, <1>3, <1>4 DEF NextV1, CallV1

\* create_round and commit together keep sealed bidding sealed: once the
\* signature that opens the seals exists, no commitment of the round is added
\* or replaced and no escrow changes.
THEOREM SealsFixedV1 == SpecV1 => SealedBeforeBeaconV1
<1>1. IInvV1 /\ [NextV1]_varsV1 =>
        [\A r \in RoundId, b \in Account :
            StoredV1(r) /\ HasSignature(roundV1[r].reveal_round) =>
              /\ HasBid(r, b)' = HasBid(r, b)
              /\ HasBid(r, b) =>
                     /\ BidOf(r, b)'.commitment = BidOf(r, b).commitment
                     /\ BidOf(r, b)'.escrow = BidOf(r, b).escrow]_varsV1
  BY StepKeepsSealsV1 DEF SealKeptV1
<1> QED BY <1>1, InvariantV1, PTL DEF SpecV1, SealedBeforeBeaconV1

---------------------------------------------------------------------------
(* Receipts.                                                               *)

\* An unbeaten bid is the one the clearing rule elects.
LEMMA UnbeatenWinsV1 ==
    ASSUME IInvV1, NEW r \in RoundId, StoredV1(r), NEW i \in RevealedV1(r), UnbeatenV1(r, i)
    PROVE  WinningBids(roundV1[r].clearing_rule, OffersV1(r)) = {i}
<1> DEFINE rule == roundV1[r].clearing_rule
<1>1. rule \in {"HighestBid", "LowestBid"}
  BY DEF IInvV1, ShapeV1, StoredV1, RoundRecordV1, ClearingRule
<1>2. ASSUME NEW j \in RevealedV1(r)
      PROVE  j \in Nat /\ AmountV1(r, j) \in Int /\ OffersV1(r)[j] = AmountV1(r, j)
  BY OffersAreRevealedV1
<1>3. Valid(OffersV1(r)) = RevealedV1(r)
  BY OffersAreRevealedV1
<1> HIDE DEF rule
<1>4. ASSUME NEW j \in RevealedV1(r) \ {i}
      PROVE  /\ ~ Beats(rule, AmountV1(r, j), AmountV1(r, i))
             /\ j < i => Beats(rule, AmountV1(r, i), AmountV1(r, j))
             /\ ~ Beats(rule, AmountV1(r, i), AmountV1(r, j)) => i < j
  BY <1>1, <1>2, <1>4 DEF UnbeatenV1, Beats, rule
<1>5. i \in WinningBids(rule, OffersV1(r))
  BY <1>2, <1>3, <1>4 DEF WinningBids
<1>6. ASSUME NEW j \in WinningBids(rule, OffersV1(r)), j # i PROVE FALSE
  <2>1. /\ j \in RevealedV1(r)
        /\ ~ Beats(rule, AmountV1(r, i), AmountV1(r, j))
        /\ i < j => Beats(rule, AmountV1(r, j), AmountV1(r, i))
    BY <1>2, <1>3, <1>6 DEF WinningBids
  <2> QED BY <1>4, <1>6, <2>1
<1> QED BY <1>5, <1>6 DEF rule

\* The offers the verifier recomputes from a receipt are those clear walked.
LEMMA ReceiptOffersV1 ==
    ASSUME IInvV1, NEW r \in RoundId, StoredV1(r)
    PROVE  ComputedOffersV1(ReceiptOfV1(roundV1[r], roundV1[r].bidders, bidV1[r])) = OffersV1(r)
<1> DEFINE receipt == ReceiptOfV1(roundV1[r], roundV1[r].bidders, bidV1[r])
<1>1. /\ receipt.bidders = roundV1[r].bidders
      /\ \A b \in Range(roundV1[r].bidders) : receipt.bids[b] = bidV1[r][b]
  BY DEF ReceiptOfV1
<1> HIDE DEF receipt
<1>2. ASSUME NEW i \in DOMAIN roundV1[r].bidders
      PROVE  LET bid == receipt.bids[receipt.bidders[i]] IN
             (IF bid.revealed # None /\ bid.valid THEN bid.revealed.value ELSE None)
               = OffersV1(r)[i]
  <2>1. roundV1[r].bidders[i] \in Account /\ HasBid(r, roundV1[r].bidders[i])
    BY IndexedV1
  <2>2. BidSoundV1(r, roundV1[r].bidders[i])
    BY <2>1 DEF IInvV1, RoundInvV1
  <2>3. receipt.bids[receipt.bidders[i]] = bidV1[r][roundV1[r].bidders[i]]
    BY <1>1 DEF Range
  <2> QED BY <2>1, <2>2, <2>3 DEF OffersV1, BidSoundV1, BidOf
<1>3. OffersV1(r) = [i \in DOMAIN roundV1[r].bidders |-> OffersV1(r)[i]]
  BY DEF OffersV1
<1>4. ComputedOffersV1(receipt) = OffersV1(r)
  BY <1>1, <1>2, <1>3 DEF ComputedOffersV1
<1> QED BY <1>4 DEF receipt

\* The receipt of a stored round verifies and names the winner clear chose.
LEMMA ReceiptSoundV1 ==
    ASSUME IInvV1, NEW r \in RoundId, StoredV1(r)
    PROVE  LET receipt == ReceiptOfV1(roundV1[r], roundV1[r].bidders, bidV1[r])
           IN  /\ VerifyReceiptV1(receipt)
               /\ roundV1[r].status \in {"Cleared", "Settled"} =>
                      ComputedWinnerV1(receipt) = {roundV1[r].winner}
<1> DEFINE receipt == ReceiptOfV1(roundV1[r], roundV1[r].bidders, bidV1[r])
<1>1. /\ receipt.bidders = roundV1[r].bidders /\ receipt.round = roundV1[r]
      /\ \A b \in Range(roundV1[r].bidders) : receipt.bids[b] = bidV1[r][b]
  BY DEF ReceiptOfV1
<1>2. ComputedOffersV1(receipt) = OffersV1(r)
  BY ReceiptOffersV1
<1> HIDE DEF receipt
<1>3. ASSUME roundV1[r].status \in {"Cleared", "Settled"}
      PROVE  ComputedWinnerV1(receipt) = {roundV1[r].winner}
  <2>1. PICK i \in RevealedV1(r) : roundV1[r].winner = roundV1[r].bidders[i] /\ UnbeatenV1(r, i)
    BY <1>3 DEF IInvV1, RoundInvV1, OutcomeSoundV1
  <2>2. WinningBids(roundV1[r].clearing_rule, OffersV1(r)) = {i}
    BY <2>1, UnbeatenWinsV1
  <2> QED BY <1>1, <1>2, <2>1, <2>2 DEF ComputedWinnerV1
<1>4. receipt.round.winner # None => roundV1[r].status \in {"Cleared", "Settled"}
  BY <1>1 DEF IInvV1, ShapeV1, StoredV1, RoundRecordV1, Status, RoundInvV1, RecordSoundV1
<1>5. IsInjective(receipt.bidders)
  BY <1>1 DEF IInvV1, RoundInvV1, IndexSoundV1
<1>6. ASSUME NEW b \in Range(receipt.bidders)
      PROVE  /\ receipt.bids[b].escrow >= 0
             /\ receipt.bids[b].revealed # None =>
                    Sha256(receipt.bids[b].revealed) = receipt.bids[b].commitment
  <2>1. b \in Account /\ HasBid(r, b)
    BY <1>1 DEF IInvV1, RoundInvV1, IndexSoundV1
  <2>2. BidSoundV1(r, b) /\ bidV1[r][b] \in BidState
    BY <2>1 DEF IInvV1, ShapeV1, RoundInvV1, HasBid
  <2> QED BY <1>1, <2>2 DEF BidSoundV1, BidOf, BidState
<1>7. VerifyReceiptV1(receipt)
  BY <1>1, <1>3, <1>4, <1>5, <1>6 DEF VerifyReceiptV1
<1> QED BY <1>3, <1>7 DEF receipt

\* exportReceipt and verifyReceipt agree with clear and settle: the receipt of
\* a v1 round in any state verifies, and the winner recomputed from a cleared
\* round's receipt is the one the contract chose.
THEOREM ReceiptsAgreeV1 == SpecV1 => []ReceiptsVerifyV1
<1>1. IInvV1 => ReceiptsVerifyV1
  BY ReceiptSoundV1 DEF ReceiptsVerifyV1
<1> QED BY <1>1, InvariantV1, PTL

---------------------------------------------------------------------------
(* Accounting.  A call moves tokens for one round only, and moves of every *)
(* account exactly what the account of that round changes by.              *)

OthersKeptV1(r) ==
    \A s \in RoundId \ {r} : roundV1'[s] = roundV1[s] /\ bidV1'[s] = bidV1[s]

BalancedV1(r) ==
    \A a \in Asset, x \in Account :
        wallet'[a][x] = wallet[a][x] + NetPaidV1(r, a, x) - NetPaidV1(r, a, x)'

\* What a round keeps of an account is a number.
LEMMA NetPaidIntV1 ==
    ASSUME ShapeV1, NEW r \in RoundId, NEW a, NEW x \in Account
    PROVE  NetPaidV1(r, a, x) \in Int
<1>1. CASE ~ StoredV1(r) \/ a # Usdc
  BY <1>1 DEF NetPaidV1
<1>2. CASE StoredV1(r) /\ a = Usdc
  <2>1. roundV1[r].winning_bid \in Int
    BY <1>2 DEF ShapeV1, StoredV1, RoundRecordV1
  <2>2. HasBid(r, x) => BidOf(r, x).escrow \in Int
    BY DEF ShapeV1, HasBid, BidOf, BidState
  <2> QED BY <1>2, <2>1, <2>2 DEF NetPaidV1
<1> QED BY <1>1, <1>2

\* Until a round ends it keeps of everybody just the escrow.
LEMMA LivePaidV1 ==
    ASSUME IInvV1, NEW r \in RoundId, StoredV1(r),
           roundV1[r].status \in {"Open", "Revealing", "Cleared"},
           NEW a, NEW x \in Account
    PROVE  /\ NetPaidV1(r, a, x) = IF a = Usdc THEN UnsettledV1(r, x) ELSE 0
           /\ UnsettledV1(r, x) = IF HasBid(r, x) THEN BidOf(r, x).escrow ELSE 0
           /\ OwingV1(r, x) <=> HasBid(r, x)
           /\ UnsettledV1(r, x) \in Nat
<1>1. HasBid(r, x) => BidSoundV1(r, x)
  BY DEF IInvV1, RoundInvV1
<1>2. x \in BiddersV1(r) <=> HasBid(r, x)
  BY DEF IInvV1, RoundInvV1, IndexSoundV1, BiddersV1
<1>3. OwingV1(r, x) <=> HasBid(r, x)
  BY <1>1, <1>2 DEF OwingV1, BidSoundV1
<1>4. UnsettledV1(r, x) \in Nat
  BY UnsettledNatV1
<1>5. UnsettledV1(r, x) = IF HasBid(r, x) THEN BidOf(r, x).escrow ELSE 0
  BY <1>3 DEF UnsettledV1
<1> QED BY <1>3, <1>4, <1>5 DEF NetPaidV1

\* The record of round r after a step that changes its status only.
LEMMA StatusStepV1 ==
    ASSUME ShapeV1, NEW r \in RoundId, StoredV1(r), NEW status \in Status,
           roundV1' = [roundV1 EXCEPT ![r].status = status]
    PROVE  /\ StoredV1(r)' /\ roundV1'[r].status = status
           /\ roundV1'[r].operator = roundV1[r].operator
           /\ roundV1'[r].winner = roundV1[r].winner
           /\ roundV1'[r].winning_bid = roundV1[r].winning_bid
           /\ \A s \in RoundId \ {r} : roundV1'[s] = roundV1[s]
<1> DEFINE round == [roundV1[r] EXCEPT !.status = status]
<1>1. roundV1[r] \in RoundRecordV1
  BY DEF ShapeV1, StoredV1
<1>2. /\ round \in RoundRecordV1 /\ round.status = status
      /\ round.operator = roundV1[r].operator /\ round.winner = roundV1[r].winner
      /\ round.winning_bid = roundV1[r].winning_bid
  BY <1>1 DEF RoundRecordV1
<1>3. roundV1' = [roundV1 EXCEPT ![r] = round]
  OBVIOUS
<1> HIDE DEF round
<1> QED BY <1>2, <1>3, NoneIsNoValueV1 DEF ShapeV1, StoredV1

\* create_round takes nothing.
LEMMA CreateBalancedV1 ==
    ASSUME IInvV1, NEW operator \in Account, NEW q \in RequestV1, CreateRound(operator, q)
    PROVE  \E r \in RoundId : OthersKeptV1(r) /\ BalancedV1(r)
<1>1. /\ roundCounter < MaxRounds /\ roundCounter \in 0 .. MaxRounds /\ MaxRounds \in Nat
  BY LedgerAssumption DEF CreateRound, IInvV1, ShapeV1, LedgerTypeOK
<1> PICK id \in RoundId : id = NextRoundId
  BY <1>1 DEF NextRoundId, RoundId
<1> DEFINE round == [operator |-> operator, reveal_round |-> q.reveal_round,
                     clearing_rule |-> q.clearing_rule, commit_deadline |-> q.commit_deadline,
                     reveal_deadline |-> q.reveal_deadline, status |-> "Open",
                     bidders |-> <<>>, winner |-> None, winning_bid |-> 0]
<1>2. ~ StoredV1(id) /\ \A x \in Account : ~ HasBid(id, x)
  <2>1. ~ StoredV1(id)
    BY <1>1 DEF IInvV1, CountedV1, NextRoundId
  <2> QED BY <2>1, EmptyIndex DEF IInvV1, RoundInvV1, IndexSoundV1
<1>3. roundV1' = [roundV1 EXCEPT ![id] = round] /\ bidV1' = bidV1 /\ wallet' = wallet
  BY DEF CreateRound
<1>4. round.status = "Open"
  OBVIOUS
<1> HIDE DEF round
<1>5. roundV1'[id] = round /\ OthersKeptV1(id)
  BY <1>3 DEF IInvV1, ShapeV1, OthersKeptV1
<1>6. ASSUME NEW a \in Asset, NEW x \in Account
      PROVE  NetPaidV1(id, a, x) = 0 /\ NetPaidV1(id, a, x)' = 0
  BY <1>2, <1>3, <1>4, <1>5 DEF NetPaidV1, HasBid
<1>7. \A a \in Asset, x \in Account : wallet[a][x] \in Int
  BY DEF IInvV1, ShapeV1, LedgerTypeOK
<1>8. BalancedV1(id)
  BY <1>3, <1>6, <1>7 DEF BalancedV1
<1> QED BY <1>5, <1>8

\* commit takes the new escrow and gives back the one it replaces.
LEMMA CommitBalancedV1 ==
    ASSUME IInvV1, NEW r \in RoundId, NEW b \in Account, NEW p \in Preimage,
           NEW escrow \in EscrowV1, Commit(r, b, p, escrow)
    PROVE  OthersKeptV1(r) /\ BalancedV1(r)
<1> DEFINE new == [commitment |-> Sha256(p), escrow |-> escrow, revealed |-> None,
                   valid |-> FALSE, settled |-> FALSE]
           index == IF HasBid(r, b) THEN roundV1[r].bidders ELSE Append(roundV1[r].bidders, b)
           round == [roundV1[r] EXCEPT !.bidders = index]
           back == EscrowBack(r, b)
<1>1. /\ StoredV1(r) /\ roundV1[r].status = "Open" /\ escrow \in Int
      /\ roundV1[r] \in RoundRecordV1
  BY RoundV1Assumption DEF Commit, CommitOpen, IInvV1, ShapeV1, StoredV1
<1>2. /\ bidV1' = [bidV1 EXCEPT ![r] = [bidV1[r] EXCEPT ![b] = new]]
      /\ roundV1' = [roundV1 EXCEPT ![r] = round]
  BY DEF Commit
<1>3. round.status = "Open" /\ new.escrow = escrow /\ new # None
  <2>1. escrow > 0
    BY DEF Commit, PositiveEscrow
  <2>2. new \in BidState
    BY <1>1, <2>1 DEF BidState, Sha256
  <2> QED BY <1>1, <2>2, NoneIsNoValueV1 DEF RoundRecordV1
<1>4. StoredV1(r)'
  BY <1>1, CommitStepV1 DEF StoredStaysV1
<1> HIDE DEF new, round
<1>5. /\ roundV1'[r] = round /\ bidV1'[r][b] = new
      /\ \A x \in Account \ {b} : bidV1'[r][x] = bidV1[r][x]
      /\ OthersKeptV1(r)
  BY <1>2 DEF IInvV1, ShapeV1, OthersKeptV1
<1>6. ASSUME NEW a \in Asset, NEW x \in Account
      PROVE  /\ NetPaidV1(r, a, x) = IF a = Usdc /\ HasBid(r, x) THEN BidOf(r, x).escrow ELSE 0
             /\ NetPaidV1(r, a, x)' =
                   IF a = Usdc /\ HasBid(r, x)' THEN BidOf(r, x)'.escrow ELSE 0
             /\ HasBid(r, x) => BidOf(r, x).escrow \in Int
  <2>1. HasBid(r, x) => BidOf(r, x).escrow \in Int
    BY DEF IInvV1, ShapeV1, HasBid, BidOf, BidState
  <2>2. HasBid(r, x)' => BidOf(r, x)'.escrow \in Int
    BY <1>1, <1>3, <1>5, <2>1 DEF HasBid, BidOf
  <2> QED BY <1>1, <1>3, <1>4, <1>5, <2>1, <2>2 DEF NetPaidV1
<1>7. wallet' = [a \in Asset |-> [x \in Account |-> wallet[a][x] +
                   (IF a = Usdc /\ x = b THEN back - escrow ELSE 0)]]
  BY DEF Commit, Credited
<1>8. ASSUME NEW a \in Asset, NEW x \in Account
      PROVE  wallet'[a][x] = wallet[a][x] + NetPaidV1(r, a, x) - NetPaidV1(r, a, x)'
  <2>1. /\ wallet[a][x] \in Int
        /\ wallet'[a][x] = wallet[a][x] + (IF a = Usdc /\ x = b THEN back - escrow ELSE 0)
    BY <1>7 DEF IInvV1, ShapeV1, LedgerTypeOK
  <2>2. CASE a = Usdc /\ x = b
    <3>1. NetPaidV1(r, a, x) = back /\ back \in Int /\ NetPaidV1(r, a, x)' = escrow
      BY <1>3, <1>5, <1>6, <2>2 DEF HasBid, BidOf, EscrowBack
    <3> HIDE DEF back
    <3> QED BY <1>1, <2>1, <2>2, <3>1
  <2>3. CASE ~ (a = Usdc /\ x = b)
    <3>1. NetPaidV1(r, a, x)' = NetPaidV1(r, a, x) /\ NetPaidV1(r, a, x) \in Int
      BY <1>5, <1>6, <2>3 DEF HasBid, BidOf
    <3> QED BY <2>1, <2>3, <3>1
  <2> QED BY <2>2, <2>3
<1> QED BY <1>5, <1>8 DEF BalancedV1

\* open_reveal, reveal and the choice of a winner move no token.
LEMMA QuietBalancedV1 ==
    ASSUME IInvV1, NEW r \in RoundId, StoredV1(r), StoredV1(r)', OthersKeptV1(r), wallet' = wallet,
           roundV1[r].status \in {"Open", "Revealing"},
           roundV1'[r].status \in {"Revealing", "Cleared"},
           \A x \in Account : /\ HasBid(r, x)' <=> HasBid(r, x)
                              /\ HasBid(r, x) => BidOf(r, x)'.escrow = BidOf(r, x).escrow
    PROVE  BalancedV1(r)
<1>1. ASSUME NEW a \in Asset, NEW x \in Account
      PROVE  NetPaidV1(r, a, x)' = NetPaidV1(r, a, x) /\ NetPaidV1(r, a, x) \in Int
  BY NetPaidIntV1 DEF NetPaidV1, IInvV1
<1>2. \A a \in Asset, x \in Account : wallet[a][x] \in Int
  BY DEF IInvV1, ShapeV1, LedgerTypeOK
<1> QED BY <1>1, <1>2 DEF BalancedV1

\* Voiding gives everybody the escrow back.
LEMMA VoidBalancedV1 ==
    ASSUME IInvV1, NEW r \in RoundId, StoredV1(r), roundV1[r].status \in {"Open", "Revealing"},
           VoidRoundV1(r)
    PROVE  OthersKeptV1(r) /\ BalancedV1(r)
<1>1. /\ StoredV1(r)' /\ roundV1'[r].status = "Voided"
      /\ \A s \in RoundId \ {r} : roundV1'[s] = roundV1[s]
  BY StatusStepV1 DEF VoidRoundV1, IInvV1, Status
<1>2. \A s \in RoundId \ {r} : bidV1'[s] = bidV1[s]
  BY DEF VoidRoundV1, RefundAllV1, SettledV1, IInvV1, ShapeV1
<1>3. ASSUME NEW a \in Asset, NEW x \in Account
      PROVE  wallet'[a][x] = wallet[a][x] + NetPaidV1(r, a, x) - NetPaidV1(r, a, x)'
  <2>1. /\ wallet[a][x] \in Int
        /\ wallet'[a][x] = wallet[a][x] + (IF a = Usdc THEN UnsettledV1(r, x) ELSE 0)
    BY DEF VoidRoundV1, RefundAllV1, Credited, IInvV1, ShapeV1, LedgerTypeOK
  <2>2. /\ NetPaidV1(r, a, x) = IF a = Usdc THEN UnsettledV1(r, x) ELSE 0
        /\ UnsettledV1(r, x) \in Nat
    BY LivePaidV1
  <2>3. NetPaidV1(r, a, x)' = 0
    BY <1>1 DEF NetPaidV1
  <2> QED BY <2>1, <2>2, <2>3
<1> QED BY <1>1, <1>2, <1>3 DEF OthersKeptV1, BalancedV1

\* settle gives the losers their escrow, the winner its surplus, and the
\* operator the price, which is within the winner's escrow.
LEMMA SettleBalancedV1 ==
    ASSUME IInvV1, NEW r \in RoundId, Settle(r)
    PROVE  OthersKeptV1(r) /\ BalancedV1(r)
<1>1. StoredV1(r) /\ roundV1[r].status = "Cleared" /\ roundV1[r] \in RoundRecordV1
  BY DEF Settle, IInvV1, ShapeV1, StoredV1
<1>2. /\ StoredV1(r)' /\ roundV1'[r].status = "Settled"
      /\ roundV1'[r].operator = roundV1[r].operator
      /\ roundV1'[r].winner = roundV1[r].winner
      /\ roundV1'[r].winning_bid = roundV1[r].winning_bid
      /\ \A s \in RoundId \ {r} : roundV1'[s] = roundV1[s]
  BY <1>1, StatusStepV1 DEF Settle, IInvV1, Status
<1>3. \A s \in RoundId \ {r} : bidV1'[s] = bidV1[s]
  BY DEF Settle, SettledV1, IInvV1, ShapeV1
<1> DEFINE w == roundV1[r].winner
           price == roundV1[r].winning_bid
<1>4. w \in Account /\ HasBid(r, w) /\ price \in 1 .. BidOf(r, w).escrow /\ price \in Nat
  <2>1. PICK i \in RevealedV1(r) : w = roundV1[r].bidders[i] /\ price \in 1 .. BidAtV1(r, i).escrow
    BY <1>1 DEF IInvV1, RoundInvV1, OutcomeSoundV1
  <2>2. i \in DOMAIN roundV1[r].bidders
    BY DEF RevealedV1
  <2> QED BY <1>1, <2>1, <2>2, IndexedV1 DEF BidAtV1, RoundRecordV1
<1>5. OwingV1(r, w) /\ UnsettledV1(r, w) = BidOf(r, w).escrow /\ UnsettledV1(r, w) \in Nat
  BY <1>1, <1>4, LivePaidV1
<1>6. ASSUME NEW a \in Asset, NEW x \in Account
      PROVE  wallet'[a][x] = wallet[a][x] + NetPaidV1(r, a, x) - NetPaidV1(r, a, x)'
  <2>1. /\ wallet[a][x] \in Int
        /\ wallet'[a][x] = wallet[a][x] + (IF a = Usdc THEN PayoutV1(r, x) ELSE 0)
    BY DEF Settle, Credited, IInvV1, ShapeV1, LedgerTypeOK
  <2>2. /\ NetPaidV1(r, a, x) = IF a = Usdc THEN UnsettledV1(r, x) ELSE 0
        /\ UnsettledV1(r, x) \in Nat
    BY <1>1, LivePaidV1
  <2>3. a # Usdc => NetPaidV1(r, a, x)' = 0
    BY DEF NetPaidV1
  <2>4. a = Usdc => NetPaidV1(r, a, x)' = (IF x = w THEN price ELSE 0)
                                          - (IF x = roundV1[r].operator THEN price ELSE 0)
    BY <1>2, <1>4 DEF NetPaidV1
  <2>5. PayoutV1(r, x) = UnsettledV1(r, x) - (IF x = w THEN price ELSE 0)
                           + (IF x = roundV1[r].operator THEN price ELSE 0)
    BY <1>4, <1>5, <2>2 DEF PayoutV1
  <2> HIDE DEF price, w
  <2>6. CASE a # Usdc
    BY <2>1, <2>2, <2>3, <2>6
  <2>7. CASE a = Usdc
    BY <1>4, <2>1, <2>2, <2>4, <2>5, <2>7
  <2> QED BY <2>6, <2>7
<1> QED BY <1>2, <1>3, <1>6 DEF OthersKeptV1, BalancedV1

\* Every call balances the account of the one round it is about.
LEMMA CallBalancedV1 ==
    ASSUME IInvV1, CallV1
    PROVE  \E r \in RoundId : OthersKeptV1(r) /\ BalancedV1(r)
<1>1. ASSUME NEW op \in Account, NEW q \in RequestV1, CreateRound(op, q)
      PROVE  \E r \in RoundId : OthersKeptV1(r) /\ BalancedV1(r)
  BY <1>1, CreateBalancedV1
<1>2. ASSUME NEW r \in RoundId, NEW b \in Account, NEW p \in Preimage, NEW x \in EscrowV1,
             Commit(r, b, p, x)
      PROVE  OthersKeptV1(r) /\ BalancedV1(r)
  BY <1>2, CommitBalancedV1
<1>3. ASSUME NEW r \in RoundId, OpenReveal(r) PROVE OthersKeptV1(r) /\ BalancedV1(r)
  <2>1. StoredV1(r) /\ StoredV1(r)' /\ roundV1'[r].status = "Revealing" /\ OthersKeptV1(r)
    BY <1>3, StatusStepV1 DEF OpenReveal, IInvV1, Status, OthersKeptV1
  <2> QED BY <1>3, <2>1, QuietBalancedV1 DEF OpenReveal, ledgerVars, HasBid, BidOf
<1>4. ASSUME NEW r \in RoundId, NEW b \in Account, NEW p \in Preimage, Reveal(r, b, p)
      PROVE  OthersKeptV1(r) /\ BalancedV1(r)
  <2> DEFINE positive == p.value > 0
             new == [bidV1[r][b] EXCEPT !.revealed = p, !.valid = positive]
  <2>1. bidV1[r][b] \in BidState
    BY <1>4 DEF Reveal, HasBid, IInvV1, ShapeV1
  <2>2. bidV1' = [bidV1 EXCEPT ![r] = [bidV1[r] EXCEPT ![b] = new]] /\ roundV1' = roundV1
    BY <1>4 DEF Reveal
  <2>3. positive \in BOOLEAN
    OBVIOUS
  <2> HIDE DEF positive
  <2>4. new.escrow = bidV1[r][b].escrow /\ new # None /\ bidV1[r][b] # None
    BY <2>1, <2>3, NoneIsNoValueV1 DEF BidState
  <2> HIDE DEF new
  <2>5. /\ OthersKeptV1(r)
        /\ \A x \in Account : /\ HasBid(r, x)' <=> HasBid(r, x)
                              /\ HasBid(r, x) => BidOf(r, x)'.escrow = BidOf(r, x).escrow
    BY <2>2, <2>4 DEF OthersKeptV1, HasBid, BidOf, IInvV1, ShapeV1
  <2>6. StoredV1(r) /\ StoredV1(r)' /\ roundV1[r].status = "Revealing"
        /\ roundV1'[r].status = "Revealing" /\ wallet' = wallet
    BY <1>4, <2>2 DEF Reveal, StoredV1, ledgerVars
  <2> QED BY <2>5, <2>6, QuietBalancedV1
<1>5. ASSUME NEW r \in RoundId, Clear(r) PROVE OthersKeptV1(r) /\ BalancedV1(r)
  <2>1. CASE VoidRoundV1(r)
    BY <1>5, <2>1, VoidBalancedV1 DEF Clear
  <2>2. CASE SelectWinnerV1(r)
    <3>1. PICK w, bid : roundV1' = [roundV1 EXCEPT ![r].status = "Cleared", ![r].winner = w,
                                                   ![r].winning_bid = bid]
      BY <2>2 DEF SelectWinnerV1
    <3>2. roundV1[r] \in RoundRecordV1 /\ StoredV1(r)
      BY <1>5 DEF Clear, IInvV1, ShapeV1, StoredV1
    <3>3. roundV1'[r].status = "Cleared" /\ OthersKeptV1(r)
      <4>1. [roundV1[r] EXCEPT !.status = "Cleared", !.winner = w, !.winning_bid = bid].status
              = "Cleared"
        BY <3>2 DEF RoundRecordV1
      <4>2. roundV1'[r] = [roundV1[r] EXCEPT !.status = "Cleared", !.winner = w,
                                             !.winning_bid = bid]
        BY <3>1 DEF IInvV1, ShapeV1
      <4>3. \A s \in RoundId \ {r} : roundV1'[s] = roundV1[s] /\ bidV1'[s] = bidV1[s]
        BY <2>2, <3>1 DEF SelectWinnerV1, IInvV1, ShapeV1
      <4> QED BY <4>1, <4>2, <4>3 DEF OthersKeptV1
    <3>4. StoredV1(r)'
      BY <1>5, <3>2, ClearStepV1 DEF StoredStaysV1
    <3> QED BY <1>5, <2>2, <3>2, <3>3, <3>4, QuietBalancedV1 DEF Clear, SelectWinnerV1, HasBid, BidOf
  <2> QED BY <1>5, <2>1, <2>2 DEF Clear
<1>6. ASSUME NEW r \in RoundId, Settle(r) \/ Void(r) PROVE OthersKeptV1(r) /\ BalancedV1(r)
  BY <1>6, SettleBalancedV1, VoidBalancedV1 DEF Void
<1> QED BY <1>1, <1>2, <1>3, <1>4, <1>5, <1>6 DEF CallV1

\* A call about one round keeps the books.
LEMMA BalancedKeepsBooksV1 ==
    ASSUME ShapeV1, ShapeV1', AccountsBalanceV1, NEW r \in RoundId, OthersKeptV1(r), BalancedV1(r)
    PROVE  AccountsBalanceV1'
<1> SUFFICES ASSUME NEW a \in Asset, NEW x \in Account
             PROVE  wallet'[a][x] = InitialBalance[a][x]
                      - SumFunction([s \in RoundId |-> NetPaidV1(s, a, x)'])
  BY DEF AccountsBalanceV1
<1> DEFINE paid == [s \in RoundId |-> NetPaidV1(s, a, x)]
           paid2 == [s \in RoundId |-> NetPaidV1(s, a, x)']
<1>1. \A s \in RoundId : paid[s] \in Int
  BY NetPaidIntV1
<1>2. \A s \in RoundId \ {r} : NetPaidV1(s, a, x)' = NetPaidV1(s, a, x)
  BY DEF OthersKeptV1, NetPaidV1, StoredV1, HasBid, BidOf
<1>3. wallet'[a][x] = wallet[a][x] + paid[r] - paid2[r]
  BY DEF BalancedV1
<1>4. wallet[a][x] \in Int /\ wallet'[a][x] \in Int /\ InitialBalance[a][x] \in Int
  BY LedgerAssumption DEF ShapeV1, LedgerTypeOK
<1>5. paid2[r] \in Int
  <2>1. CASE ~ StoredV1(r)' \/ a # Usdc
    BY <2>1 DEF NetPaidV1
  <2>2. CASE StoredV1(r)' /\ a = Usdc
    <3>1. roundV1'[r].winning_bid \in Int
      BY <2>2 DEF ShapeV1, StoredV1, RoundRecordV1
    <3>2. HasBid(r, x)' => BidOf(r, x)'.escrow \in Int
      BY DEF ShapeV1, HasBid, BidOf, BidState
    <3> QED BY <2>2, <3>1, <3>2 DEF NetPaidV1
  <2> QED BY <2>1, <2>2
<1>6. \A s \in RoundId : paid[s] \in Int /\ paid2[s] \in Int /\ (s # r => paid[s] = paid2[s])
  BY <1>1, <1>2, <1>5
<1>7. wallet[a][x] = InitialBalance[a][x] - SumFunction(paid)
  BY DEF AccountsBalanceV1
<1>8. paid = [s \in RoundId |-> paid[s]] /\ paid2 = [s \in RoundId |-> paid2[s]]
  OBVIOUS
<1> HIDE DEF paid, paid2
<1>9. wallet'[a][x] = InitialBalance[a][x] - SumFunction(paid2)
  BY <1>3, <1>4, <1>6, <1>7, <1>8, BooksKept
<1> QED BY <1>9 DEF paid2

\* No path through commit, overwrite, clear, settle and void refunds twice,
\* forgets a refund or pays out of another round: every account always holds
\* what it started with, less its live escrows and what the outcomes moved.
THEOREM AccountsExactV1 == SpecV1 => []AccountsBalanceV1
<1>1. InitV1 => AccountsBalanceV1
  <2> SUFFICES ASSUME InitV1, NEW a \in Asset, NEW x \in Account
               PROVE  wallet[a][x] = InitialBalance[a][x]
                        - SumFunction([r \in RoundId |-> NetPaidV1(r, a, x)])
    BY DEF AccountsBalanceV1
  <2> DEFINE paid == [r \in RoundId |-> NetPaidV1(r, a, x)]
  <2>1. \A r \in RoundId : paid[r] = 0
    BY DEF InitV1, StorageInitV1, NetPaidV1, StoredV1
  <2>2. paid = [r \in RoundId |-> paid[r]]
    OBVIOUS
  <2> HIDE DEF paid
  <2>3. SumFunction(paid) = 0
    BY <2>1, <2>2, BooksOpen
  <2>4. wallet[a][x] = InitialBalance[a][x] /\ InitialBalance[a][x] \in Int
    BY LedgerAssumption DEF InitV1, LedgerInit
  <2> QED BY <2>3, <2>4 DEF paid
<1>2. IInvV1 /\ IInvV1' /\ AccountsBalanceV1 /\ [NextV1]_varsV1 => AccountsBalanceV1'
  <2> SUFFICES ASSUME IInvV1, IInvV1', AccountsBalanceV1, [NextV1]_varsV1
               PROVE  AccountsBalanceV1'
    OBVIOUS
  <2>1. CASE CallV1
    BY <2>1, CallBalancedV1, BalancedKeepsBooksV1 DEF IInvV1
  <2>2. CASE ~ CallV1
    <3>1. wallet' = wallet /\ UNCHANGED storageV1
      BY <2>2 DEF NextV1, varsV1, ledgerVars, LedgerNext, CloseLedger, PublishBeacon
    <3>2. \A r, a, x : NetPaidV1(r, a, x)' = NetPaidV1(r, a, x)
      BY <3>1 DEF storageV1, NetPaidV1, StoredV1, HasBid, BidOf
    <3> QED BY <3>1, <3>2 DEF AccountsBalanceV1
  <2> QED BY <2>1, <2>2
<1> QED BY <1>1, <1>2, InvariantV1, PTL DEF SpecV1

---------------------------------------------------------------------------
(* Refinement: a v1 round implements SealedRound.                          *)

\* What a step of round r alone does to the mapped variables.
LEMMA MapStepV1 ==
    ASSUME NEW r \in RoundId, OthersKeptV1(r)
    PROVE  /\ phaseV1' = [phaseV1 EXCEPT ![r] = PhaseV1(r)']
           /\ stakeV1' = [stakeV1 EXCEPT ![r] = [x \in Account |-> StakeV1(r, x)']]
           /\ priceV1' = [priceV1 EXCEPT ![r] = [x \in Account |-> PriceV1(r, x)']]
           /\ phaseV1[r] = PhaseV1(r)
           /\ \A x \in Account : stakeV1[r][x] = StakeV1(r, x) /\ priceV1[r][x] = PriceV1(r, x)
<1>1. ASSUME NEW s \in RoundId \ {r}
      PROVE  /\ PhaseV1(s)' = PhaseV1(s)
             /\ \A x \in Account : StakeV1(s, x)' = StakeV1(s, x) /\ PriceV1(s, x)' = PriceV1(s, x)
  BY DEF OthersKeptV1, PhaseV1, StakeV1, PriceV1, StoredV1, HasBid, BidOf
<1>2. phaseV1' = [phaseV1 EXCEPT ![r] = PhaseV1(r)']
  BY <1>1 DEF phaseV1
<1>3. stakeV1' = [stakeV1 EXCEPT ![r] = [x \in Account |-> StakeV1(r, x)']]
  BY <1>1 DEF stakeV1
<1>4. priceV1' = [priceV1 EXCEPT ![r] = [x \in Account |-> PriceV1(r, x)']]
  BY <1>1 DEF priceV1
<1> QED BY <1>2, <1>3, <1>4 DEF phaseV1, stakeV1, priceV1

\* The rows of the mapped functions, to say that a step leaves one alone.
LEMMA SameRowsV1 ==
    ASSUME NEW r \in RoundId
    PROVE  /\ PhaseV1(r)' = PhaseV1(r) => [phaseV1 EXCEPT ![r] = PhaseV1(r)'] = phaseV1
           /\ (\A x \in Account : StakeV1(r, x)' = StakeV1(r, x)) =>
                 [stakeV1 EXCEPT ![r] = [x \in Account |-> StakeV1(r, x)']] = stakeV1
           /\ (\A x \in Account : PriceV1(r, x)' = PriceV1(r, x)) =>
                 [priceV1 EXCEPT ![r] = [x \in Account |-> PriceV1(r, x)']] = priceV1
BY DEF phaseV1, stakeV1, priceV1

\* Before the first round nothing is announced, staked or paid.
LEMMA InitRefinesV1 == InitV1 => AbstractV1!Init
<1> SUFFICES ASSUME InitV1 PROVE AbstractV1!Init
  OBVIOUS
<1>1. \A r \in RoundId : /\ PhaseV1(r) = "unborn"
                         /\ \A x \in Account : StakeV1(r, x) = 0 /\ PriceV1(r, x) = 0
  BY DEF InitV1, StorageInitV1, PhaseV1, StakeV1, PriceV1, StoredV1, HasBid
<1> QED BY <1>1 DEF AbstractV1!Init, AbstractV1!Nothing, phaseV1, stakeV1, priceV1

\* create_round announces a round.
LEMMA CreateRefinesV1 ==
    ASSUME IInvV1, NEW operator \in Account, NEW q \in RequestV1, CreateRound(operator, q)
    PROVE  AbstractV1!Next
<1>1. /\ roundCounter < MaxRounds /\ roundCounter \in 0 .. MaxRounds /\ MaxRounds \in Nat
  BY LedgerAssumption DEF CreateRound, IInvV1, ShapeV1, LedgerTypeOK
<1> PICK id \in RoundId : id = NextRoundId
  BY <1>1 DEF NextRoundId, RoundId
<1> DEFINE round == [operator |-> operator, reveal_round |-> q.reveal_round,
                     clearing_rule |-> q.clearing_rule, commit_deadline |-> q.commit_deadline,
                     reveal_deadline |-> q.reveal_deadline, status |-> "Open",
                     bidders |-> <<>>, winner |-> None, winning_bid |-> 0]
<1>2. ~ StoredV1(id) /\ \A x \in Account : ~ HasBid(id, x)
  <2>1. ~ StoredV1(id)
    BY <1>1 DEF IInvV1, CountedV1, NextRoundId
  <2> QED BY <2>1, EmptyIndex DEF IInvV1, RoundInvV1, IndexSoundV1
<1>3. roundV1' = [roundV1 EXCEPT ![id] = round] /\ bidV1' = bidV1
  BY DEF CreateRound
<1>4. round.status = "Open" /\ round.winner = None
  OBVIOUS
<1> HIDE DEF round
<1>5. roundV1'[id] = round /\ OthersKeptV1(id)
  BY <1>3 DEF IInvV1, ShapeV1, OthersKeptV1
<1>6. StoredV1(id)'
  BY CreateStepV1 DEF StoredV1
<1>7. PhaseV1(id) = "unborn" /\ PhaseV1(id)' = "collecting"
  BY <1>2, <1>4, <1>5, <1>6 DEF PhaseV1
<1>8. ASSUME NEW x \in Account
      PROVE  StakeV1(id, x)' = StakeV1(id, x) /\ PriceV1(id, x)' = PriceV1(id, x)
  BY <1>2, <1>3, <1>4, <1>5, NoneIsNoValueV1 DEF StakeV1, PriceV1, HasBid, BidOf
<1>9. AbstractV1!Announce(id)
  BY <1>5, <1>7, <1>8, MapStepV1, SameRowsV1 DEF AbstractV1!Announce
<1> QED BY <1>9 DEF AbstractV1!Next

\* commit sets the stake of one party of a collecting round.
LEMMA CommitRefinesV1 ==
    ASSUME IInvV1, IInvV1', NEW r \in RoundId, NEW b \in Account, NEW p \in Preimage,
           NEW escrow \in EscrowV1, Commit(r, b, p, escrow), StoredStaysV1
    PROVE  AbstractV1!Next
<1> DEFINE new == [commitment |-> Sha256(p), escrow |-> escrow, revealed |-> None,
                   valid |-> FALSE, settled |-> FALSE]
           index == IF HasBid(r, b) THEN roundV1[r].bidders ELSE Append(roundV1[r].bidders, b)
           round == [roundV1[r] EXCEPT !.bidders = index]
<1>1. StoredV1(r) /\ roundV1[r] \in RoundRecordV1 /\ roundV1[r].status = "Open"
  BY DEF Commit, CommitOpen, IInvV1, ShapeV1, StoredV1
<1>2. /\ bidV1' = [bidV1 EXCEPT ![r] = [bidV1[r] EXCEPT ![b] = new]]
      /\ roundV1' = [roundV1 EXCEPT ![r] = round]
  BY DEF Commit
<1>3. /\ round.status = "Open" /\ round.winner = roundV1[r].winner
      /\ round.winning_bid = roundV1[r].winning_bid
  BY <1>1 DEF RoundRecordV1
<1> HIDE DEF new, round
<1>4. /\ roundV1'[r] = round /\ OthersKeptV1(r)
      /\ \A x \in Account \ {b} : bidV1'[r][x] = bidV1[r][x]
  BY <1>2 DEF IInvV1, ShapeV1, OthersKeptV1
<1>5. StoredV1(r)'
  BY <1>1 DEF StoredStaysV1
<1>6. PhaseV1(r) = "collecting" /\ PhaseV1(r)' = "collecting"
  BY <1>1, <1>3, <1>4, <1>5 DEF PhaseV1
<1>7. \A x \in Account : PriceV1(r, x)' = PriceV1(r, x)
  BY <1>1, <1>3, <1>4, <1>5 DEF PriceV1
<1>8. \A x \in Account \ {b} : StakeV1(r, x)' = StakeV1(r, x)
  BY <1>4 DEF StakeV1, HasBid, BidOf
<1>9. StakeV1(r, b)' \in Nat
  BY DEF StakeV1, HasBid, BidOf, IInvV1, ShapeV1, BidState
<1>10. stakeV1' = [stakeV1 EXCEPT ![r] = [x \in Account |-> StakeV1(r, x)']]
  BY <1>4, MapStepV1
<1>11. [x \in Account |-> StakeV1(r, x)'] = [stakeV1[r] EXCEPT ![b] = StakeV1(r, b)']
  BY <1>8 DEF stakeV1
<1>12. stakeV1'[r][b] = StakeV1(r, b)'
  BY DEF stakeV1
<1>13. stakeV1' = [stakeV1 EXCEPT ![r][b] = stakeV1'[r][b]]
  BY <1>10, <1>11, <1>12
<1>14. phaseV1' = phaseV1 /\ priceV1' = priceV1 /\ phaseV1[r] = "collecting"
  BY <1>4, <1>6, <1>7, MapStepV1, SameRowsV1
<1>15. AbstractV1!Stake(r, b)
  BY <1>9, <1>12, <1>13, <1>14 DEF AbstractV1!Stake
<1> QED BY <1>15 DEF AbstractV1!Next

\* open_reveal ends the collecting of stakes.
LEMMA OpenRefinesV1 ==
    ASSUME IInvV1, NEW r \in RoundId, OpenReveal(r)
    PROVE  AbstractV1!Next
<1>1. StoredV1(r) /\ roundV1[r].status = "Open" /\ bidV1' = bidV1
      /\ roundV1' = [roundV1 EXCEPT ![r].status = "Revealing"]
  BY DEF OpenReveal
<1>2. /\ StoredV1(r)' /\ roundV1'[r].status = "Revealing" /\ OthersKeptV1(r)
      /\ roundV1'[r].winner = roundV1[r].winner
      /\ roundV1'[r].winning_bid = roundV1[r].winning_bid
  BY <1>1, StatusStepV1 DEF IInvV1, Status, OthersKeptV1
<1>3. PhaseV1(r) = "collecting" /\ PhaseV1(r)' = "opened"
  BY <1>1, <1>2 DEF PhaseV1
<1>4. \A x \in Account : PriceV1(r, x)' = PriceV1(r, x) /\ StakeV1(r, x)' = StakeV1(r, x)
  BY <1>1, <1>2 DEF PriceV1, StakeV1, HasBid, BidOf
<1>5. AbstractV1!Open(r)
  BY <1>2, <1>3, <1>4, MapStepV1, SameRowsV1 DEF AbstractV1!Open
<1> QED BY <1>5 DEF AbstractV1!Next

\* reveal is invisible: it moves neither stakes nor prices.
LEMMA RevealRefinesV1 ==
    ASSUME IInvV1, NEW r \in RoundId, NEW b \in Account, NEW p \in Preimage, Reveal(r, b, p)
    PROVE  UNCHANGED <<phaseV1, stakeV1, priceV1>>
<1> DEFINE positive == p.value > 0
           new == [bidV1[r][b] EXCEPT !.revealed = p, !.valid = positive]
<1>1. bidV1[r][b] \in BidState
  BY DEF Reveal, HasBid, IInvV1, ShapeV1
<1>2. bidV1' = [bidV1 EXCEPT ![r] = [bidV1[r] EXCEPT ![b] = new]] /\ roundV1' = roundV1
  BY DEF Reveal
<1>3. positive \in BOOLEAN
  OBVIOUS
<1> HIDE DEF positive
<1>4. /\ new.settled = bidV1[r][b].settled /\ new.escrow = bidV1[r][b].escrow
      /\ new # None /\ bidV1[r][b] # None
  BY <1>1, <1>3, NoneIsNoValueV1 DEF BidState
<1> HIDE DEF new
<1>5. /\ bidV1'[r][b] = new /\ OthersKeptV1(r)
      /\ \A x \in Account \ {b} : bidV1'[r][x] = bidV1[r][x]
  BY <1>2 DEF IInvV1, ShapeV1, OthersKeptV1
<1>6. PhaseV1(r)' = PhaseV1(r) /\ \A x \in Account : PriceV1(r, x)' = PriceV1(r, x)
  BY <1>2 DEF PhaseV1, PriceV1, StoredV1
<1>7. \A x \in Account : StakeV1(r, x)' = StakeV1(r, x)
  BY <1>4, <1>5 DEF StakeV1, HasBid, BidOf
<1> QED BY <1>5, <1>6, <1>7, MapStepV1, SameRowsV1

\* settle and voiding release every stake of the round at once.
LEMMA EndRefinesV1 ==
    ASSUME IInvV1, IInvV1', NEW r \in RoundId, StoredV1(r),
           roundV1[r].status \in {"Open", "Revealing", "Cleared"},
           VoidRoundV1(r) \/ Settle(r)
    PROVE  AbstractV1!Next
<1>1. PICK status \in {"Voided", "Settled"} : roundV1' = [roundV1 EXCEPT ![r].status = status]
  BY DEF VoidRoundV1, Settle
<1>2. status \in Status
  BY DEF Status
<1>3. /\ StoredV1(r)' /\ roundV1'[r].status \in {"Voided", "Settled"}
      /\ roundV1'[r].winner = roundV1[r].winner
      /\ roundV1'[r].winning_bid = roundV1[r].winning_bid
      /\ \A s \in RoundId \ {r} : roundV1'[s] = roundV1[s]
  BY <1>1, <1>2, StatusStepV1 DEF IInvV1
<1>4. OthersKeptV1(r)
  BY <1>3 DEF OthersKeptV1, VoidRoundV1, RefundAllV1, Settle, SettledV1, IInvV1, ShapeV1
<1>5. PhaseV1(r) \in {"collecting", "opened", "decided"} /\ PhaseV1(r)' = "closed"
  BY <1>3 DEF PhaseV1
<1>6. \A x \in Account : PriceV1(r, x)' = PriceV1(r, x)
  BY <1>3 DEF PriceV1
<1>7. ASSUME NEW x \in Account PROVE StakeV1(r, x)' = 0
  <2>1. HasBid(r, x)' => BidSoundV1(r, x)'
    BY <1>3 DEF IInvV1, RoundInvV1
  <2> QED BY <1>3, <2>1 DEF BidSoundV1, StakeV1
<1>8. [x \in Account |-> StakeV1(r, x)'] = AbstractV1!Nothing
  BY <1>7 DEF AbstractV1!Nothing
<1>9. AbstractV1!Close(r)
  BY <1>4, <1>5, <1>6, <1>8, MapStepV1, SameRowsV1 DEF AbstractV1!Close
<1> QED BY <1>9 DEF AbstractV1!Next

\* clear with a winner fixes the one price, within the winner's stake.
LEMMA SelectRefinesV1 ==
    ASSUME IInvV1, IInvV1', NEW r \in RoundId, StoredV1(r), roundV1[r].status = "Revealing",
           SelectWinnerV1(r), StoredStaysV1
    PROVE  AbstractV1!Next
<1>1. roundV1[r] \in RoundRecordV1
  BY DEF IInvV1, ShapeV1, StoredV1
<1>2. PICK i \in WinningBids(roundV1[r].clearing_rule, OffersV1(r)) :
         roundV1' = [roundV1 EXCEPT ![r].status = "Cleared",
                                    ![r].winner = roundV1[r].bidders[i],
                                    ![r].winning_bid = OffersV1(r)[i]]
  BY DEF SelectWinnerV1
<1>3. /\ i \in DOMAIN roundV1[r].bidders
      /\ OffersV1(r)[i] = AmountV1(r, i)
      /\ AmountV1(r, i) \in 1 .. BidAtV1(r, i).escrow
  BY WinnerUnbeatenV1, OffersAreRevealedV1
<1> DEFINE w == roundV1[r].bidders[i]
           amount == AmountV1(r, i)
           round == [roundV1[r] EXCEPT !.status = "Cleared", !.winner = w, !.winning_bid = amount]
<1>4. w \in Account /\ HasBid(r, w)
  BY <1>3, IndexedV1
<1>5. /\ round.status = "Cleared" /\ round.winner = w /\ round.winning_bid = amount
      /\ roundV1' = [roundV1 EXCEPT ![r] = round]
  <2>1. roundV1' = [roundV1 EXCEPT ![r] = round]
    BY <1>2, <1>3 DEF IInvV1, ShapeV1
  <2> QED BY <1>1, <2>1 DEF RoundRecordV1
<1> HIDE DEF round
<1>6. roundV1'[r] = round /\ OthersKeptV1(r) /\ bidV1' = bidV1
  BY <1>5 DEF IInvV1, ShapeV1, SelectWinnerV1, OthersKeptV1
<1>7. StoredV1(r)'
  BY DEF StoredStaysV1
<1>8. PhaseV1(r) = "opened" /\ PhaseV1(r)' = "decided"
  BY <1>5, <1>6, <1>7 DEF PhaseV1
<1>9. \A x \in Account : StakeV1(r, x)' = StakeV1(r, x)
  BY <1>6 DEF StakeV1, HasBid, BidOf
<1>10. stakeV1' = stakeV1 /\ phaseV1[r] = "opened"
       /\ phaseV1' = [phaseV1 EXCEPT ![r] = "decided"]
       /\ stakeV1[r][w] = StakeV1(r, w)
  BY <1>4, <1>6, <1>8, <1>9, MapStepV1, SameRowsV1
<1>11. \A x \in Account : PriceV1(r, x) = 0
  BY NoneIsNoValueV1 DEF PriceV1, IInvV1, RoundInvV1, RecordSoundV1
<1>12. \A x \in Account : PriceV1(r, x)' = IF x = w THEN amount ELSE 0
  BY <1>5, <1>6, <1>7 DEF PriceV1
<1>13. priceV1' = [priceV1 EXCEPT ![r] = [x \in Account |-> PriceV1(r, x)']]
  BY <1>6, MapStepV1
<1>14. StakeV1(r, w) = BidAtV1(r, i).escrow
  <2>1. BidSoundV1(r, w)
    BY <1>4 DEF IInvV1, RoundInvV1
  <2> QED BY <1>4, <2>1 DEF BidSoundV1, StakeV1, BidAtV1, BidOf
<1> HIDE DEF w, amount
<1>15. [x \in Account |-> PriceV1(r, x)'] = [priceV1[r] EXCEPT ![w] = amount]
  BY <1>4, <1>11, <1>12 DEF priceV1
<1>16. priceV1'[r][w] = amount
  BY <1>4, <1>12 DEF priceV1
<1>17. priceV1' = [priceV1 EXCEPT ![r][w] = priceV1'[r][w]]
  BY <1>13, <1>15, <1>16
<1>18. amount \in 1 .. stakeV1[r][w]
  BY <1>3, <1>10, <1>14 DEF amount
<1>19. AbstractV1!Decide(r, w)
  BY <1>10, <1>16, <1>17, <1>18 DEF AbstractV1!Decide
<1> QED BY <1>4, <1>19 DEF AbstractV1!Next

\* Every step of the contract is a step of the abstract round or a stutter.
LEMMA StepRefinesV1 ==
    ASSUME IInvV1, IInvV1', [NextV1]_varsV1
    PROVE  [AbstractV1!Next]_<<phaseV1, stakeV1, priceV1>>
<1>0. StoredStaysV1
  BY NextIInvV1
<1>1. ASSUME NEW op \in Account, NEW q \in RequestV1, CreateRound(op, q) PROVE AbstractV1!Next
  BY <1>1, CreateRefinesV1
<1>2. ASSUME NEW r \in RoundId, NEW b \in Account, NEW p \in Preimage, NEW x \in EscrowV1,
             Commit(r, b, p, x)
      PROVE  AbstractV1!Next
  BY <1>0, <1>2, CommitRefinesV1
<1>3. ASSUME NEW r \in RoundId, OpenReveal(r) PROVE AbstractV1!Next
  BY <1>3, OpenRefinesV1
<1>4. ASSUME NEW r \in RoundId, NEW b \in Account, NEW p \in Preimage, Reveal(r, b, p)
      PROVE  UNCHANGED <<phaseV1, stakeV1, priceV1>>
  BY <1>4, RevealRefinesV1
<1>5. ASSUME NEW r \in RoundId, Clear(r) PROVE AbstractV1!Next
  BY <1>0, <1>5, EndRefinesV1, SelectRefinesV1 DEF Clear
<1>6. ASSUME NEW r \in RoundId, Settle(r) \/ Void(r) PROVE AbstractV1!Next
  BY <1>6, EndRefinesV1 DEF Settle, Void
<1>7. ASSUME UNCHANGED storageV1 PROVE UNCHANGED <<phaseV1, stakeV1, priceV1>>
  BY <1>7 DEF storageV1, phaseV1, stakeV1, priceV1, PhaseV1, StakeV1, PriceV1,
     StoredV1, HasBid, BidOf
<1> QED BY <1>1, <1>2, <1>3, <1>4, <1>5, <1>6, <1>7 DEF NextV1, CallV1, varsV1

\* Every behaviour of create_round, commit, open_reveal, reveal, clear, settle
\* and void is one of the abstract sealed round: stakes move only while the
\* round collects, one party pays at most its stake, and a round that ends
\* releases every stake in the same step.
THEOREM ImplementsV1 == SpecV1 => ImplementsSealedRoundV1
<1>1. IInvV1 /\ IInvV1' /\ [NextV1]_varsV1 => [AbstractV1!Next]_AbstractV1!vars
  BY StepRefinesV1 DEF AbstractV1!vars
<1> QED BY <1>1, InitRefinesV1, InvariantV1, PTL
    DEF SpecV1, ImplementsSealedRoundV1, AbstractV1!Spec

---------------------------------------------------------------------------
(* Reveals: what a stranger may do and what stays possible for the bidder. *)

\* Until its reveal window closes a round is neither cleared nor voided.
WindowOpenV1(r) ==
    StoredV1(r) /\ now <= roundV1[r].reveal_deadline => roundV1[r].status \in {"Open", "Revealing"}

WindowsOpenV1 == \A r \in RoundId : WindowOpenV1(r)

\* An entry point that leaves the deadline of a round leaves its window open if
\* it comes before the deadline only with a status of the window.
LEMMA EditKeepsWindowV1 ==
    ASSUME ShapeV1, WindowsOpenV1, now' = now, NEW r \in RoundId,
           StoredV1(r), NEW round, roundV1' = [roundV1 EXCEPT ![r] = round],
           round.reveal_deadline = roundV1[r].reveal_deadline,
           now <= roundV1[r].reveal_deadline => round.status \in {"Open", "Revealing"}
    PROVE  WindowsOpenV1'
<1> SUFFICES ASSUME NEW s \in RoundId PROVE WindowOpenV1(s)'
  BY DEF WindowsOpenV1
<1>1. CASE s = r
  BY <1>1 DEF ShapeV1, WindowOpenV1
<1>2. CASE s # r
  BY <1>2 DEF ShapeV1, WindowsOpenV1, WindowOpenV1, StoredV1
<1> QED BY <1>1, <1>2

\* clear comes after the reveal window, void later still.
LEMMA StepKeepsWindowsV1 ==
    ASSUME IInvV1, WindowsOpenV1, [NextV1]_varsV1
    PROVE  WindowsOpenV1'
<1>0. ShapeV1 /\ \A r \in RoundId : StoredV1(r) => roundV1[r] \in RoundRecordV1
  BY DEF IInvV1, ShapeV1, StoredV1
<1>1. ASSUME NEW op \in Account, NEW q \in RequestV1, CreateRound(op, q) PROVE WindowsOpenV1'
  BY <1>0, <1>1 DEF CreateRound, ShapeV1, WindowsOpenV1, WindowOpenV1, StoredV1
<1>2. ASSUME NEW r \in RoundId, NEW b \in Account, NEW p \in Preimage, NEW x \in EscrowV1,
             Commit(r, b, p, x)
      PROVE  WindowsOpenV1'
  <2> DEFINE round == [roundV1[r] EXCEPT !.bidders =
                          IF HasBid(r, b) THEN roundV1[r].bidders ELSE Append(roundV1[r].bidders, b)]
  <2>1. /\ StoredV1(r) /\ now' = now /\ roundV1' = [roundV1 EXCEPT ![r] = round]
        /\ roundV1[r].status = "Open"
    BY <1>2 DEF Commit, CommitOpen
  <2>2. round.reveal_deadline = roundV1[r].reveal_deadline /\ round.status = "Open"
    BY <1>0, <2>1 DEF RoundRecordV1
  <2> HIDE DEF round
  <2> QED BY <1>0, <2>1, <2>2, EditKeepsWindowV1
<1>3. ASSUME NEW r \in RoundId, NEW status, StoredV1(r), now' = now,
             roundV1' = [roundV1 EXCEPT ![r].status = status],
             now <= roundV1[r].reveal_deadline => status \in {"Open", "Revealing"}
      PROVE  WindowsOpenV1'
  <2> DEFINE round == [roundV1[r] EXCEPT !.status = status]
  <2>1. round.reveal_deadline = roundV1[r].reveal_deadline /\ round.status = status
    BY <1>0, <1>3 DEF RoundRecordV1
  <2>2. roundV1' = [roundV1 EXCEPT ![r] = round]
    BY <1>3
  <2> HIDE DEF round
  <2> QED BY <1>0, <1>3, <2>1, <2>2, EditKeepsWindowV1
<1>4. ASSUME NEW r \in RoundId, OpenReveal(r) PROVE WindowsOpenV1'
  BY <1>3, <1>4 DEF OpenReveal, ledgerVars
<1>5. ASSUME NEW r \in RoundId, Clear(r) \/ Void(r) \/ Settle(r) PROVE WindowsOpenV1'
  <2>1. now \in Int /\ VoidGrace \in Nat
        /\ (StoredV1(r) => roundV1[r].reveal_deadline \in Int)
    BY <1>0, U64Assumption, LedgerAssumption, RoundTypesAssumption
       DEF ShapeV1, LedgerTypeOK, RoundRecordV1, Time
  <2>2. StoredV1(r) /\ now' = now /\ now > roundV1[r].reveal_deadline
    <3>1. CASE Clear(r)
      BY <3>1 DEF Clear
    <3>2. CASE Void(r)
      BY <2>1, <3>2 DEF Void, VoidDueV1
    <3>3. CASE Settle(r)
      <4>1. StoredV1(r) /\ now' = now /\ roundV1[r].status = "Cleared"
        BY <3>3 DEF Settle
      <4> QED BY <2>1, <4>1 DEF WindowsOpenV1, WindowOpenV1
    <3> QED BY <1>5, <3>1, <3>2, <3>3
  <2>3. ~ (now <= roundV1[r].reveal_deadline)
    BY <2>1, <2>2
  <2>4. CASE Settle(r)
    <3>1. roundV1' = [roundV1 EXCEPT ![r].status = "Settled"]
      BY <2>4 DEF Settle
    <3> QED BY <1>3, <2>2, <2>3, <3>1
  <2>5. CASE VoidRoundV1(r)
    BY <1>3, <2>2, <2>3, <2>5 DEF VoidRoundV1
  <2>6. CASE SelectWinnerV1(r)
    <3>1. PICK w, bid : roundV1' = [roundV1 EXCEPT ![r].status = "Cleared", ![r].winner = w,
                                                   ![r].winning_bid = bid]
      BY <2>6 DEF SelectWinnerV1
    <3> DEFINE round == [roundV1[r] EXCEPT !.status = "Cleared", !.winner = w,
                                           !.winning_bid = bid]
    <3>2. round.reveal_deadline = roundV1[r].reveal_deadline
      BY <1>0, <2>2 DEF RoundRecordV1
    <3>3. roundV1' = [roundV1 EXCEPT ![r] = round]
      BY <3>1
    <3> HIDE DEF round
    <3> QED BY <1>0, <2>2, <2>3, <3>2, <3>3, EditKeepsWindowV1
  <2> QED BY <1>5, <2>4, <2>5, <2>6 DEF Clear, Void
<1>6. ASSUME NEW r \in RoundId, NEW b \in Account, NEW p \in Preimage, Reveal(r, b, p)
      PROVE  WindowsOpenV1'
  BY <1>6 DEF Reveal, ledgerVars, WindowsOpenV1, WindowOpenV1, StoredV1
<1>7. CASE roundV1' = roundV1 /\ now' \in Int /\ now <= now'
  <2>1. ASSUME NEW r \in RoundId PROVE WindowOpenV1(r)'
    <3>1. StoredV1(r) => roundV1[r].reveal_deadline \in Int /\ now \in Int
      BY <1>0, U64Assumption, LedgerAssumption
         DEF ShapeV1, LedgerTypeOK, RoundRecordV1, Time
    <3>2. WindowOpenV1(r)
      BY DEF WindowsOpenV1
    <3> QED BY <1>7, <3>1, <3>2 DEF WindowOpenV1, StoredV1
  <2> QED BY <2>1 DEF WindowsOpenV1
<1>8. now \in Int
  BY <1>0, U64Assumption, LedgerAssumption DEF ShapeV1, LedgerTypeOK, Time
<1>9. CASE UNCHANGED varsV1
  BY <1>7, <1>8, <1>9 DEF varsV1, ledgerVars, storageV1
<1>10. CASE LedgerNext /\ UNCHANGED storageV1
  BY <1>7, <1>8, <1>10 DEF LedgerNext, CloseLedger, PublishBeacon, storageV1
<1> QED BY <1>1, <1>2, <1>4, <1>5, <1>6, <1>9, <1>10 DEF NextV1, CallV1

\* reveal, open_reveal and clear: from the opening to the reveal deadline the
\* bid a bidder committed to is on record as committed, whoever revealed it,
\* or every check reveal makes of the committed preimage still succeeds - what
\* RevealCannotBeSpoiledV1 says, with the guards of reveal for its ENABLED.
THEOREM RevealStaysOpenV1 ==
    SpecV1 => [](\A r \in RoundId, b \in Account, p \in Preimage :
        (/\ StoredV1(r) /\ roundV1[r].status # "Open"
         /\ now <= roundV1[r].reveal_deadline
         /\ HasBid(r, b)
         /\ BidOf(r, b).commitment = Sha256(p)
         /\ p.value <= BidOf(r, b).escrow)
        => \/ BidOf(r, b).revealed = p
           \/ /\ roundV1[r].status = "Revealing" /\ BidOf(r, b).revealed = None
              /\ Matches(r, b, p) /\ WithinEscrow(r, b, p))
<1> DEFINE Open ==
      \A r \in RoundId, b \in Account, p \in Preimage :
        (/\ StoredV1(r) /\ roundV1[r].status # "Open"
         /\ now <= roundV1[r].reveal_deadline
         /\ HasBid(r, b)
         /\ BidOf(r, b).commitment = Sha256(p)
         /\ p.value <= BidOf(r, b).escrow)
        => \/ BidOf(r, b).revealed = p
           \/ /\ roundV1[r].status = "Revealing" /\ BidOf(r, b).revealed = None
              /\ Matches(r, b, p) /\ WithinEscrow(r, b, p)
<1>1. InitV1 => WindowsOpenV1
  BY DEF InitV1, StorageInitV1, WindowsOpenV1, WindowOpenV1, StoredV1
<1>2. IInvV1 /\ WindowsOpenV1 /\ [NextV1]_varsV1 => WindowsOpenV1'
  BY StepKeepsWindowsV1
<1>3. IInvV1 /\ WindowsOpenV1 => Open
  <2> SUFFICES ASSUME IInvV1, WindowsOpenV1, NEW r \in RoundId, NEW b \in Account,
                      NEW p \in Preimage, StoredV1(r), roundV1[r].status # "Open",
                      now <= roundV1[r].reveal_deadline, HasBid(r, b),
                      BidOf(r, b).commitment = Sha256(p), p.value <= BidOf(r, b).escrow,
                      BidOf(r, b).revealed # p
               PROVE  /\ roundV1[r].status = "Revealing" /\ BidOf(r, b).revealed = None
                      /\ Matches(r, b, p) /\ WithinEscrow(r, b, p)
    OBVIOUS
  <2>1. roundV1[r].status = "Revealing"
    BY DEF WindowsOpenV1, WindowOpenV1
  <2>2. BidOf(r, b).revealed = None
    BY DEF IInvV1, RoundInvV1, BidSoundV1, Sha256
  <2> QED BY <2>1, <2>2 DEF Matches, WithinEscrow
<1> HIDE DEF Open
<1>4. SpecV1 => []Open
  BY <1>1, <1>2, <1>3, InvariantV1, PTL DEF SpecV1
<1> QED BY <1>4 DEF Open
=============================================================================
