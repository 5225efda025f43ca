-------------------------- MODULE RoundTypes_proofs --------------------------
(***************************************************************************)
(* Lemmas about what v1 and v2 rounds share: the schedule of Drand, the    *)
(* bidder index, and sums of token amounts over finite sets.  Induction    *)
(* over a set is an argument about its smallest counterexample.            *)
(***************************************************************************)
EXTENDS RoundTypes, FiniteSetTheorems, TLAPS

---------------------------------------------------------------------------
(* The ledger clock and Drand.                                             *)

\* Drand never runs ahead of the ledger clock.
BeaconsDue == \A R \in published : TimeOfRound(R) <= now

\* A Drand round is never scheduled outside u64.
LEMMA TimeOfRoundInTime ==
    ASSUME NEW R \in Nat
    PROVE  TimeOfRound(R) \in Time
<1>1. U64Max \in Nat /\ DrandGenesis \in 0 .. U64Max /\ DrandPeriod \in Nat
  BY LedgerAssumption, U64Assumption DEF Time
<1>2. SatSub(R, 1) \in Nat
  BY DEF SatSub
<1>3. DrandPeriod * SatSub(R, 1) \in Nat
  BY <1>1, <1>2
<1>4. SatMul(DrandPeriod, SatSub(R, 1)) \in Nat
  BY <1>1, <1>3 DEF SatMul
<1> QED BY <1>1, <1>4 DEF TimeOfRound, SatAdd, Time

\* The clock and Drand move within their types, and Drand stays behind.
LEMMA LedgerKeepsTime ==
    ASSUME LedgerTypeOK, BeaconsDue, LedgerNext \/ UNCHANGED ledgerVars
    PROVE  LedgerTypeOK' /\ BeaconsDue' /\ UNCHANGED <<wallet, roundCounter>>
<1>1. LedgerTypeOK' /\ UNCHANGED <<wallet, roundCounter>>
  <2>1. now' \in 0 .. MaxNow
    BY LedgerAssumption, U64Assumption DEF LedgerTypeOK, LedgerNext, CloseLedger, PublishBeacon,
       ledgerVars, Time
  <2>2. published' \subseteq DrandRound /\ wallet' = wallet /\ roundCounter' = roundCounter
    BY DEF LedgerTypeOK, LedgerNext, CloseLedger, PublishBeacon, ledgerVars
  <2> QED BY <2>1, <2>2 DEF LedgerTypeOK
<1>2. BeaconsDue'
  <2>1. now \in Int /\ \A R \in published : TimeOfRound(R) \in Int
    BY TimeOfRoundInTime, LedgerAssumption DEF LedgerTypeOK, Time
  <2>2. CASE CloseLedger
    BY <2>1, <2>2 DEF BeaconsDue, CloseLedger
  <2>3. ASSUME NEW R \in DrandRound, PublishBeacon(R) PROVE BeaconsDue'
    BY <2>3 DEF BeaconsDue, PublishBeacon
  <2>4. CASE UNCHANGED ledgerVars
    BY <2>4 DEF BeaconsDue, ledgerVars
  <2> QED BY <2>2, <2>3, <2>4 DEF LedgerNext
<1> QED BY <1>1, <1>2

---------------------------------------------------------------------------
(* The bidder index.                                                       *)

\* Appending a newcomer to the bidder index keeps it free of repetitions.
LEMMA IndexAppend ==
    ASSUME NEW S, NEW s \in Seq(S), NEW b \in S
    PROVE  /\ Append(s, b) \in Seq(S)
           /\ Range(Append(s, b)) = Range(s) \cup {b}
           /\ IsInjective(s) /\ b \notin Range(s) => IsInjective(Append(s, b))
<1>1. /\ Len(s) \in Nat /\ DOMAIN s = 1 .. Len(s)
      /\ DOMAIN Append(s, b) = 1 .. Len(s) + 1
      /\ Append(s, b)[Len(s) + 1] = b
      /\ \A i \in 1 .. Len(s) : Append(s, b)[i] = s[i]
  OBVIOUS
<1>2. 1 .. Len(s) + 1 = (1 .. Len(s)) \cup {Len(s) + 1} /\ Len(s) + 1 \notin 1 .. Len(s)
  BY <1>1
<1> DEFINE t == Append(s, b)
<1>3. t \in Seq(S)
  OBVIOUS
<1> HIDE DEF t
<1>4. Range(t) = Range(s) \cup {b}
  BY <1>1, <1>2 DEF Range, t
<1>5. IsInjective(s) /\ b \notin Range(s) => IsInjective(t)
  BY <1>1, <1>2 DEF IsInjective, Range, t
<1> QED BY <1>3, <1>4, <1>5 DEF t

\* The empty index names nobody.
LEMMA EmptyIndex == Range(<<>>) = {} /\ IsInjective(<<>>)
BY DEF Range, IsInjective

---------------------------------------------------------------------------
(* Sums.                                                                   *)

\* The element a sum takes out of a set next.
First(s) == CHOOSE x \in s : TRUE

\* g gives the sum of f over every subset of T.
Sums(g, f, T) ==
    g = [s \in SUBSET T |-> IF s = {} THEN 0 ELSE f[First(s)] + g[s \ {First(s)}]]

\* Among subsets of a finite set one has no other of them below it.
LEMMA SmallestSet ==
    ASSUME NEW S, IsFiniteSet(S), NEW B \in SUBSET SUBSET S, B # {}
    PROVE  \E T \in B : \A U \in SUBSET T : U # T => U \notin B
<1>1. IsWellFoundedOn(StrictSubsetOrdering(S), FiniteSubsetsOf(S)) /\ FiniteSubsetsOf(S) = SUBSET S
  BY FS_StrictSubsetOrderingWellFounded, FS_FiniteSubsetsOfFinite
<1>2. PICK T \in B : \A U \in B : ~ (<<U, T>> \in StrictSubsetOrdering(S))
  BY <1>1, WFMin
<1> QED BY <1>2 DEF StrictSubsetOrdering

\* Two such functions agree where both are defined.
LEMMA SumsAgree ==
    ASSUME NEW S, IsFiniteSet(S), NEW f, NEW T \in SUBSET S, NEW U \in SUBSET S,
           NEW g, NEW h, Sums(g, f, T), Sums(h, f, U)
    PROVE  \A s \in SUBSET (T \cap U) : g[s] = h[s]
<1> DEFINE B == {s \in SUBSET (T \cap U) : g[s] # h[s]}
<1> SUFFICES ASSUME B # {} PROVE FALSE
  OBVIOUS
<1>1. PICK s \in B : \A u \in SUBSET s : u # s => u \notin B
  <2>1. B \in SUBSET SUBSET S
    OBVIOUS
  <2> HIDE DEF B
  <2> QED BY <2>1, SmallestSet
<1>2. s # {}
  BY <1>1 DEF Sums
<1>3. First(s) \in s
  BY <1>2 DEF First
<1>4. g[s \ {First(s)}] = h[s \ {First(s)}]
  BY <1>1, <1>3
<1>5. g[s] = f[First(s)] + g[s \ {First(s)}]
  BY <1>1, <1>2 DEF Sums
<1>6. h[s] = f[First(s)] + h[s \ {First(s)}]
  BY <1>1, <1>2 DEF Sums
<1> QED BY <1>1, <1>4, <1>5, <1>6

\* The recursion SumFunction is written with defines a function.
LEMMA SumsExist ==
    ASSUME NEW S, IsFiniteSet(S), NEW f
    PROVE  \E g : Sums(g, f, S)
<1> DEFINE B == {s \in SUBSET S : ~ \E g : Sums(g, f, s)}
<1> SUFFICES ASSUME B # {} PROVE FALSE
  OBVIOUS
<1>1. PICK T \in B : \A u \in SUBSET T : u # T => u \notin B
  <2>1. B \in SUBSET SUBSET S
    OBVIOUS
  <2> HIDE DEF B
  <2> QED BY <2>1, SmallestSet
<1> DEFINE G(s) == CHOOSE g : Sums(g, f, s)
           rest == T \ {First(T)}
           top == IF T = {} THEN 0 ELSE f[First(T)] + G(rest)[rest]
           g == [s \in SUBSET T |-> IF s = T THEN top ELSE G(s)[s]]
<1>2. ASSUME NEW s \in SUBSET T, s # T PROVE Sums(G(s), f, s)
  <2>1. s \notin B /\ s \in SUBSET S
    BY <1>1, <1>2
  <2>2. \E h : Sums(h, f, s)
    BY <2>1
  <2> QED BY <2>2
<1> HIDE DEF G
<1>3. ASSUME NEW s \in SUBSET T
      PROVE  g[s] = IF s = {} THEN 0 ELSE f[First(s)] + g[s \ {First(s)}]
  <2>1. s # {} => First(s) \in s
    BY DEF First
  <2>2. CASE s = T
    BY <2>1, <2>2
  <2>3. CASE s # T /\ s = {}
    BY <1>2, <2>3 DEF Sums
  <2>4. CASE s # T /\ s # {}
    <3>1. G(s)[s] = f[First(s)] + G(s)[s \ {First(s)}]
      BY <1>2, <2>4 DEF Sums
    <3>2. G(s)[s \ {First(s)}] = G(s \ {First(s)})[s \ {First(s)}]
      <4> DEFINE u == s \ {First(s)}
      <4>1. u \in SUBSET T /\ u # T /\ u \in SUBSET (s \cap u) /\ s \in SUBSET S /\ u \in SUBSET S
        BY <1>1, <2>1, <2>4
      <4>2. Sums(G(s), f, s) /\ Sums(G(u), f, u)
        BY <1>2, <2>4, <4>1
      <4> HIDE DEF u
      <4>3. G(s)[u] = G(u)[u]
        BY <4>1, <4>2, SumsAgree
      <4> QED BY <4>3 DEF u
    <3>3. s \ {First(s)} # T /\ s \ {First(s)} \in SUBSET T
      BY <2>1, <2>4
    <3> QED BY <2>4, <3>1, <3>2, <3>3
  <2> QED BY <2>2, <2>3, <2>4
<1>4. Sums(g, f, T)
  <2> DEFINE E(s) == IF s = {} THEN 0 ELSE f[First(s)] + g[s \ {First(s)}]
  <2>1. g = [s \in SUBSET T |-> g[s]]
    OBVIOUS
  <2> HIDE DEF g
  <2>2. \A s \in SUBSET T : g[s] = E(s)
    BY <1>3
  <2>3. g = [s \in SUBSET T |-> E(s)]
    <3> HIDE DEF E
    <3> QED BY <2>1, <2>2
  <2> QED BY <2>3 DEF Sums
<1> QED BY <1>1, <1>4

\* The sum of f over s, by the element it takes first.
LEMMA SumUnfold ==
    ASSUME NEW S, IsFiniteSet(S), NEW f
    PROVE  SumFunctionOnSet(f, S) =
             IF S = {} THEN 0 ELSE f[First(S)] + SumFunctionOnSet(f, S \ {First(S)})
<1>1. \A T : SumFunctionOnSet(f, T) = (CHOOSE k : Sums(k, f, T))[T]
  BY DEF SumFunctionOnSet, FoldFunctionOnSet, MapThenFoldSet, Sums, First
<1> DEFINE g == CHOOSE k : Sums(k, f, S)
           U == S \ {First(S)}
           h == CHOOSE k : Sums(k, f, U)
<1>2. Sums(g, f, S)
  BY SumsExist
<1>3. IsFiniteSet(U) /\ U \in SUBSET S /\ U \in SUBSET (S \cap U)
  BY FS_Subset
<1>4. Sums(h, f, U)
  BY <1>3, SumsExist
<1>5. SumFunctionOnSet(f, S) = g[S] /\ SumFunctionOnSet(f, U) = h[U]
  BY <1>1
<1> HIDE DEF g, h
<1>6. g[U] = h[U]
  BY <1>2, <1>3, <1>4, SumsAgree
<1>7. g[S] = IF S = {} THEN 0 ELSE f[First(S)] + g[U]
  BY <1>2 DEF Sums
<1> QED BY <1>5, <1>6, <1>7

\* A sum of integers is an integer.
LEMMA SumInt ==
    ASSUME NEW S, IsFiniteSet(S), NEW f, \A x \in S : f[x] \in Int
    PROVE  SumFunctionOnSet(f, S) \in Int
<1> DEFINE B == {s \in SUBSET S : SumFunctionOnSet(f, s) \notin Int}
<1> SUFFICES ASSUME B # {} PROVE FALSE
  BY DEF B
<1>1. PICK s \in B : \A u \in SUBSET s : u # s => u \notin B
  <2>1. B \in SUBSET SUBSET S
    OBVIOUS
  <2> HIDE DEF B
  <2> QED BY <2>1, SmallestSet
<1>2. IsFiniteSet(s)
  BY FS_Subset
<1>3. SumFunctionOnSet(f, s) =
        IF s = {} THEN 0 ELSE f[First(s)] + SumFunctionOnSet(f, s \ {First(s)})
  BY <1>2, SumUnfold
<1>4. CASE s = {}
  BY <1>3, <1>4
<1>5. CASE s # {}
  <2>1. First(s) \in s
    BY <1>5 DEF First
  <2>2. SumFunctionOnSet(f, s \ {First(s)}) \in Int
    BY <1>1, <2>1
  <2> QED BY <1>3, <1>5, <2>1, <2>2
<1> QED BY <1>4, <1>5

\* A sum may take any element first.
LEMMA SumTake ==
    ASSUME NEW S, IsFiniteSet(S), NEW f, \A x \in S : f[x] \in Int, NEW r \in S
    PROVE  SumFunctionOnSet(f, S) = f[r] + SumFunctionOnSet(f, S \ {r})
<1> DEFINE Total(s) == SumFunctionOnSet(f, s)
           B == {s \in SUBSET S : \E x \in s : Total(s) # f[x] + Total(s \ {x})}
<1> SUFFICES ASSUME B # {} PROVE FALSE
  BY DEF B
<1>1. PICK s \in B : \A u \in SUBSET s : u # s => u \notin B
  <2>1. B \in SUBSET SUBSET S
    OBVIOUS
  <2> HIDE DEF B
  <2> QED BY <2>1, SmallestSet
<1>2. PICK x \in s : Total(s) # f[x] + Total(s \ {x})
  OBVIOUS
<1> DEFINE c == First(s)
<1>3. c \in s /\ s \in SUBSET S
  BY <1>2 DEF First
<1>4. Total(s) = f[c] + Total(s \ {c})
  BY <1>3, SumUnfold, FS_Subset
<1>5. x # c
  BY <1>2, <1>4
<1>6. Total(s \ {c}) = f[x] + Total((s \ {c}) \ {x})
  BY <1>1, <1>3, <1>5
<1>7. Total(s \ {x}) = f[c] + Total((s \ {x}) \ {c})
  BY <1>1, <1>3, <1>5
<1>8. Total((s \ {c}) \ {x}) = Total((s \ {x}) \ {c})
  <2>1. (s \ {c}) \ {x} = (s \ {x}) \ {c}
    OBVIOUS
  <2> QED BY <2>1
<1>9. f[x] \in Int /\ f[c] \in Int /\ Total((s \ {x}) \ {c}) \in Int
  <2>1. (s \ {x}) \ {c} \in SUBSET S
    BY <1>3
  <2> QED BY <1>3, <2>1, SumInt, FS_Subset
<1>10. ASSUME NEW m \in Int, NEW n \in Int, NEW p \in Int PROVE m + (n + p) = n + (m + p)
  OBVIOUS
<1> QED BY <1>2, <1>4, <1>6, <1>7, <1>8, <1>9, <1>10

\* Functions equal on a set have the same sum over it.
LEMMA SumSame ==
    ASSUME NEW S, IsFiniteSet(S), NEW f, NEW h, \A x \in S : f[x] = h[x]
    PROVE  SumFunctionOnSet(f, S) = SumFunctionOnSet(h, S)
<1> DEFINE B == {s \in SUBSET S : SumFunctionOnSet(f, s) # SumFunctionOnSet(h, s)}
<1> SUFFICES ASSUME B # {} PROVE FALSE
  BY DEF B
<1>1. PICK s \in B : \A u \in SUBSET s : u # s => u \notin B
  <2>1. B \in SUBSET SUBSET S
    OBVIOUS
  <2> HIDE DEF B
  <2> QED BY <2>1, SmallestSet
<1>2. IsFiniteSet(s)
  BY FS_Subset
<1>3. s # {} => First(s) \in s
  BY DEF First
<1>4. s # {} => SumFunctionOnSet(f, s \ {First(s)}) = SumFunctionOnSet(h, s \ {First(s)})
  BY <1>1, <1>3
<1>5. /\ SumFunctionOnSet(f, s) =
           IF s = {} THEN 0 ELSE f[First(s)] + SumFunctionOnSet(f, s \ {First(s)})
      /\ SumFunctionOnSet(h, s) =
           IF s = {} THEN 0 ELSE h[First(s)] + SumFunctionOnSet(h, s \ {First(s)})
  BY <1>2, SumUnfold
<1>6. s # {} => f[First(s)] = h[First(s)]
  BY <1>3
<1> QED BY <1>4, <1>5, <1>6

\* A sum changes by what one term changes.
LEMMA SumChange ==
    ASSUME NEW S, IsFiniteSet(S), NEW f, NEW h, NEW r \in S,
           \A x \in S : f[x] \in Int /\ h[x] \in Int,
           \A x \in S \ {r} : f[x] = h[x]
    PROVE  /\ SumFunctionOnSet(h, S) = SumFunctionOnSet(f, S) - f[r] + h[r]
           /\ SumFunctionOnSet(f, S) \in Int
<1>1. IsFiniteSet(S \ {r})
  BY FS_Subset
<1>2. SumFunctionOnSet(f, S \ {r}) = SumFunctionOnSet(h, S \ {r})
  BY <1>1, SumSame
<1>3. SumFunctionOnSet(f, S \ {r}) \in Int
  BY <1>1, SumInt
<1>4. /\ SumFunctionOnSet(f, S) = f[r] + SumFunctionOnSet(f, S \ {r})
      /\ SumFunctionOnSet(h, S) = h[r] + SumFunctionOnSet(h, S \ {r})
  BY SumTake
<1> QED BY <1>2, <1>3, <1>4

\* A sum of zeros is zero.
LEMMA SumZero ==
    ASSUME NEW S, IsFiniteSet(S), NEW f, \A x \in S : f[x] = 0
    PROVE  SumFunctionOnSet(f, S) = 0
<1> DEFINE B == {s \in SUBSET S : SumFunctionOnSet(f, s) # 0}
<1> SUFFICES ASSUME B # {} PROVE FALSE
  BY DEF B
<1>1. PICK s \in B : \A u \in SUBSET s : u # s => u \notin B
  <2>1. B \in SUBSET SUBSET S
    OBVIOUS
  <2> HIDE DEF B
  <2> QED BY <2>1, SmallestSet
<1>2. SumFunctionOnSet(f, s) =
        IF s = {} THEN 0 ELSE f[First(s)] + SumFunctionOnSet(f, s \ {First(s)})
  BY SumUnfold, FS_Subset
<1>3. s # {} => First(s) \in s
  BY DEF First
<1>4. s # {} => SumFunctionOnSet(f, s \ {First(s)}) = 0
  BY <1>1, <1>3
<1> QED BY <1>2, <1>3, <1>4

---------------------------------------------------------------------------
(* Accounting over all rounds.                                             *)

\* There are finitely many round ids.
LEMMA RoundIdFinite == IsFiniteSet(RoundId)
BY LedgerAssumption, FS_Interval DEF RoundId

\* Before any round nobody is down by anything.
LEMMA BooksOpen ==
    ASSUME NEW paid, paid = [r \in RoundId |-> paid[r]], \A r \in RoundId : paid[r] = 0
    PROVE  SumFunction(paid) = 0
<1>1. DOMAIN paid = RoundId
  OBVIOUS
<1> QED BY <1>1, RoundIdFinite, SumZero DEF SumFunction

\* If what an account holds is what it started with less what the rounds keep
\* of it, then that is so after a call that changes both by the same amount.
LEMMA BooksKept ==
    ASSUME NEW paid, paid = [r \in RoundId |-> paid[r]],
           NEW paid2, paid2 = [r \in RoundId |-> paid2[r]],
           \A r \in RoundId : paid[r] \in Int /\ paid2[r] \in Int,
           NEW r \in RoundId, \A s \in RoundId \ {r} : paid[s] = paid2[s],
           NEW start \in Int, NEW held \in Int, NEW held2,
           held = start - SumFunction(paid), held2 = held + paid[r] - paid2[r]
    PROVE  held2 = start - SumFunction(paid2)
<1>1. DOMAIN paid = RoundId /\ DOMAIN paid2 = RoundId
  OBVIOUS
<1>2. /\ SumFunctionOnSet(paid2, RoundId) = SumFunctionOnSet(paid, RoundId) - paid[r] + paid2[r]
      /\ SumFunctionOnSet(paid, RoundId) \in Int
  BY RoundIdFinite, SumChange
<1>3. paid[r] \in Int /\ paid2[r] \in Int
  OBVIOUS
<1> QED BY <1>1, <1>2, <1>3 DEF SumFunction
=============================================================================
