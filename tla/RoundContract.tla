--------------------------- MODULE RoundContract ---------------------------
(***************************************************************************)
(* The deployed contract: v1, v2 and v3 rounds side by side.  The families *)
(* have storage keys of their own but share the round counter, the clock,  *)
(* Drand, and one pooled balance per token that every payment of every     *)
(* round goes into and comes out of.                                       *)
(***************************************************************************)
EXTENDS RoundV1, RoundV2

contractVars == <<ledgerVars, storageV1, storageV2>>

InitContract == LedgerInit /\ StorageInitV1 /\ StorageInitV2

NextContract ==
    \/ CallV1 /\ UNCHANGED storageV2
    \/ CallV2 /\ UNCHANGED storageV1
    \/ LedgerNext /\ UNCHANGED <<storageV1, storageV2>>

SpecContract == InitContract /\ [][NextContract]_contractVars

---------------------------------------------------------------------------
\* An id the counter handed out belongs to one family of rounds and no other
\* id is in use, so an id with no version decides which entry points apply.
OneFamilyPerId ==
    \A r \in RoundId :
        /\ StoredV1(r) \/ Stored(r) <=> r <= roundCounter
        /\ ~ (StoredV1(r) /\ Stored(r))

\* Custody is pooled, accounting is not: across all rounds of both families
\* every account is down by exactly its live escrows and lots, and by what the
\* outcomes moved.  One round's refund is never paid twice out of another's.
PooledCustodyExact ==
    \A a \in Asset, x \in Account :
        wallet[a][x] = InitialBalance[a][x]
            - SumFunction([r \in RoundId |-> NetPaidV1(r, a, x) + NetPaidV2(r, a, x)])

=============================================================================
