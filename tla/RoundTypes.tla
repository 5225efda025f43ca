----------------------------- MODULE RoundTypes -----------------------------
(***************************************************************************)
(* What v1 and v2 rounds share besides the ledger and the clearing rule.   *)
(***************************************************************************)
EXTENDS StellarLedger, Clearing, SequencesExt

CONSTANTS VoidGrace   \* VOID_GRACE: wait after the reveal deadline before voiding

ASSUME RoundTypesAssumption ==
    /\ VoidGrace \in Nat
    /\ None \notin Account \cup Asset \cup Int

Status == {"Open", "Revealing", "Cleared", "Settled", "Voided"}

\* The contract only compares digests; sha256 is injective on what is tried.
Sha256(preimage) == <<"sha256", preimage>>
=============================================================================
