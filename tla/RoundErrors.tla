---------------------------- MODULE RoundErrors ----------------------------
(***************************************************************************)
(* Which error code a rejected v2 call returns: the entry points test      *)
(* their conditions in a fixed order and the first that fails decides.     *)
(* Callers that race other callers tell "already done" from "not possible" *)
(* by these codes.                                                         *)
(***************************************************************************)
EXTENDS RoundV2

Ok == "Ok"

\* The codes these calls are rejected with; a missing authorisation is the host's.
ErrorCode ==
    {"RevealNotOpen", "RevealAlreadyOpen", "RevealWindowClosed", "RevealStillOpen",
     "CommitNotClosed", "NotCleared", "AlreadyCleared", "AlreadySettled", "RoundVoided",
     "NotVoidable", "InvalidDrandSignature", "HashMismatch", "AlreadyRevealed",
     "InvalidAmount", "BidExceedsEscrow", "MalformedPayload", "EscrowNotAllowed",
     "Unauthorized"}

\* The error of the first failing check in a sequence of <<fails, error>>.
FirstFailed(checks) ==
    LET failed == {i \in DOMAIN checks : checks[i][1]}
    IN  IF failed = {} THEN Ok
        ELSE checks[CHOOSE i \in failed : \A j \in failed : i <= j][2]

OpenRevealError(r, caller) ==
    LET round == roundV2[r]
        v3 == round.protocol_version = 3
    IN  FirstFailed(<<
            <<round.status = "Settled", "AlreadySettled">>,
            <<round.status = "Voided", "RoundVoided">>,
            <<round.status = "Cleared", "AlreadyCleared">>,
            <<round.status = "Revealing", "RevealAlreadyOpen">>,
            <<now <= round.commit_deadline, "CommitNotClosed">>,
            <<v3 /\ now < TimeOfRound(round.reveal_round), "CommitNotClosed">>,
            <<v3 /\ now > round.reveal_deadline, "RevealWindowClosed">>,
            <<v3 /\ revealV3[r].policy # None /\ now < revealV3[r].policy
                 /\ caller # round.operator, "Unauthorized">>,
            <<~ HasSignature(round.reveal_round), "InvalidDrandSignature">> >>)

\* For a bidder of the index, which has a submission.
RevealError(r, b, e) ==
    LET round == roundV2[r]
        auction == round.mode = "Auction"
        amount == IF e.amount = None THEN 0 ELSE e.amount
    IN  FirstFailed(<<
            <<round.status = "Settled", "AlreadySettled">>,
            <<round.status = "Voided", "RoundVoided">>,
            <<round.status # "Revealing", "RevealNotOpen">>,
            <<now > round.reveal_deadline, "RevealWindowClosed">>,
            <<SubmissionOf(r, b).revealed_envelope # None, "AlreadyRevealed">>,
            <<SubmissionOf(r, b).commitment # Sha256(e), "HashMismatch">>,
            <<~ e.decodes, "MalformedPayload">>,
            <<auction /\ e.amount = None, "MalformedPayload">>,
            <<auction /\ amount <= 0, "InvalidAmount">>,
            <<auction /\ amount > SubmissionOf(r, b).escrow, "BidExceedsEscrow">>,
            <<~ auction /\ SubmissionOf(r, b).escrow # 0, "EscrowNotAllowed">> >>)

ClearError(r) ==
    LET round == roundV2[r]
    IN  FirstFailed(<<
            <<round.status = "Cleared", "AlreadyCleared">>,
            <<round.status = "Settled", "AlreadySettled">>,
            <<round.status = "Voided", "RoundVoided">>,
            <<round.status # "Revealing", "RevealNotOpen">>,
            <<now <= round.reveal_deadline, "RevealStillOpen">> >>)

SettleError(r) ==
    LET round == roundV2[r]
    IN  FirstFailed(<<
            <<round.status = "Settled", "AlreadySettled">>,
            <<round.status = "Voided", "RoundVoided">>,
            <<round.mode # "Auction" \/ round.status # "Cleared", "NotCleared">> >>)

VoidError(r) ==
    LET round == roundV2[r]
    IN  FirstFailed(<<
            <<round.status = "Voided", "RoundVoided">>,
            <<round.status = "Settled", "AlreadySettled">>,
            <<round.status # "Open" \/ ~ VoidDueV2(r), "NotVoidable">> >>)
=============================================================================
