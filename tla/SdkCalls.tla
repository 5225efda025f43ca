------------------------------ MODULE SdkCalls ------------------------------
(***************************************************************************)
(* How a state-changing call of SubRosaClient becomes a transaction, and   *)
(* what the caller learns of it: validation of the network, assembly,      *)
(* signature (a local key, or a Pollar wallet through packages/            *)
(* pollar-adapter), submission (to the RPC, or through a submitter such as *)
(* a relayer) and confirmation.  The pages of apps/web call the generated  *)
(* bindings instead and try again on txBadSeq.  One account commits one    *)
(* sealed value after another to one round; the value stands for the call. *)
(*                                                                         *)
(* A transaction may be lost, answered late or never, included after the   *)
(* caller gave up, or be overtaken by another one of the same account.     *)
(***************************************************************************)
EXTENDS Integers, FiniteSets

CONSTANTS
    CallValue,      \* what the calls commit
    NoValue,
    NoTx,
    MaxCalls,       \* bound: calls made
    MaxTx           \* bound: transactions assembled, the retries included

ASSUME MaxTxAssumption == MaxTx \in Nat

\* No transaction is told from any transaction.
ASSUME NoTxAssumption ==
    NoTx \notin [id : Nat, seq : Nat, value : CallValue \cup {NoValue}]

VARIABLES
    sdk,            \* [signer, route, validated, hashes, calls, built]
    wallet,         \* the wallet active in Pollar: "own", "other" or "none"
    call,           \* [at, want, tx, attempt]: the call under way, or the last one
    verdict,        \* verdict[i]: what the caller was told of transaction i
    account,        \* the ledger: [seq, value, open]
    pool,           \* transactions sent and neither included nor dropped
    final           \* final[i]: getTransaction of i

sdkVars == <<sdk, wallet, call, verdict, account, pool, final>>

TxId == 1 .. MaxTx
Idle == [at |-> "idle", want |-> NoValue, tx |-> NoTx, attempt |-> 0]

InitSdk ==
    /\ \E signer \in {"local", "pollar"}, route \in {"direct", "submitter", "page"} :
        /\ route = "page" => signer = "local"
        /\ sdk = [signer |-> signer, route |-> route, validated |-> FALSE,
                  hashes |-> {}, calls |-> 0, built |-> 0]
    /\ wallet = "own"
    /\ call = Idle
    /\ verdict = [i \in TxId |-> "none"]
    /\ account = [seq |-> 0, value |-> NoValue, open |-> TRUE]
    /\ pool = {}
    /\ final = [i \in TxId |-> "NOT_FOUND"]

---------------------------------------------------------------------------
(* The call.                                                               *)

At(step) == call.at = step
Goes(step) == call' = [call EXCEPT !.at = step]

\* The promise is settled; told is what its value, its error or the cause of
\* its error says of the transaction.
Ends(told) ==
    /\ Goes("idle")
    /\ verdict' = IF call.tx = NoTx THEN verdict ELSE [verdict EXCEPT ![call.tx.id] = told]

\* An error before anything is sent.
Refused == Ends("failed") /\ UNCHANGED <<wallet, account, pool, final>>

CallMethod(v) ==
    /\ At("idle") /\ sdk.calls < MaxCalls
    /\ call' = [Idle EXCEPT !.want = v, !.attempt = 1,
                    !.at = IF sdk.route = "page" THEN "build" ELSE "validate"]
    /\ sdk' = [sdk EXCEPT !.calls = @ + 1]
    /\ UNCHANGED <<wallet, verdict, account, pool, final>>

\* #validatedContractCall: validated once, and again after a failure.
Validate ==
    /\ At("validate")
    /\ Goes("build")
    /\ sdk' = [sdk EXCEPT !.validated = TRUE]
    /\ UNCHANGED <<wallet, verdict, account, pool, final>>

ValidationFails ==
    /\ At("validate") /\ ~ sdk.validated
    /\ Refused /\ UNCHANGED sdk

\* The transaction is assembled on the account's sequence number and
\* simulated; a simulation the contract rejects throws, as any RPC error.
Build ==
    /\ At("build") /\ account.open /\ sdk.built < MaxTx
    /\ call' = [call EXCEPT !.at = "sign",
                    !.tx = [id |-> sdk.built + 1, seq |-> account.seq + 1, value |-> call.want]]
    /\ sdk' = [sdk EXCEPT !.built = @ + 1]
    /\ UNCHANGED <<wallet, verdict, account, pool, final>>

BuildFails ==
    /\ At("build")
    /\ Goes("idle")
    /\ UNCHANGED <<sdk, wallet, verdict, account, pool, final>>

---------------------------------------------------------------------------
(* The signature.                                                          *)

SignLocally ==
    /\ At("sign") /\ sdk.signer = "local"
    /\ Goes("send")
    /\ UNCHANGED <<sdk, wallet, verdict, account, pool, final>>

\* assertWallet, before Pollar is asked: its wallet is the client's.
AskPollar ==
    /\ At("sign") /\ sdk.signer = "pollar" /\ wallet = "own"
    /\ Goes("signing")
    /\ UNCHANGED <<sdk, wallet, verdict, account, pool, final>>

\* The wallet is missing or another one, or the page's user declines.
MayNotSign == sdk.route = "page" \/ (sdk.signer = "pollar" /\ wallet # "own")
NotSigned == At("sign") /\ MayNotSign /\ Refused /\ UNCHANGED sdk

\* The user switches or leaves the wallet, also while Pollar signs.
SwitchWallet(w) ==
    /\ sdk.signer = "pollar" /\ w # wallet
    /\ wallet' = w
    /\ UNCHANGED <<sdk, call, verdict, account, pool, final>>

\* Mutant of VerifySigned: the hash of the body is not compared.
VerifySigned_AnyBody(value, by) == by = "own"

\* verifySignedTransaction: the same body, signed by the client's key.
VerifySigned(value, by) == value = call.tx.value /\ by = "own"

\* What comes back may be another envelope or another wallet's signature.
PollarSigned(value, by) ==
    /\ At("signing") /\ VerifySigned(value, by)
    /\ call' = [call EXCEPT !.at = "send", !.tx.value = value]
    /\ UNCHANGED <<sdk, wallet, verdict, account, pool, final>>

\* An error, a co-signature to wait for, or an envelope that is refused.
PollarDeclined == At("signing") /\ Refused /\ UNCHANGED sdk

---------------------------------------------------------------------------
(* Submission and confirmation.                                            *)

Stale(tx) == tx.seq <= account.seq

SendAccepted ==
    /\ At("send") /\ ~ Stale(call.tx)
    /\ pool' = pool \cup {call.tx}
    /\ Goes("confirm")
    /\ UNCHANGED <<sdk, wallet, verdict, account, final>>

\* The request or its answer is lost, or the submitter gives no hash: a
\* SubRosaSubmitError, whether or not the transaction is on its way.
SendUnknown ==
    /\ At("send")
    /\ pool' \in {pool} \cup (IF Stale(call.tx) THEN {} ELSE {pool \cup {call.tx}})
    /\ Ends("unknown")
    /\ UNCHANGED <<sdk, wallet, account, final>>

\* txBadSeq.  A page assembles the call anew, three attempts in all.
Retries == sdk.route = "page" /\ call.attempt < 3
SendBadSeq ==
    /\ At("send") /\ Stale(call.tx)
    /\ IF Retries
       THEN /\ call' = [call EXCEPT !.at = "build", !.attempt = @ + 1, !.tx = NoTx]
            /\ verdict' = [verdict EXCEPT ![call.tx.id] = "failed"]
       ELSE Ends("failed")
    /\ UNCHANGED <<sdk, wallet, account, pool, final>>

\* Mutant of PollFailed: any status but SUCCESS is a failure.
PollFailed_NotFound == final[call.tx.id] # "SUCCESS"

PollFailed == final[call.tx.id] = "FAILED"

\* The loop over getTransaction; signAndSend has one like it.
Confirm ==
    /\ At("confirm")
    /\ \/ /\ final[call.tx.id] = "SUCCESS"
          /\ sdk' = [sdk EXCEPT !.hashes = @ \cup {call.tx.id}]
          /\ Ends("ok")
       \/ PollFailed /\ Ends("failed") /\ UNCHANGED sdk
    /\ UNCHANGED <<wallet, account, pool, final>>

\* The deadline passes, getTransaction throws, or there is no return value.
GiveUp ==
    /\ At("confirm")
    /\ Ends("unknown")
    /\ UNCHANGED <<sdk, wallet, account, pool, final>>

---------------------------------------------------------------------------
(* The network.                                                            *)

\* Transactions of an account are applied in the order of their numbers.  A
\* commit to a round that is closed by then fails, and uses its number up.
Include(tx) ==
    /\ tx \in pool /\ tx.seq = account.seq + 1
    /\ account' = [account EXCEPT !.seq = tx.seq, !.value = IF account.open THEN tx.value ELSE @]
    /\ final' = [final EXCEPT ![tx.id] = IF account.open THEN "SUCCESS" ELSE "FAILED"]
    /\ pool' = pool \ {tx}
    /\ UNCHANGED <<sdk, wallet, call, verdict>>

\* Out of the pool: overtaken, or its time bound has passed.
Drop(tx) ==
    /\ pool' = pool \ {tx}
    /\ UNCHANGED <<sdk, wallet, call, verdict, account, final>>

\* The account is used elsewhere, for something else.
UsedElsewhere ==
    /\ account.seq < MaxTx + 1
    /\ account' = [account EXCEPT !.seq = @ + 1]
    /\ UNCHANGED <<sdk, wallet, call, verdict, pool, final>>

CommitsClose ==
    /\ account' = [account EXCEPT !.open = FALSE]
    /\ UNCHANGED <<sdk, wallet, call, verdict, pool, final>>

NextSdk ==
    \/ \E v \in CallValue : CallMethod(v)
    \/ Validate \/ ValidationFails \/ Build \/ BuildFails
    \/ SignLocally \/ AskPollar \/ NotSigned \/ PollarDeclined
    \/ \E v \in CallValue, by \in {"own", "other"} : PollarSigned(v, by)
    \/ \E w \in {"own", "other", "none"} : SwitchWallet(w)
    \/ SendAccepted \/ SendUnknown \/ SendBadSeq \/ Confirm \/ GiveUp
    \/ \E tx \in pool : Include(tx) \/ Drop(tx)
    \/ UsedElsewhere \/ CommitsClose

SpecSdk == InitSdk /\ [][NextSdk]_sdkVars

---------------------------------------------------------------------------
\* What a call reports of its transaction stays true: one reported as done
\* is on the ledger, one reported as failed never takes effect later - the
\* page that tries again on txBadSeq, and the caller that tries again on a
\* SubRosaTransactionError, do nothing twice.
VerdictsHold ==
    \A i \in TxId :
        /\ verdict[i] = "ok" => final[i] = "SUCCESS"
        /\ verdict[i] = "failed" => final[i] # "SUCCESS"

\* After a call that returned, the round holds what this call committed,
\* whatever the wallet was asked in between, and whichever transactions of
\* earlier calls, given up with an unknown outcome, are still on their way.
LastWordStands ==
    At("idle") /\ call.tx # NoTx /\ verdict[call.tx.id] = "ok"
        => account.value = call.want
=============================================================================
