---------------------------- MODULE PilotRounds ----------------------------
(***************************************************************************)
(* The rounds of the contract as far as the pilot pages of apps/web see    *)
(* them.  RoundV2 has the contract in detail; here a round is its status,  *)
(* the seals committed to it and which of them are revealed.  A seal is    *)
(* known by the round whose beacon opens it: a page takes that from what   *)
(* it shows, and commits to the round it names.                            *)
(***************************************************************************)
EXTENDS Integers, FiniteSets

CONSTANTS
    PilotRound,     \* round ids, 1 .. n
    Wallet,
    PageWallet,     \* the wallets the user of the page has
    OthersRound,    \* bound: the rounds other parties than the page's user act on
    NoRound,        \* no round id, no seal
    Nobody          \* no wallet

\* What stands for no round and no wallet is neither.
ASSUME PilotAssumption == NoRound \notin PilotRound /\ Nobody \notin Wallet

VARIABLES
    rounds,         \* rounds[id]: [status, mode, operator, seal, revealed];
                    \* the operator where a page asks who it is, or Nobody
    era             \* era[id]: how far time has come for round id

chainVars == <<rounds, era>>

Sealed(id) == {w \in Wallet : rounds[id].seal[w] # NoRound}
Exists(id) == id \in PilotRound /\ rounds[id].status # "None"
Unused == [status |-> "None", mode |-> "ReceiptOnly", operator |-> Nobody,
           seal |-> [w \in Wallet |-> NoRound], revealed |-> {}]

\* A round is open when the story begins: the user's, with either settlement.
ChainInit ==
    /\ \E w \in PageWallet, mode \in {"ReceiptOnly", "Auction"} :
        rounds = [id \in PilotRound |->
            IF id = 1 THEN [Unused EXCEPT !.status = "Open", !.mode = mode, !.operator = w] ELSE Unused]
    /\ era = [id \in PilotRound |-> "commit"]

\* The commit window closes before the beacon comes; after the reveal
\* deadline the round is late.  (The seconds between the close and the beacon
\* and the grace before a void are not told apart.)
TimePasses(id) ==
    /\ Exists(id) /\ era[id] # "late"
    /\ era' = [era EXCEPT ![id] = IF @ = "commit" THEN "beacon" ELSE "late"]
    /\ UNCHANGED rounds

\* Drand has published the beacon the seal waits for: anybody can read it.
Readable(seal) == era[seal] # "commit"

---------------------------------------------------------------------------
(* The calls, as RoundV2 has them.                                         *)

Fresh(id) == id \in PilotRound /\ ~ Exists(id) /\ \A i \in PilotRound : i < id => Exists(i)

CreateRound(id, mode, w) ==
    /\ Fresh(id)
    /\ rounds' = [rounds EXCEPT ![id] = [Unused EXCEPT !.status = "Open", !.mode = mode, !.operator = w]]

CommitTo(id, w, seal) ==
    /\ Exists(id) /\ rounds[id].status = "Open" /\ era[id] = "commit"
    /\ rounds' = [rounds EXCEPT ![id].seal[w] = seal]

OpenReveal(id) ==
    /\ Exists(id) /\ rounds[id].status = "Open" /\ era[id] # "commit"
    /\ rounds' = [rounds EXCEPT ![id].status = "Revealing"]

RevealOf(id, w) ==
    /\ rounds[id].status = "Revealing" /\ era[id] # "late"
    /\ w \in Sealed(id) \ rounds[id].revealed
    /\ rounds' = [rounds EXCEPT ![id].revealed = @ \cup {w}]

\* A receipt-only round settles; an auction has a winner or is void.
ClearRound(id) ==
    /\ Exists(id) /\ rounds[id].status = "Revealing" /\ era[id] = "late"
    /\ rounds' = [rounds EXCEPT ![id].status =
           IF rounds[id].mode = "ReceiptOnly" THEN "Settled"
           ELSE IF rounds[id].revealed = {} THEN "Voided" ELSE "Cleared"]

SettleRound(id) ==
    /\ Exists(id) /\ rounds[id].status = "Cleared"
    /\ rounds' = [rounds EXCEPT ![id].status = "Settled"]

VoidRound(id) ==
    /\ Exists(id) /\ rounds[id].status = "Open" /\ era[id] = "late"
    /\ rounds' = [rounds EXCEPT ![id].status = "Voided"]

\* Everybody else: other operators, participants and keepers.
OthersAct(id) ==
    /\ \/ CreateRound(id, "ReceiptOnly", Nobody)
       \/ /\ id \in OthersRound
          /\ \/ \E w \in Wallet \ PageWallet : CommitTo(id, w, id)
             \/ OpenReveal(id)
             \/ \E w \in Wallet : RevealOf(id, w)
             \/ ClearRound(id) \/ SettleRound(id) \/ VoidRound(id)
    /\ UNCHANGED era

ChainNext == \E id \in PilotRound : TimePasses(id) \/ OthersAct(id)
=============================================================================
