---------------------------- MODULE BidderAgent ----------------------------
(***************************************************************************)
(* The autonomous bidder of services/agent and the paid appraisal API it   *)
(* calls (services/appraisal-api), which is its own x402 facilitator.  The *)
(* agent works under a mandate with caps: it verifies the mandate, pays    *)
(* for an appraisal, sizes its bid from it and commits the bid with the    *)
(* session key.  A run that fails or dies anywhere may be started again.   *)
(*                                                                         *)
(* Money is in units of the token.  Signatures and hashes are left out: a  *)
(* mandate is one the principal signed for this round and session key.     *)
(***************************************************************************)
EXTENDS Integers

CONSTANTS
    Mandates,       \* [maxBid, maxEscrow, price, spend]: mandates there may be
    ServerPrice,    \* what the server may ask for an appraisal
    Suggestion,     \* suggestedMaxBid of the appraisals
    MaxRuns         \* bound: runs of the agent

VARIABLES
    mandate,
    inTime,         \* neither the mandate nor its commit deadline has passed
    lot,            \* the round: [open, bid, escrow] of the session key, 0: no bid
    agent,          \* [at, offer, suggested, runs]
    server,         \* [at, price, offer]: the paid request it is working on
    tally           \* [spent, charges, made, received], over all the runs

agentVars == <<mandate, inTime, lot, agent, server, tally>>

Stopped == [at |-> "stopped", offer |-> 0, suggested |-> 0, runs |-> 0]

InitAgent ==
    /\ mandate \in Mandates
    /\ inTime = TRUE
    /\ lot = [open |-> TRUE, bid |-> 0, escrow |-> 0]
    /\ agent = Stopped
    /\ server \in [at : {"free"}, price : ServerPrice, offer : {0}]
    /\ tally = [spent |-> 0, charges |-> 0, made |-> 0, received |-> 0]

---------------------------------------------------------------------------
(* The agent.                                                              *)

Agent(from, to) == agent.at = from /\ agent' = [agent EXCEPT !.at = to]

\* verifySessionMandate, on what is not cryptography.
MandateVerifies ==
    inTime /\ mandate.maxBid <= mandate.maxEscrow /\ mandate.price <= mandate.spend

\* assertAppraisalSpendAllowed(mandate, price, spent so far)
SpendAllowed(price, soFar) ==
    price <= mandate.price /\ soFar + price <= mandate.spend

\* runBidderAgent, up to the first request: the price it checks is the one
\* its mandate quotes, and the spending so far is none.
StartRun ==
    /\ agent.at = "stopped" /\ agent.runs < MaxRuns
    /\ MandateVerifies /\ lot.open /\ SpendAllowed(mandate.price, 0)
    /\ agent' = [Stopped EXCEPT !.at = "ask", !.runs = agent.runs + 1]
    /\ UNCHANGED <<mandate, inTime, lot, server, tally>>

\* paidFetch: the answer is 402 with the server's price, and the session key
\* signs a payment of it.
AskPrice ==
    /\ agent.at = "ask"
    /\ agent' = [agent EXCEPT !.at = "pay", !.offer = server.price]
    /\ UNCHANGED <<mandate, inTime, lot, server, tally>>

\* The request again, with the payment.
SendPayment ==
    /\ Agent("pay", "wait")
    /\ server.at = "free"
    /\ server' = [server EXCEPT !.at = "verify", !.offer = agent.offer]
    /\ UNCHANGED <<mandate, inTime, lot, tally>>

AtMostOf(x, y) == IF x <= y THEN x ELSE y

\* bidFromAppraisal: the suggestion, clamped to the mandate, is bid and escrow.
BidFromAppraisal(suggested) == AtMostOf(suggested, mandate.maxBid)

\* assertBidWithinMandate
WithinMandate(bid, escrow) ==
    /\ 0 < bid /\ bid <= mandate.maxBid
    /\ 0 < escrow /\ escrow <= mandate.maxEscrow
    /\ bid <= escrow

\* commit: a second bid of the same key replaces the first.  The confirmation
\* may be lost after the commit was made.
CommitBid ==
    LET bid == BidFromAppraisal(agent.suggested)
    IN  /\ agent.at = "size" /\ WithinMandate(bid, bid) /\ lot.open
        /\ agent' = [agent EXCEPT !.at = "stopped"]
        /\ lot' = [lot EXCEPT !.bid = bid, !.escrow = bid]
        /\ UNCHANGED <<mandate, inTime, server, tally>>

\* An error, a refusal, a lost answer, or the end of the process.
RunFails ==
    /\ agent.at # "stopped"
    /\ agent' = [agent EXCEPT !.at = "stopped"]
    /\ UNCHANGED <<mandate, inTime, lot, server, tally>>

---------------------------------------------------------------------------
(* The appraisal server.                                                   *)

Serve(from, to) == server.at = from /\ server' = [server EXCEPT !.at = to]
AgentUntouched == UNCHANGED <<mandate, inTime, lot, agent>>

\* The payment does not match what is asked by now, or the body is not a
\* request: an error, and nothing is charged.
Reject ==
    /\ Serve("verify", "free")
    /\ AgentUntouched /\ UNCHANGED tally

\* The payment is verified and the appraisal made, but not sent yet.
Appraise ==
    /\ server.offer = server.price
    /\ Serve("verify", "settle")
    /\ tally' = [tally EXCEPT !.made = @ + 1]
    /\ AgentUntouched

Settle ==
    /\ Serve("settle", "answer")
    /\ tally' = [tally EXCEPT !.spent = @ + server.offer, !.charges = @ + 1]
    /\ AgentUntouched

\* Mutant of SettleFails: the appraisal is sent all the same.
SettleFails_Answers == Serve("settle", "answer") /\ AgentUntouched /\ UNCHANGED tally

\* processSettlement has no success: its error is all the agent gets.
SettleFails == Serve("settle", "free") /\ AgentUntouched /\ UNCHANGED tally

\* The answer, to an agent that still waits for it.
Answer ==
    /\ Serve("answer", "free")
    /\ IF agent.at = "wait"
       THEN /\ \E s \in Suggestion : agent' = [agent EXCEPT !.at = "size", !.suggested = s]
            /\ tally' = [tally EXCEPT !.received = @ + 1]
       ELSE UNCHANGED <<agent, tally>>
    /\ UNCHANGED <<mandate, inTime, lot>>

\* It is started with another price.
SetPrice(price) ==
    /\ server.at = "free" /\ price # server.price
    /\ server' = [server EXCEPT !.price = price]
    /\ AgentUntouched /\ UNCHANGED tally

TimeRunsOut ==
    /\ inTime /\ inTime' = FALSE
    /\ UNCHANGED <<mandate, lot, agent, server, tally>>

CommitsEnd ==
    /\ ~ inTime /\ lot' = [lot EXCEPT !.open = FALSE]
    /\ UNCHANGED <<mandate, inTime, agent, server, tally>>

NextAgent ==
    \/ StartRun \/ AskPrice \/ SendPayment \/ CommitBid \/ RunFails
    \/ Reject \/ Appraise \/ Settle \/ SettleFails \/ Answer
    \/ \E price \in ServerPrice : SetPrice(price)
    \/ TimeRunsOut \/ CommitsEnd

SpecAgent == InitAgent /\ [][NextAgent]_agentVars

---------------------------------------------------------------------------
\* appraisal-api/src/server.ts: "Only after settlement succeeds does the
\* agent receive the appraisal", and a request that is not answered for a
\* reason of its own is not charged - over any number of runs that fail
\* before, between or after the two.
ChargedForAppraisals ==
    tally.received <= tally.charges /\ tally.charges <= tally.made

\* agent/src/mandate.ts: "Maximum total x402 appraisal spend for this
\* session", and "agent refuses if server asks more" than the quoted price.
SpendWithinMandate == tally.spent <= mandate.spend
=============================================================================
