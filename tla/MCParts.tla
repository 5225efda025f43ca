------------------------------- MODULE MCParts -------------------------------
(***************************************************************************)
(* The parts of the system that touch no other, each explored on its own:  *)
(*   loop    the loop of clear over every ballot of up to five bids, with  *)
(*           ties, negative and zero amounts, invalid bids, and valid ones *)
(*           without an amount;                                            *)
(*   seal    the life of one seal, with days of two ledgers, so a ten      *)
(*           second buffer.  Extensions are capped at eight ledgers:       *)
(*           rounds of up to thirty seconds fit, as rounds of up to thirty *)
(*           days fit the cap of sixty days;                               *)
(*   store   the watch loop, its store and the queue command, one contract *)
(*           and two round ids in the discovery window;                    *)
(*   sdk     two calls of the client and three transactions;               *)
(*   agent   three runs of the bidder, with mandates and prices on both    *)
(*           sides of each other;                                          *)
(*   room    the auction room, two rounds, one guest and one peer.         *)
(* In a behaviour one part acts and the others stay as they begin.         *)
(***************************************************************************)
EXTENDS ClearingLoop, SealTtl, KeeperStore, SdkCalls, BidderAgent, AuctionRoom

VARIABLE part   \* the part explored

MCAmount == {-1, 1, 2}
MCBid == {[valid |-> FALSE, amount |-> None], [valid |-> FALSE, amount |-> -1],
          [valid |-> TRUE, amount |-> None],
          [valid |-> TRUE, amount |-> 1], [valid |-> TRUE, amount |-> 2]}
MCBallots == UNION {[1 .. n -> MCBid] : n \in 0 .. 5}

Due(commit, reveal) == [commit_deadline |-> commit, reveal_deadline |-> reveal]
MCSchedule == {Due(3, 7), Due(12, 18), Due(12, 30)}

MCMandates == [maxBid : {3}, maxEscrow : {2, 3}, price : {1}, spend : {1, 2}]

partsVars == <<part, loopVars, vars, storeVars, sdkVars, agentVars, roomVars>>

\* A part that is not explored has one initial state.
InitParts ==
    /\ part \in {"loop", "seal", "store", "sdk", "agent", "room"}
    /\ InitLoop /\ Init /\ StoreInit /\ InitSdk /\ InitAgent /\ InitRoom
    /\ part # "loop" => bids = <<>> /\ rule = "HighestBid"
    /\ part # "seal" => round = Due(3, 7)
    /\ part # "sdk" => sdk.signer = "local" /\ sdk.route = "direct"
    /\ part # "agent" => mandate = [maxBid |-> 3, maxEscrow |-> 3, price |-> 1, spend |-> 2]
                         /\ server.price = 1

NextParts ==
    /\ UNCHANGED part
    /\ \/ part = "loop" /\ NextLoop
          /\ UNCHANGED <<vars, storeVars, sdkVars, agentVars, roomVars>>
       \/ part = "seal" /\ Next
          /\ UNCHANGED <<loopVars, storeVars, sdkVars, agentVars, roomVars>>
       \/ part = "store" /\ StoreNext
          /\ UNCHANGED <<loopVars, vars, sdkVars, agentVars, roomVars>>
       \/ part = "sdk" /\ NextSdk
          /\ UNCHANGED <<loopVars, vars, storeVars, agentVars, roomVars>>
       \/ part = "agent" /\ NextAgent
          /\ UNCHANGED <<loopVars, vars, storeVars, sdkVars, roomVars>>
       \/ part = "room" /\ NextRoom
          /\ UNCHANGED <<loopVars, vars, storeVars, sdkVars, agentVars>>

\* StoreFairness is about the store: no behaviour of another part is fair to
\* it, so WindowRoundsKept is judged where part is "store".
SpecParts == InitParts /\ [][NextParts]_partsVars /\ StoreFairness
=============================================================================
