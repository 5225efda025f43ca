---------------------------- MODULE AuctionRoom ----------------------------
(***************************************************************************)
(* The live auction room of apps/web: hooks/useRoundSession.ts and the     *)
(* buttons of pages/DemoPage.tsx, over rounds of the v1 contract.  The     *)
(* room keeps one round; its handlers work on the session as it was when   *)
(* the button was pressed and write to the session as it is when they are  *)
(* through.  RoundV1 has the contract in detail.                           *)
(***************************************************************************)
EXTENDS Integers, FiniteSets

CONSTANTS
    AuctionId,      \* round ids, 1 .. n
    Guest,          \* the wallets the user of the room may connect
    Peer,           \* other bidders
    NoAuction,      \* no round, no bid, nothing shown
    MaxClicks,      \* bound: buttons pressed
    MaxJobs,        \* bound: handlers under way
    MaxPeerBids     \* bound: rounds a peer bids in

VARIABLES
    auctions,       \* auctions[id]: [status, phase, bid, revealed]
    room,           \* the session: [address, id, auditor, committed, live, working, clicks]
    work            \* handlers under way: [verb, at, id, by, auditor, left, some]

roomVars == <<auctions, room, work>>

\* A bid is known by the beacon and the auditor it is sealed for, each of
\* them by its round.
Bidders(id) == {w \in Guest \cup Peer : auctions[id].bid[w] # NoAuction}
NoBids == [w \in Guest \cup Peer |-> NoAuction]
Held(id) == id \in AuctionId /\ auctions[id].status # "None"

InitRoom ==
    /\ auctions = [id \in AuctionId |->
           [status |-> IF id = 1 THEN "Open" ELSE "None", phase |-> "commit",
            bid |-> NoBids, revealed |-> {}]]
    /\ room = [address |-> NoAuction, id |-> NoAuction, auditor |-> NoAuction,
               committed |-> FALSE, live |-> NoAuction, working |-> FALSE, clicks |-> 0]
    /\ work = {}

---------------------------------------------------------------------------
(* The rounds.                                                             *)

\* From the commit window to the beacon, and to the end of the reveal window.
Phases(id) ==
    /\ Held(id) /\ auctions[id].phase # "late"
    /\ auctions' = [auctions EXCEPT ![id].phase =
           CASE @ = "commit" -> "closed" [] @ = "closed" -> "beacon" [] OTHER -> "late"]

Create(id) ==
    /\ id \in AuctionId /\ ~ Held(id) /\ \A i \in AuctionId : i < id => Held(i)
    /\ auctions' = [auctions EXCEPT ![id].status = "Open"]

Bid(id, w, seal) ==
    /\ auctions[id].status = "Open" /\ auctions[id].phase = "commit"
    /\ auctions' = [auctions EXCEPT ![id].bid[w] = seal]

Open(id) ==
    /\ auctions[id].status = "Open" /\ auctions[id].phase \in {"beacon", "late"}
    /\ auctions' = [auctions EXCEPT ![id].status = "Revealing"]

Reveal(id, w) ==
    /\ auctions[id].status = "Revealing" /\ auctions[id].phase = "beacon"
    /\ w \in Bidders(id) \ auctions[id].revealed
    /\ auctions' = [auctions EXCEPT ![id].revealed = @ \cup {w}]

PeerBids(id, w) ==
    /\ Cardinality({i \in AuctionId : w \in Bidders(i)}) < MaxPeerBids
    /\ Bid(id, w, [beacon |-> id, auditor |-> id])

PeersAct(id) ==
    \/ Create(id) \/ Phases(id) \/ (Held(id) /\ Open(id))
    \/ \E w \in Peer : PeerBids(id, w)
    \/ \E w \in Guest \cup Peer : Reveal(id, w)

---------------------------------------------------------------------------
(* What the room derives from its session.                                 *)

Snapshot(id) == [id |-> id, bidders |-> Bidders(id), revealed |-> auctions[id].revealed]
Shown == room.live # NoAuction

\* Whoever bid in the round shown, or what was committed if none is shown.
Committed ==
    IF Shown THEN room.address \in room.live.bidders ELSE room.committed
CommitClosed == Shown /\ auctions[room.live.id].phase # "commit"
Published == Shown => auctions[room.live.id].phase \in {"beacon", "late"}

---------------------------------------------------------------------------
(* Handlers.                                                               *)

Job(verb, id) == [verb |-> verb, at |-> "call", id |-> id, by |-> room.address,
                  auditor |-> room.auditor, left |-> {}, some |-> FALSE]

MayPress == room.clicks < MaxClicks /\ Cardinality(work) < MaxJobs

Press(verb, id) ==
    /\ ~ room.working /\ room.address # NoAuction /\ MayPress
    /\ room' = [room EXCEPT !.working = TRUE, !.clicks = @ + 1]
    /\ work' = work \cup {Job(verb, id)}
    /\ UNCHANGED auctions

\* connect: its button is always enabled, and the status it ends with is the
\* status of the room, whatever else is under way.
Reconnect(w) ==
    /\ room.clicks < MaxClicks
    /\ room' = [room EXCEPT !.address = w, !.working = FALSE, !.clicks = @ + 1]
    /\ UNCHANGED <<auctions, work>>

PressCreate ==
    /\ room.id = NoAuction \/ (~ Committed /\ CommitClosed)
    /\ Press("create", NoAuction)
PressJoin(id) == room.id = NoAuction /\ Press("join", id)
PressCommit == room.id # NoAuction /\ ~ Committed /\ ~ CommitClosed /\ Press("commit", room.id)
PressReveal ==
    /\ Committed /\ Published /\ (Shown => room.live.revealed = {})
    /\ Press("reveal", room.id)

\* refresh, from the button or awaited by a handler.
PressRefresh ==
    /\ room.id # NoAuction /\ MayPress
    /\ room' = [room EXCEPT !.clicks = @ + 1]
    /\ work' = work \cup {[Job("refresh", room.id) EXCEPT !.at = "refresh"]}
    /\ UNCHANGED auctions

Moves(j, k) == work' = (work \ {j}) \cup {k}
Refreshes(j, id) == Moves(j, [j EXCEPT !.at = "refresh", !.id = id])
Is(j, verb, at) == j.verb = verb /\ j.at = at

\* What was read is shown, whatever round the session is at by now.
Refreshed(j) ==
    /\ j.at = "refresh"
    /\ room' = [room EXCEPT !.live = Snapshot(j.id)]
    /\ work' = work \ {j}
    /\ UNCHANGED auctions

\* Every await may throw; the status becomes "error".
JobFails(j) ==
    /\ room' = [room EXCEPT !.working = @ /\ j.verb = "refresh"]
    /\ work' = work \ {j}
    /\ UNCHANGED auctions

\* The session of a round just created or joined.
Enters(id) == [room EXCEPT !.id = id, !.auditor = id, !.committed = FALSE,
                           !.live = NoAuction, !.working = FALSE]

CreateCalled(j) ==
    /\ Is(j, "create", "call")
    /\ \E id \in AuctionId : Create(id) /\ Moves(j, [j EXCEPT !.at = "done", !.id = id])
    /\ UNCHANGED room

CreateDone(j) ==
    /\ Is(j, "create", "done")
    /\ room' = Enters(j.id) /\ Refreshes(j, j.id)
    /\ UNCHANGED auctions

JoinRead(j) ==
    /\ Is(j, "join", "call")
    /\ Held(j.id) /\ auctions[j.id].status = "Open" /\ auctions[j.id].phase = "commit"
    /\ room' = Enters(j.id) /\ Refreshes(j, j.id)
    /\ UNCHANGED auctions

\* Mutant of SealOf: sealed for targetRound, the beacon the page counts down
\* to: of the round shown, or the demo's.
SealOf_Target(j) == [beacon |-> IF Shown THEN room.live.id ELSE NoAuction, auditor |-> j.auditor]

\* commitEntry reads its round again; the auditor is that of the session.
SealOf(j) == [beacon |-> j.id, auditor |-> j.auditor]

CommitRead(j) ==
    /\ Is(j, "commit", "call")
    /\ Moves(j, [j EXCEPT !.at = "send", !.left = {SealOf(j)}])
    /\ UNCHANGED <<auctions, room>>

CommitSent(j) ==
    /\ Is(j, "commit", "send")
    /\ \E seal \in j.left : Bid(j.id, j.by, seal)
    /\ Moves(j, [j EXCEPT !.at = "done"])
    /\ UNCHANGED room

CommitDone(j) ==
    /\ Is(j, "commit", "done")
    /\ room' = [room EXCEPT !.committed = TRUE, !.auditor = j.auditor, !.working = FALSE]
    /\ Refreshes(j, j.id)
    /\ UNCHANGED auctions

\* openAndReveal: opens the round unless it is, and lists who is to reveal.
RevealOpens(j) ==
    /\ Is(j, "reveal", "call")
    /\ Open(j.id) \/ (auctions[j.id].status = "Revealing" /\ UNCHANGED auctions)
    /\ Moves(j, [j EXCEPT !.at = "each", !.left = Bidders(j.id) \ auctions[j.id].revealed])
    /\ UNCHANGED room

\* A bid whose seal has expired is skipped.
RevealsEach(j) ==
    /\ Is(j, "reveal", "each")
    /\ \E w \in j.left :
        \/ Reveal(j.id, w) /\ Moves(j, [j EXCEPT !.left = @ \ {w}, !.some = TRUE])
        \/ UNCHANGED auctions /\ Moves(j, [j EXCEPT !.left = @ \ {w}])
    /\ UNCHANGED room

\* It is an error to have revealed nothing.
RevealDone(j) ==
    /\ Is(j, "reveal", "each") /\ j.left = {} /\ j.some
    /\ room' = [room EXCEPT !.working = FALSE]
    /\ Refreshes(j, j.id)
    /\ UNCHANGED auctions

NextRoom ==
    \/ \E id \in AuctionId : PeersAct(id) /\ UNCHANGED <<room, work>>
    \/ \E w \in Guest : Reconnect(w)
    \/ PressCreate \/ PressCommit \/ PressReveal \/ PressRefresh
    \/ \E id \in AuctionId : PressJoin(id)
    \/ \E j \in work :
        \/ Refreshed(j) \/ JobFails(j)
        \/ CreateCalled(j) \/ CreateDone(j) \/ JoinRead(j)
        \/ CommitRead(j) \/ CommitSent(j) \/ CommitDone(j)
        \/ RevealOpens(j) \/ RevealsEach(j) \/ RevealDone(j)

SpecRoom == InitRoom /\ [][NextRoom]_roomVars

---------------------------------------------------------------------------
\* A bid made in the room opens with the beacon of the round it is in,
\* whatever the room shows when it is sealed: refreshes of another round that
\* answer late, a wallet connected in the middle, handlers run twice.
RoomSealsInTime ==
    \A id \in AuctionId, w \in Guest :
        auctions[id].bid[w] # NoAuction => auctions[id].bid[w].beacon = id
=============================================================================
