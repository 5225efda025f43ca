---------------------------- MODULE SignalPilot ----------------------------
(***************************************************************************)
(* The Signal pilot, pages/SignalPilotPage.tsx: an organizer keeps several *)
(* deal rooms, each for a round; one of them is on the screen.  The rooms  *)
(* survive a reload.  The sample walkthrough in a room without a round is  *)
(* left out.  The id in the input is tab.id; the page reads the address    *)
(* only when it is loaded.                                                 *)
(***************************************************************************)
EXTENDS PilotTab, Sequences

VARIABLE desk       \* [mode, rooms, at, offers]: rooms[n] is [round, selected]

Room(id) == [round |-> id, selected |-> Nobody]
room == desk.rooms[desk.at]

\* With a link to a round the page adds a room for it to the sample room.
SignalInit ==
    desk = IF tab.hash = NoRound
           THEN [mode |-> "sample", rooms |-> <<Room(NoRound)>>, at |-> 1, offers |-> {}]
           ELSE [mode |-> "live", rooms |-> <<Room(NoRound), Room(tab.hash)>>, at |-> 2, offers |-> {}]

liveRoundId == IF room.round # NoRound THEN room.round ELSE tab.id
RoomOf(id) == {n \in DOMAIN desk.rooms : desk.rooms[n].round = id}
InRoom(d, r) == [d EXCEPT !.rooms = Append(@, r), !.at = Len(desk.rooms) + 1]

liveRevealComplete ==
    /\ Shows
    /\ \/ tab.round.status \in {"Cleared", "Settled"}
       \/ tab.round.status = "Revealing" /\ Cardinality(desk.offers) = Cardinality(tab.round.listed)
revealed == liveRevealComplete \/ room.selected # Nobody
deadlinePassed == Shows /\ (tab.round.status # "Open" \/ era[tab.round.id] # "commit")

\* refreshLive: a room of another round becomes a new room of this one.
SignalShow(r) ==
    /\ Exists(r.id) /\ r.newest
    /\ tab' = [tab EXCEPT !.round = Snapshot(r.id), !.id = r.id]
    /\ LET shown == [desk EXCEPT !.offers = rounds[r.id].revealed]
       IN  desk' = IF room.round = r.id THEN shown ELSE InRoom(shown, [room EXCEPT !.round = r.id])
    /\ reads' = reads \ {r}
    /\ UNCHANGED <<page, tasks>>

SignalConnect(w) ==
    /\ Connect(w)
    /\ desk' = [desk EXCEPT !.mode = "live"]

\* Going live reads the round of the room.
SignalSwitchMode(m) ==
    /\ m # desk.mode /\ Gesture(tab)
    /\ desk' = [desk EXCEPT !.mode = m]
    /\ IF m = "live" /\ liveRoundId # NoRound THEN StartRead(liveRoundId, "page") ELSE UNCHANGED reads
    /\ UNCHANGED <<page, tasks>>

SignalTypeId(id) ==
    /\ desk.mode = "live" /\ id # tab.id /\ Gesture([tab EXCEPT !.id = id])
    /\ UNCHANGED <<page, reads, tasks, desk>>

\* activateRoom; a room without a round starts no refresh.
Activate(n, d) ==
    LET id == d.rooms[n].round
    IN  /\ desk' = [d EXCEPT !.at = n, !.offers = {}, !.mode = IF id = NoRound THEN "sample" ELSE "live"]
        /\ IF id = NoRound THEN UNCHANGED reads ELSE StartRead(id, "page")

\* The cards of the rooms are never disabled.
SignalActivate(n) ==
    /\ n \in DOMAIN desk.rooms /\ Activate(n, desk)
    /\ Gesture([tab EXCEPT !.round = NoData, !.id = desk.rooms[n].round])
    /\ UNCHANGED <<page, tasks>>

\* "Reset local room" writes the sample room afresh.
SignalReset ==
    /\ ~ tab.busy /\ Gesture([tab EXCEPT !.round = NoData, !.id = NoRound])
    /\ desk' = [desk EXCEPT !.mode = "sample", !.rooms[1] = Room(NoRound), !.at = 1, !.offers = {}]
    /\ UNCHANGED <<page, reads, tasks>>

\* loadLiveRoom: the room of that round if there is one, or a new one.
SignalLoad ==
    /\ desk.mode = "live" /\ ~ tab.busy /\ tab.id # NoRound
    /\ IF RoomOf(tab.id) # {}
       THEN /\ Activate(CHOOSE n \in RoomOf(tab.id) : \A m \in RoomOf(tab.id) : n <= m, desk)
            /\ Gesture([tab EXCEPT !.round = NoData]) /\ UNCHANGED tasks
       ELSE /\ desk' = [InRoom(desk, Room(tab.id)) EXCEPT !.offers = {}]
            /\ Gesture([HashSet(tab.id) EXCEPT !.round = NoData, !.event = FALSE, !.busy = TRUE])
            /\ tasks' = tasks \cup {[TaskOf("load", tab.id, NoRound) EXCEPT !.at = "refreshing"]}
            /\ StartRead(tab.id, "load")
    /\ UNCHANGED page

\* The page is loaded anew: the first room, or one for the round of the address.
SignalPageReload ==
    /\ IF tab.hash = NoRound THEN Activate(1, desk)
       ELSE IF RoomOf(tab.hash) # {}
       THEN Activate(CHOOSE n \in RoomOf(tab.hash) : \A m \in RoomOf(tab.hash) : n <= m, desk)
       ELSE Activate(Len(desk.rooms) + 1, InRoom(desk, Room(tab.hash)))
    /\ Gesture([tab EXCEPT !.address = Nobody, !.round = NoData, !.busy = FALSE, !.id = tab.hash])
    /\ tasks' = {}
    /\ UNCHANGED page

SignalClicks ==
    /\ Connected /\ desk.mode = "live"
    /\ \/ Click("create", NoRound, NoRound)
       \/ Shows /\ liveRoundId # NoRound /\ ~ deadlinePassed /\ tab.round.status = "Open"
          /\ Click("submit", liveRoundId, tab.round.id)
       \/ liveRoundId # NoRound /\ deadlinePassed /\ ~ revealed /\ Readable(tab.round.id)
          /\ Click("reveal", liveRoundId, NoRound)
    /\ UNCHANGED desk

SignalSelect(w) ==
    /\ desk.mode = "live" /\ revealed /\ w \in desk.offers /\ room.selected = Nobody
    /\ Gesture(tab)
    /\ desk' = [desk EXCEPT !.rooms[desk.at].selected = w]
    /\ UNCHANGED <<page, reads, tasks>>

\* createLiveDeal: the round that was shown stays until the refresh.
SignalCreates(t) ==
    /\ Calls(t, "create")
    /\ \E id \in PilotRound :
        /\ CreateRound(id, "ReceiptOnly", Nobody)
        /\ desk' = [InRoom(desk, Room(id)) EXCEPT !.mode = "live", !.offers = {}]
        /\ tab' = [HashSet(id) EXCEPT !.event = FALSE, !.id = id]
        /\ AwaitRefresh(t, id)
    /\ UNCHANGED <<era, page>>

\* The refresh is of the round the task began with, whatever room is open.
SignalCommits(t) ==
    /\ \/ Calls(t, "submit") /\ CommitTo(t.id, t.by, t.arg)
       \/ PassThrough(t) /\ UNCHANGED rounds
    /\ AwaitRefresh(t, t.id)
    /\ UNCHANGED <<era, page, tab, desk>>

SignalNext ==
    \/ /\ \/ \E r \in reads : SignalShow(r)
          \/ \E w \in PageWallet : SignalConnect(w)
          \/ \E m \in {"sample", "live"} : SignalSwitchMode(m)
          \/ \E id \in PilotRound : SignalTypeId(id)
          \/ \E n \in DOMAIN desk.rooms : SignalActivate(n)
          \/ SignalReset \/ SignalLoad \/ SignalPageReload \/ SignalClicks
          \/ \E w \in Wallet : SignalSelect(w)
          \/ /\ \/ \E r \in reads : ReadFails(r)
                \/ \E t \in tasks : TaskReturns(t) \/ TaskFails(t)
             /\ UNCHANGED desk
       /\ UNCHANGED chainVars
    \/ \E t \in tasks :
        \/ PassNext(t) /\ UNCHANGED desk
        \/ SignalCreates(t) \/ SignalCommits(t)
=============================================================================
