----------------------------- MODULE BasicPilot -----------------------------
(***************************************************************************)
(* The partner pilot workspace, pages/PilotPage.tsx: #/pilot/<round>.  The *)
(* round id is an input of its own: it may name another round than the one *)
(* that is shown.                                                          *)
(***************************************************************************)
EXTENDS PilotTab

BasicShow(r) ==
    /\ Exists(r.id) /\ r.newest
    /\ tab' = [IF r.by = "load" THEN HashSet(r.id) ELSE tab EXCEPT !.round = Snapshot(r.id)]
    /\ reads' = reads \ {r}
    /\ UNCHANGED <<page, tasks>>

\* The hashchange listener.
BasicHashChange ==
    /\ tab.event
    /\ tab' = [tab EXCEPT !.event = FALSE, !.id = tab.hash, !.round = NoData]
    /\ StartReadUnlessNone(tab.hash, "page")
    /\ UNCHANGED <<page, tasks>>

BasicTypeId(id) ==
    /\ id # tab.id /\ Gesture([tab EXCEPT !.id = id])
    /\ UNCHANGED <<page, reads, tasks>>

BasicRefresh ==
    /\ Shows /\ tab.id # NoRound
    /\ StartRead(tab.id, "page") /\ Gesture(tab)
    /\ UNCHANGED <<page, tasks>>

\* Load is not disabled while the page is busy, and sets and resets busy.
BasicLoad ==
    /\ tab.id # NoRound
    /\ Gesture([tab EXCEPT !.busy = TRUE])
    /\ tasks' = tasks \cup {[TaskOf("load", tab.id, NoRound) EXCEPT !.at = "refreshing"]}
    /\ StartRead(tab.id, "load")
    /\ UNCHANGED page

BasicStatus == IF Shows THEN tab.round.status ELSE "Unknown"

\* pilotRevealAction(...).ready: the beacon is that of the round shown.
BasicRevealReady ==
    \/ BasicStatus = "Open" /\ Readable(tab.round.id)
    \/ BasicStatus = "Revealing" /\ ~ (tab.round.listed # {} /\ tab.round.listed = tab.round.revealed)

BasicClicks ==
    /\ Connected
    /\ \/ \E verb \in {"createProposal", "createAuction"} : Click(verb, NoRound, NoRound)
       \/ BasicStatus = "Open" /\ tab.id # NoRound /\ Click("submit", tab.id, tab.round.id)
       \/ BasicRevealReady /\ tab.id # NoRound /\ Click("reveal", tab.id, NoRound)
       \/ BasicStatus = "Revealing" /\ tab.id # NoRound /\ Click("clear", tab.id, NoRound)
       \/ BasicStatus = "Cleared" /\ tab.id # NoRound /\ Click("settle", tab.id, NoRound)
       \/ BasicStatus = "Open" /\ tab.id # NoRound /\ Click("void", tab.id, NoRound)

\* createRound: the new id, its address and its refresh, and then the event.
BasicCreates(t) ==
    /\ t.at = "call" /\ t.verb \in {"createProposal", "createAuction"}
    /\ \E id \in PilotRound :
        /\ CreateRound(id, IF t.verb = "createAuction" THEN "Auction" ELSE "ReceiptOnly", Nobody)
        /\ tab' = [HashSet(id) EXCEPT !.id = id]
        /\ AwaitRefresh(t, id)
    /\ UNCHANGED <<era, page>>

BasicCalls(t) ==
    /\ \/ Calls(t, "submit") /\ CommitTo(t.id, t.by, t.arg)
       \/ Calls(t, "clear") /\ ClearRound(t.id)
       \/ Calls(t, "settle") /\ SettleRound(t.id)
       \/ Calls(t, "void") /\ VoidRound(t.id)
    /\ AwaitRefresh(t, t.id)
    /\ UNCHANGED <<era, page, tab>>

\* "Reveal phase complete", or all of it done: refresh.
BasicRevealEnds(t) ==
    /\ \/ Calls(t, "reveal") /\ Exists(t.id) /\ rounds[t.id].status \notin {"Open", "Revealing"}
       \/ PassThrough(t)
    /\ AwaitRefresh(t, t.id)
    /\ UNCHANGED <<chainVars, page, tab>>

BasicNext ==
    \/ /\ \/ \E r \in reads : BasicShow(r) \/ ReadFails(r)
          \/ BasicHashChange \/ BasicRefresh \/ BasicLoad
          \/ \E id \in PilotRound : BasicTypeId(id) \/ GoTo(id)
          \/ \E w \in PageWallet : Connect(w)
          \/ BasicClicks
          \/ \E t \in tasks : TaskReturns(t) \/ TaskFails(t)
       /\ UNCHANGED chainVars
    \/ \E t \in tasks : PassNext(t) \/ BasicCreates(t) \/ BasicCalls(t) \/ BasicRevealEnds(t)
=============================================================================
