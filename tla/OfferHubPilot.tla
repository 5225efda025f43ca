--------------------------- MODULE OfferHubPilot ---------------------------
(***************************************************************************)
(* The Offer-Hub pilot, pages/OfferHubPilotPage.tsx with lib/offerHubPilot:*)
(* a client's job, sealed proposals, and a provider selected among them.   *)
(***************************************************************************)
EXTENDS PilotTab

VARIABLE hub        \* the saved workspace: [mode, selected]

HubInit == hub = [mode |-> IF tab.id = NoRound THEN "sample" ELSE "live", selected |-> Nobody]

\* refreshLive.
HubShow(r) ==
    /\ Exists(r.id) /\ r.newest
    /\ tab' = [tab EXCEPT !.round = Snapshot(r.id), !.id = r.id]
    /\ hub' = [hub EXCEPT !.mode = "live"]
    /\ reads' = reads \ {r}
    /\ UNCHANGED <<page, tasks>>

\* loadLiveRound names its round even if its refresh was superseded; the
\* effect on the round id refreshes again.
HubLoadOvertaken(r) ==
    /\ Exists(r.id) /\ ~ r.newest /\ r.by = "load"
    /\ tab' = [tab EXCEPT !.id = r.id]
    /\ hub' = [hub EXCEPT !.mode = "live"]
    /\ reads' = {[x EXCEPT !.newest = FALSE] : x \in reads \ {r}}
                \cup {[id |-> r.id, by |-> "page", newest |-> TRUE]}
    /\ UNCHANGED <<page, tasks>>

HubReadDropped(r) ==
    /\ ~ r.newest /\ r.by # "load"
    /\ ReadFails(r)
    /\ UNCHANGED hub

\* The hashchange listener names the new round; what is shown stays until
\* the effect on the round id has read it.
HubHashChange ==
    /\ tab.event
    /\ IF tab.hash = NoRound \/ (tab.hash = tab.id /\ hub.mode = "live")
       THEN tab' = [tab EXCEPT !.event = FALSE] /\ UNCHANGED <<reads, hub>>
       ELSE /\ tab' = [tab EXCEPT !.event = FALSE, !.id = tab.hash]
            /\ hub' = [hub EXCEPT !.mode = "live"]
            /\ StartReadBeside(tab.hash, "page")
    /\ UNCHANGED <<page, tasks>>

HubSwitchMode(m) ==
    /\ m # hub.mode /\ Gesture(tab)
    /\ hub' = [hub EXCEPT !.mode = m]
    /\ IF m = "live" /\ tab.id # NoRound THEN StartReadBeside(tab.id, "page") ELSE UNCHANGED reads
    /\ UNCHANGED <<page, tasks>>

HubReset ==
    /\ Gesture([HashSet(NoRound) EXCEPT !.id = NoRound, !.round = NoData])
    /\ hub' = [mode |-> "sample", selected |-> Nobody]
    /\ UNCHANGED <<page, reads, tasks>>

\* loadLiveRound, with the id in the input.
HubLoad(id) ==
    /\ ~ tab.busy /\ Gesture([tab EXCEPT !.busy = TRUE])
    /\ tasks' = tasks \cup {[TaskOf("load", id, NoRound) EXCEPT !.at = "refreshing"]}
    /\ StartReadBeside(id, "load")
    /\ UNCHANGED <<page, hub>>

HubAllRevealed == Shows /\ tab.round.listed # {} /\ tab.round.listed = tab.round.revealed

HubClicks ==
    /\ Connected
    /\ \/ Click("create", NoRound, NoRound)
       \/ /\ hub.mode = "live" /\ Shows /\ tab.id # NoRound
          /\ \/ tab.round.status = "Open" /\ Click("submit", tab.id, tab.round.id)
             \/ /\ \/ tab.round.status = "Open" /\ Readable(tab.round.id)
                   \/ tab.round.status = "Revealing" /\ ~ HubAllRevealed
                /\ Click("reveal", tab.id, NoRound)
    /\ UNCHANGED hub

\* canSelectOfferHubProvider of deriveOfferHubStage: revealed, or selected.
CanSelectProvider ==
    /\ hub.mode = "live" /\ Shows
    /\ \/ hub.selected \in tab.round.listed
       \/ tab.round.status \in {"Settled", "Cleared"}
       \/ tab.round.status # "Voided" /\ HubAllRevealed

HubSelect(w) ==
    /\ CanSelectProvider /\ w \in tab.round.listed \ {hub.selected} /\ Gesture(tab)
    /\ hub' = [hub EXCEPT !.selected = w]
    /\ UNCHANGED <<page, reads, tasks>>

HubCreates(t) ==
    /\ Calls(t, "create")
    /\ \E id \in PilotRound :
        /\ CreateRound(id, "ReceiptOnly", Nobody)
        /\ tab' = [HashSet(id) EXCEPT !.id = id, !.round = NoData, !.busy = FALSE]
        /\ StartReadBeside(id, "page")
    /\ hub' = [hub EXCEPT !.mode = "live", !.selected = Nobody]
    /\ tasks' = tasks \ {t}
    /\ UNCHANGED <<era, page>>

HubCommits(t) ==
    /\ Calls(t, "submit")
    /\ CommitTo(t.id, t.by, t.arg)
    /\ Goes(t, "refreshing") /\ StartReadBeside(t.id, "submit")
    /\ UNCHANGED <<era, page, tab, hub>>

HubPassShown(t) ==
    /\ PassThrough(t)
    /\ Goes(t, "shown") /\ StartReadBeside(t.id, "reveal")
    /\ UNCHANGED <<chainVars, page, tab, hub>>

\* After the pass the page clears the round at once.
HubClears(t) ==
    /\ t.at = "shown" /\ ~ \E r \in reads : r.by = "reveal"
    /\ ClearRound(t.id) \/ (rounds[t.id].status # "Revealing" /\ UNCHANGED rounds)
    /\ Goes(t, "refreshing") /\ StartReadBeside(t.id, "reveal")
    /\ UNCHANGED <<era, page, tab, hub>>

\* An error, a clear before the reveal deadline among them: refresh, and out.
HubRevealFails(t) ==
    /\ t.verb = "reveal" /\ t.at # "refreshing"
    /\ Goes(t, "refreshing") /\ StartReadBeside(t.id, "reveal")
    /\ UNCHANGED <<chainVars, page, tab, hub>>

HubNext ==
    \/ /\ \/ \E r \in reads : HubShow(r) \/ HubLoadOvertaken(r) \/ HubReadDropped(r)
          \/ HubHashChange \/ HubReset \/ HubClicks
          \/ \E m \in {"sample", "live"} : HubSwitchMode(m)
          \/ \E id \in PilotRound : HubLoad(id)
          \/ \E w \in Wallet : HubSelect(w)
          \/ /\ \/ \E r \in reads : ReadFails(r)
                \/ \E id \in PilotRound : GoTo(id)
                \/ \E w \in PageWallet : Connect(w)
                \/ \E t \in tasks : TaskReturns(t) \/ (t.verb # "reveal" /\ TaskFails(t))
             /\ UNCHANGED hub
       /\ UNCHANGED chainVars
    \/ \E t \in tasks :
        \/ PassNext(t) /\ UNCHANGED hub
        \/ HubCreates(t) \/ HubCommits(t) \/ HubPassShown(t)
        \/ HubClears(t) \/ HubRevealFails(t)
=============================================================================
