--------------------------- MODULE OpenX402Pilot ---------------------------
(***************************************************************************)
(* The OpenX402 pilot, pages/OpenX402PilotPage.tsx: service offers sealed  *)
(* in a round, the lowest valid one selected by the page once all are      *)
(* revealed, and handed to a payment interface that does not exist yet.    *)
(* The demo is left out.  tab.id is the round of the workspace.            *)
(***************************************************************************)
EXTENDS PilotTab

VARIABLE market     \* [mode, count, offers, complete, selected]

\* count is the page's own count of sealed offers, complete that a refresh
\* found them all revealed: then the offers are saved with the workspace.
NoMarket(mode) ==
    [mode |-> mode, count |-> 0, offers |-> {}, complete |-> FALSE, selected |-> Nobody]

\* The link, or the saved workspace, makes the page live.
MarketInit == market = NoMarket(IF tab.hash = NoRound THEN "demo" ELSE "live")

allOffersRevealed == market.count > 0 /\ Cardinality(market.offers) = market.count

---------------------------------------------------------------------------
(* Refreshes carry the generation they began in.  Loading another round,   *)
(* leaving the mode and starting anew begin the next one, and what is read *)
(* of the older ones is dropped.                                           *)

NextGeneration == reads' = {}
ReadInGeneration(id, by) == reads' = reads \cup {[id |-> id, by |-> by, newest |-> TRUE]}

\* refreshLive takes only rounds without settlement.
MarketShow(r) ==
    /\ Exists(r.id) /\ rounds[r.id].mode = "ReceiptOnly"
    /\ LET open == rounds[r.id].revealed
           all == Sealed(r.id) # {} /\ open = Sealed(r.id)
       IN  market' = [market EXCEPT !.count = Cardinality(Sealed(r.id)), !.offers = open,
                                    !.complete = all]
    /\ tab' = [IF r.by = "load" THEN HashSet(r.id) ELSE tab
                   EXCEPT !.round = Snapshot(r.id), !.id = r.id, !.event = FALSE]
    /\ reads' = reads \ {r}
    /\ UNCHANGED <<page, tasks>>

\* The timer, every four seconds while the page is not busy.
MarketPolls ==
    /\ market.mode = "live" /\ tab.id # NoRound /\ ~ tab.busy
    /\ [id |-> tab.id, by |-> "page", newest |-> TRUE] \notin reads
    /\ ReadInGeneration(tab.id, "page")
    /\ UNCHANGED <<page, tab, tasks, market>>

MarketLoad(id) ==
    /\ market.mode = "live" /\ ~ tab.busy /\ Gesture([tab EXCEPT !.busy = TRUE])
    /\ tasks' = tasks \cup {[TaskOf("load", id, NoRound) EXCEPT !.at = "refreshing"]}
    /\ StartRead(id, "load")
    /\ UNCHANGED <<page, market>>

\* switchMode, which leaves the address, and resetWorkspace, which does not.
MarketSwitchMode(m) ==
    /\ Gesture([tab EXCEPT !.id = NoRound, !.round = NoData])
    /\ market' = NoMarket(m)
    /\ NextGeneration
    /\ UNCHANGED <<page, tasks>>

MarketReset ==
    /\ Gesture([HashSet(NoRound) EXCEPT !.event = FALSE, !.id = NoRound, !.round = NoData])
    /\ market' = NoMarket("demo")
    /\ NextGeneration
    /\ UNCHANGED <<page, tasks>>

\* startNewRound: the way to create another round.
MarketStartsAnew ==
    /\ market.mode = "live" /\ tab.id # NoRound /\ ~ tab.busy
    /\ Gesture([HashSet(NoRound) EXCEPT !.event = FALSE, !.id = NoRound, !.round = NoData])
    /\ market' = NoMarket("live")
    /\ NextGeneration
    /\ UNCHANGED <<page, tasks>>

\* The page is loaded anew.  Offers that were not all revealed are not saved.
MarketPageReload ==
    LET id == IF tab.hash # NoRound THEN tab.hash ELSE IF market.mode = "live" THEN tab.id ELSE NoRound
    IN  /\ Gesture([tab EXCEPT !.address = Nobody, !.round = NoData, !.busy = FALSE,
                               !.id = IF id = NoRound THEN @ ELSE id])
        /\ market' = [market EXCEPT !.mode = IF id = NoRound THEN @ ELSE "live",
                                    !.offers = IF market.complete THEN @ ELSE {}]
        /\ StartReadUnlessNone(id, "page") /\ tasks' = {}
        /\ UNCHANGED page

---------------------------------------------------------------------------
revealDisabled ==
    \/ ~ Shows
    \/ tab.round.status = "Settled"
    \/ tab.round.status = "Open" /\ (era[tab.round.id] = "late" \/ ~ Readable(tab.round.id))
    \/ tab.round.status = "Revealing" /\ allOffersRevealed /\ era[tab.round.id] # "late"

MarketClicks ==
    /\ Connected /\ market.mode = "live"
    /\ \/ tab.id = NoRound /\ Click("create", NoRound, NoRound)
       \/ /\ Shows /\ tab.round.status = "Open" /\ era[tab.round.id] = "commit"
          /\ Click("submit", tab.id, tab.round.id)
       \/ ~ revealDisabled /\ Click("reveal", tab.id, NoRound)
    /\ UNCHANGED market

\* applySelection: which offer is the lowest valid one is data.
MarketSelects(w) ==
    /\ allOffersRevealed /\ w \in market.offers /\ w # market.selected
    /\ Gesture(tab)
    /\ market' = [market EXCEPT !.selected = w]
    /\ UNCHANGED <<page, reads, tasks>>

MarketCreates(t) ==
    /\ Calls(t, "create")
    /\ \E id \in PilotRound :
        /\ CreateRound(id, "ReceiptOnly", Nobody)
        /\ tab' = [HashSet(id) EXCEPT !.event = FALSE, !.id = id]
        /\ Goes(t, "refreshing") /\ ReadInGeneration(id, "create")
    /\ market' = NoMarket(market.mode)
    /\ UNCHANGED <<era, page>>

\* A wallet that has an offer in the round is turned away.
MarketCommits(t) ==
    /\ Calls(t, "submit") /\ t.by \notin Sealed(t.id)
    /\ CommitTo(t.id, t.by, t.arg)
    /\ market' = [market EXCEPT !.count = @ + 1]
    /\ Goes(t, "refreshing") /\ ReadInGeneration(t.id, "submit")
    /\ UNCHANGED <<era, page, tab>>

\* The pass is over, or the round was closed: clear it if it is late.
MarketRevealEnds(t) ==
    /\ \/ Calls(t, "reveal") /\ rounds[t.id].status \notin {"Open", "Revealing"} /\ UNCHANGED rounds
       \/ PassThrough(t) /\ era[t.id] # "late" /\ UNCHANGED rounds
       \/ PassThrough(t) /\ ClearRound(t.id)
    /\ Goes(t, "refreshing") /\ ReadInGeneration(t.id, "reveal")
    /\ UNCHANGED <<era, page, tab, market>>

MarketNext ==
    \/ /\ \/ \E r \in reads : MarketShow(r)
          \/ MarketPolls \/ MarketReset \/ MarketStartsAnew \/ MarketPageReload \/ MarketClicks
          \/ \E m \in {"demo", "live"} : MarketSwitchMode(m)
          \/ \E id \in PilotRound : MarketLoad(id)
          \/ \E w \in Wallet : MarketSelects(w)
          \/ /\ \/ \E r \in reads : ReadFails(r)
                \/ \E w \in PageWallet : Connect(w)
                \/ \E t \in tasks : TaskReturns(t) \/ TaskFails(t)
             /\ UNCHANGED market
       /\ UNCHANGED chainVars
    \/ \E t \in tasks :
        \/ PassNext(t) /\ UNCHANGED market
        \/ MarketCreates(t) \/ MarketCommits(t) \/ MarketRevealEnds(t)
=============================================================================
