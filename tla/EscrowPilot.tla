---------------------------- MODULE EscrowPilot ----------------------------
(***************************************************************************)
(* The Trustless Work pilot, pages/TrustlessWorkPilotPage.tsx: proposals   *)
(* sealed in a round, one of them selected, and handed to an escrow of the *)
(* Trustless Work service (external, integrations/trustless-work).  The    *)
(* workspace survives a reload of the page; what was under way does not.   *)
(***************************************************************************)
EXTENDS PilotTab, Sequences

CONSTANTS
    NoEscrow,
    MaxEscrows      \* bound: escrows deployed

\* No escrow is none of those deployed, which are numbered.
ASSUME EscrowAssumption == NoEscrow \notin Nat /\ MaxEscrows \in Nat

VARIABLES
    work,           \* the page: [mode, hashId, offers, selected, tx, contract, sought]
    service         \* Trustless Work: [escrows, deposits, lost]

escrowVars == <<work, service>>

\* escrows[n] is the engagement of escrow n, a round id or NoRound for the
\* sample workspace; a deposit is the engagement it was meant for and the
\* escrow it went to; lost says that the page was never told of an escrow, or
\* was told to forget one.
EscrowInit ==
    /\ \E mode \in IF tab.hash = NoRound THEN {"sample", "live"} ELSE {"live"} :
         work = [mode |-> mode, hashId |-> tab.hash, offers |-> {}, selected |-> Nobody,
                 tx |-> FALSE, contract |-> NoEscrow, sought |-> FALSE]
    /\ service = [escrows |-> <<>>, deposits |-> {}, lost |-> FALSE]

---------------------------------------------------------------------------
(* Refreshes, retried while the RPC does not know the round.  One that was *)
(* superseded shows nothing, but if it throws its next attempt takes the   *)
(* token again.                                                            *)

\* The effect that selects the only proposal there is.
AutoSelect(w) ==
    IF w.mode = "live" /\ w.selected \notin w.offers /\ Cardinality(w.offers) = 1
    THEN [w EXCEPT !.selected = CHOOSE p \in w.offers : TRUE] ELSE w

\* The submission that waits for this refresh (requireLoadedOpenRound).
Awaiting(r) == {t \in tasks : r.by = "submit" /\ t.at = "loading" /\ t.id = r.id}

\* refreshLive, and what requireLoadedOpenRound makes of its answer.
EscrowShow(r) ==
    /\ Exists(r.id) /\ r.newest
    /\ work' = AutoSelect([work EXCEPT !.offers = rounds[r.id].revealed])
    /\ LET shown == [tab EXCEPT !.round = Snapshot(r.id), !.id = r.id]
           loading == Awaiting(r)
       IN  IF loading = {} THEN tab' = shown /\ UNCHANGED tasks
           ELSE \E t \in loading :
                IF rounds[r.id].status = "Open" /\ era[r.id] = "commit"
                THEN Becomes(t, [t EXCEPT !.at = "commit", !.arg = r.id]) /\ tab' = shown
                ELSE tasks' = tasks \ {t} /\ tab' = [shown EXCEPT !.busy = FALSE]
    /\ reads' = reads \ {r}
    /\ UNCHANGED <<page, service>>

\* Nothing came of it: superseded, or the last attempt.  A submission fails.
EscrowReadEnds(r) ==
    /\ reads' = reads \ {r}
    /\ LET loading == Awaiting(r)
       IN  /\ tasks' = tasks \ loading
           /\ tab' = [tab EXCEPT !.busy = @ /\ loading = {},
                                 !.round = IF r.newest /\ r.id = tab.id THEN NoData ELSE @]
    /\ work' = [work EXCEPT !.offers = IF r.newest /\ r.id = tab.id THEN {} ELSE @]
    /\ UNCHANGED <<page, service>>

EscrowReadRetries(r) ==
    /\ ~ r.newest
    /\ reads' = {[x EXCEPT !.newest = FALSE] : x \in reads \ {r}} \cup {[r EXCEPT !.newest = TRUE]}
    /\ UNCHANGED <<page, tab, tasks, escrowVars>>

\* The hashchange listener and the effect on the round id of the address: a
\* round that is not loaded is loaded, and all that was shown is cleared.
EscrowHashChange ==
    /\ tab.event
    /\ IF tab.hash \in {NoRound, work.hashId} \/ (Shows /\ tab.round.id = tab.hash /\ tab.id = tab.hash)
       THEN /\ tab' = [tab EXCEPT !.event = FALSE]
            /\ work' = [work EXCEPT !.hashId = tab.hash]
            /\ UNCHANGED reads
       ELSE /\ tab' = [tab EXCEPT !.event = FALSE, !.id = tab.hash, !.round = NoData]
            /\ work' = [work EXCEPT !.hashId = tab.hash, !.mode = "live",
                                    !.offers = {}, !.selected = Nobody]
            /\ StartReadBeside(tab.hash, "page")
    /\ UNCHANGED <<page, tasks, service>>

---------------------------------------------------------------------------
(* The round.                                                              *)

ActiveRoundReady == Shows /\ tab.id # NoRound /\ tab.round.id = tab.id
RevealActionReady ==
    /\ work.mode = "live" /\ ActiveRoundReady
    /\ tab.round.status # "Open" \/ Readable(tab.round.id)

EscrowRoundClicks ==
    /\ Connected
    /\ \/ Click("create", NoRound, NoRound)
       \/ /\ work.mode = "live" /\ ActiveRoundReady
          /\ tab.round.status = "Open" /\ era[tab.round.id] = "commit"
          /\ Click("submit", tab.id, NoRound)
       \/ RevealActionReady /\ Click("reveal", tab.id, NoRound)
    /\ UNCHANGED escrowVars

\* reloadActiveRound: the round of the address before that of the workspace.
EscrowReload ==
    LET target == IF work.hashId # NoRound THEN work.hashId ELSE tab.id
    IN  /\ work.mode = "live" /\ ~ ActiveRoundReady /\ target # NoRound
        /\ ~ tab.busy /\ Gesture([tab EXCEPT !.busy = TRUE])
        /\ tasks' = tasks \cup {[TaskOf("load", target, NoRound) EXCEPT !.at = "refreshing"]}
        /\ StartReadBeside(target, "load")
        /\ UNCHANGED <<page, escrowVars>>

\* The Live tab; its effect loads the round of the workspace.
SetMode(m) ==
    /\ m # work.mode /\ Gesture(tab)
    /\ work' = AutoSelect([work EXCEPT !.mode = m])
    /\ IF m = "live" /\ tab.id # NoRound /\ work.hashId = NoRound
       THEN StartReadBeside(tab.id, "page") ELSE UNCHANGED reads
    /\ UNCHANGED <<page, tasks, service>>

\* createLiveRound: the address event brings the first refresh.
EscrowCreates(t) ==
    /\ Calls(t, "create")
    /\ \E id \in PilotRound :
        /\ CreateRound(id, "ReceiptOnly", Nobody)
        /\ tab' = [HashSet(id) EXCEPT !.id = id, !.round = NoData, !.busy = FALSE]
    /\ work' = [work EXCEPT !.mode = "live", !.offers = {}, !.selected = Nobody]
    /\ tasks' = tasks \ {t}
    /\ UNCHANGED <<era, page, reads, service>>

\* submitLiveProposal reads the round again before it seals.
EscrowLoadsForSubmit(t) ==
    /\ Calls(t, "submit")
    /\ Goes(t, "loading") /\ StartReadBeside(t.id, "submit")
    /\ UNCHANGED <<chainVars, page, tab, escrowVars>>

\* Mutant of CommitTarget: the round of the workspace by then.
CommitTarget_Current(t) == tab.id

\* The round that was current when the button was pressed.
CommitTarget(t) == t.id

EscrowCommits(t) ==
    /\ t.verb = "submit" /\ t.at = "commit"
    /\ CommitTo(CommitTarget(t), t.by, t.arg)
    /\ Goes(t, "refreshing") /\ StartReadBeside(t.id, "submit")
    /\ UNCHANGED <<era, page, tab, escrowVars>>

\* sendCommitWithRoundRetry: the RPC does not know the round yet.
EscrowCommitPending(t) ==
    /\ t.verb = "submit" /\ t.at = "commit"
    /\ tab' = [tab EXCEPT !.round = NoData]
    /\ StartReadBeside(t.id, "page")
    /\ UNCHANGED <<chainVars, page, tasks, escrowVars>>

\* The refresh after the pass is not awaited.
EscrowRevealEnds(t) ==
    /\ PassThrough(t)
    /\ Finish(t) /\ StartReadBeside(t.id, "page")
    /\ UNCHANGED <<chainVars, page, escrowVars>>

---------------------------------------------------------------------------
(* The escrow.                                                             *)

Engagement == tab.id
HasProposal == work.mode = "sample" \/ work.selected \in work.offers

SelectProposal(w) ==
    /\ w \in work.offers \ {work.selected} /\ Gesture(tab)
    /\ work' = [work EXCEPT !.selected = w]
    /\ UNCHANGED <<page, reads, tasks, service>>

\* Mutant of escrowSubmissionStarted: only a contract id counts.
escrowSubmissionStarted_ById == work.contract # NoEscrow

escrowSubmissionStarted == work.tx \/ work.contract # NoEscrow

EscrowClicks ==
    /\ \/ /\ Connected /\ HasProposal /\ ~ escrowSubmissionStarted
          /\ Click("deploy", Engagement, NoRound)
       \/ /\ Connected /\ HasProposal /\ work.contract # NoEscrow
          /\ Click("fund", Engagement, NoRound)
       \/ /\ Connected /\ escrowSubmissionStarted
          /\ Click("sync", Engagement, NoRound)
    /\ UNCHANGED escrowVars

\* The signed deployment reaches the ledger.
EscrowDeploys(t) ==
    /\ Calls(t, "deploy") /\ Len(service.escrows) < MaxEscrows
    /\ service' = [service EXCEPT !.escrows = Append(@, t.id)]
    /\ Becomes(t, [t EXCEPT !.at = "deployed", !.left = {Len(service.escrows) + 1}])
    /\ UNCHANGED <<chainVars, page, tab, reads, work>>

\* createTrustlessWorkEscrow gets its answer, which may name the transaction,
\* the contract, both or neither; without a contract it starts looking for it.
EscrowAnswered(t, tx, named) ==
    /\ t.verb = "deploy" /\ t.at = "deployed"
    /\ work' = [work EXCEPT !.tx = tx, !.sought = TRUE,
                            !.contract = IF named THEN CHOOSE e \in t.left : TRUE ELSE NoEscrow]
    /\ service' = [service EXCEPT !.lost = @ \/ ~ (tx \/ named)]
    /\ tasks' = (tasks \ {t}) \cup (IF named THEN {} ELSE {TaskOf("sync", t.id, NoRound)})
    /\ tab' = [tab EXCEPT !.busy = FALSE]
    /\ UNCHANGED <<chainVars, page, reads>>

\* The recovery effect, once per wallet and transaction.
RecoverEscrow ==
    /\ Connected /\ work.tx /\ work.contract = NoEscrow /\ ~ work.sought
    /\ work' = [work EXCEPT !.sought = TRUE]
    /\ tab' = [tab EXCEPT !.busy = TRUE]
    /\ tasks' = tasks \cup {TaskOf("sync", Engagement, NoRound)}
    /\ UNCHANGED <<page, reads, service>>

\* The escrow of this id, of this engagement, or the only one of the signer
\* that the indexer knows so far: it may be any.
Candidates == IF work.contract # NoEscrow THEN {work.contract} ELSE DOMAIN service.escrows

\* syncTrustlessWorkEscrow.
EscrowFound(t, e) ==
    /\ Calls(t, "sync") /\ e \in Candidates
    /\ work' = [work EXCEPT !.contract = e]
    /\ Finish(t)
    /\ UNCHANGED <<chainVars, page, reads, service>>

\* fundTrustlessWorkEscrow: the receipt's escrow, whichever round it is of.
EscrowFunded(t, e) ==
    /\ Calls(t, "fund") /\ e \in Candidates
    /\ service' = [service EXCEPT !.deposits = @ \cup {[engagement |-> t.id, escrow |-> e]}]
    /\ work' = [work EXCEPT !.contract = IF @ = NoEscrow THEN e ELSE @]
    /\ Finish(t)
    /\ UNCHANGED <<chainVars, page, reads>>

\* A deployment whose answer never comes, or that the reload cuts off.
EscrowTaskFails(t) ==
    /\ TaskFails(t)
    /\ service' = [service EXCEPT !.lost = @ \/ t.at = "deployed"]
    /\ UNCHANGED work

\* "Clear escrow evidence" and "Reset workspace".
ClearEvidence ==
    /\ escrowSubmissionStarted /\ ~ tab.busy /\ Gesture(tab)
    /\ work' = [work EXCEPT !.tx = FALSE, !.contract = NoEscrow, !.sought = FALSE]
    /\ service' = [service EXCEPT !.lost = TRUE]
    /\ UNCHANGED <<page, reads, tasks>>

ResetWorkspace ==
    /\ ~ tab.busy
    /\ Gesture([HashSet(NoRound) EXCEPT !.id = NoRound, !.round = NoData])
    /\ work' = [work EXCEPT !.mode = "sample", !.offers = {}, !.selected = Nobody,
                            !.tx = FALSE, !.contract = NoEscrow, !.sought = FALSE]
    /\ service' = [service EXCEPT !.lost = @ \/ escrowSubmissionStarted]
    /\ UNCHANGED <<page, reads, tasks>>

\* The page is loaded anew: the saved workspace, and the round of the address.
EscrowPageReload ==
    LET id == IF tab.hash # NoRound THEN tab.hash ELSE tab.id
        live == tab.hash # NoRound \/ work.mode = "live"
    IN  /\ Gesture([tab EXCEPT !.address = Nobody, !.event = FALSE, !.id = id,
                               !.round = NoData, !.busy = FALSE])
        /\ work' = [work EXCEPT !.mode = IF live THEN "live" ELSE @, !.hashId = tab.hash,
                       !.offers = {}, !.sought = FALSE,
                       !.selected = IF tab.hash # NoRound THEN Nobody ELSE @]
        /\ IF live /\ id # NoRound THEN StartRead(id, "page") ELSE reads' = {}
        /\ tasks' = {}
        /\ service' = [service EXCEPT !.lost = @ \/ \E t \in tasks : t.at = "deployed"]
        /\ UNCHANGED page

EscrowNext ==
    \/ /\ \/ \E r \in reads : EscrowShow(r) \/ EscrowReadEnds(r) \/ EscrowReadRetries(r)
          \/ EscrowHashChange \/ EscrowRoundClicks \/ EscrowReload \/ EscrowClicks
          \/ \E m \in {"sample", "live"} : SetMode(m)
          \/ \E w \in Wallet : SelectProposal(w)
          \/ RecoverEscrow \/ ClearEvidence \/ ResetWorkspace \/ EscrowPageReload
          \/ \E t \in tasks : EscrowTaskFails(t)
          \/ /\ \/ \E id \in PilotRound : GoTo(id)
                \/ \E w \in PageWallet : Connect(w)
                \/ \E t \in tasks : TaskReturns(t)
             /\ UNCHANGED escrowVars
       /\ UNCHANGED chainVars
    \/ \E t \in tasks :
        \/ PassNext(t) /\ UNCHANGED escrowVars
        \/ EscrowCreates(t) \/ EscrowLoadsForSubmit(t) \/ EscrowCommits(t)
        \/ EscrowCommitPending(t) \/ EscrowRevealEnds(t)
        \/ EscrowDeploys(t)
        \/ \E tx, named \in BOOLEAN : EscrowAnswered(t, tx, named)
        \/ \E e \in 1 .. MaxEscrows : EscrowFound(t, e) \/ EscrowFunded(t, e)

---------------------------------------------------------------------------
\* Two escrows for the same engagement are deployed only if the page was
\* never told of the first one or was told to forget it: not by a second
\* press of the button, a reload of the page, an indexer that lags, or a
\* detour to another round.
NoSecondEscrow ==
    service.lost \/ \A m, n \in DOMAIN service.escrows :
                        service.escrows[m] = service.escrows[n] => m = n
=============================================================================
