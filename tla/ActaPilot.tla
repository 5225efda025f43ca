----------------------------- MODULE ActaPilot -----------------------------
(***************************************************************************)
(* The ACTA pilot, pages/ActaPilotPage.tsx with integrations/acta: only a  *)
(* wallet whose credential ACTA (external) found eligible submits, and the *)
(* organizer has ACTA issue a credential to the provider selected, whose   *)
(* credential has been looked up, eligible or not.  Both roles may be      *)
(* wallets of the same browser.  The demo is left out.                     *)
(***************************************************************************)
EXTENDS PilotTab

CONSTANT Holder     \* wallets whose vault has the credential of the policy (external)

VARIABLE acta       \* [mode, organizer, owner, eligibility, selected, issued]

\* The reference kept of a verification.  subject is the wallet whose vault
\* held the credential that credentialSubject.id was read from.  A reference
\* without a subject is not eligible, so CanSubmit and CanIssue are false of it
\* whatever state and owner it has: it counts as no reference.
NotChecked == [state |-> "none", owner |-> Nobody, subject |-> Nobody]

\* evaluateActaEligibility: a credential that is not eligible is of the wrong
\* type or issuer, and then its owner and subject are kept, or it is not valid,
\* and then its subject is not read.
ActaAnswers(w) ==
    [state : {"eligible"}, owner : {w} \cap Holder, subject : {w}]
    \cup [state : {"not_eligible"}, owner : {w}, subject : {w}]
    \cup {NotChecked}

\* owner is credentialOwner, which an effect fills with the wallet connected;
\* issued has the outcome credentials in ACTA's vaults (external), whose ids
\* are made of the round and the subject.
ActaEmpty(mode, issued) ==
    [mode |-> mode, organizer |-> Nobody, owner |-> tab.address, eligibility |-> NotChecked,
     selected |-> Nobody, issued |-> issued]

ActaInit == acta = ActaEmpty(IF tab.hash = NoRound THEN "demo" ELSE "live", {})

---------------------------------------------------------------------------
(* Refreshes have no token: each one shows what it read, and names it.     *)

StartReadFreely(id, by) == reads' = reads \cup {[id |-> id, by |-> by, newest |-> TRUE]}

\* refreshLive.  One of loadRound makes the workspace live.
ActaShow(r) ==
    /\ Exists(r.id)
    /\ tab' = [IF r.by = "load" THEN HashSet(r.id) ELSE tab
                   EXCEPT !.round = Snapshot(r.id), !.id = r.id, !.event = FALSE]
    /\ acta' = [acta EXCEPT !.organizer = rounds[r.id].operator,
                            !.mode = IF r.by = "load" THEN "live" ELSE @]
    /\ reads' = reads \ {r}
    /\ UNCHANGED <<page, tasks>>

\* The workspace is refreshed when it names another round, and by a timer.
ActaPolls ==
    /\ acta.mode = "live" /\ tab.id # NoRound
    /\ [id |-> tab.id, by |-> "page", newest |-> TRUE] \notin reads
    /\ StartReadFreely(tab.id, "page")
    /\ UNCHANGED <<page, tab, tasks, acta>>

ActaSwitchMode(m) ==
    /\ Gesture([HashSet(NoRound) EXCEPT !.event = FALSE, !.id = NoRound, !.round = NoData])
    /\ acta' = ActaEmpty(m, acta.issued)
    /\ UNCHANGED <<page, reads, tasks>>

\* loadRound, with the id in the input.
ActaLoad(id) ==
    /\ acta.mode = "live" /\ ~ tab.busy /\ Gesture([tab EXCEPT !.busy = TRUE])
    /\ tasks' = tasks \cup {[TaskOf("load", id, NoRound) EXCEPT !.at = "refreshing"]}
    /\ StartReadFreely(id, "load")
    /\ UNCHANGED <<page, acta>>

\* connect, and the effect: an owner that is named stays.
ActaConnects(w) ==
    /\ Connect(w)
    /\ acta' = [acta EXCEPT !.owner = IF @ = Nobody THEN w ELSE @]

\* The owner, the credential id or the policy is typed: what was verified is
\* forgotten, but not a verification under way.
ActaTypes(w) ==
    /\ acta.mode = "live" /\ (w # acta.owner \/ acta.eligibility # NotChecked)
    /\ Gesture(tab)
    /\ acta' = [acta EXCEPT !.owner = w, !.eligibility = NotChecked]
    /\ UNCHANGED <<page, reads, tasks>>

---------------------------------------------------------------------------
\* Mutant of CanSubmit: whatever the verification said.
CanSubmit_AnyState == Connected /\ acta.eligibility.owner = tab.address

\* canSubmitActaProposal.
CanSubmit ==
    /\ Connected
    /\ acta.eligibility.state = "eligible" /\ acta.eligibility.owner = tab.address

ActaRevealReady ==
    /\ Shows
    /\ \/ tab.round.status = "Open" /\ Readable(tab.round.id)
       \/ tab.round.status = "Revealing" /\ ~ (tab.round.listed # {} /\ tab.round.listed = tab.round.revealed)

\* A provider is selected among those that were shown as revealed.
SelectedProposal == Shows /\ acta.selected \in tab.round.revealed

\* Mutant of CanIssue: the subject of whoever was verified last.
CanIssue_AnyOwner == acta.eligibility.subject # Nobody

\* issueOutcome asks for a subject that was read for the wallet selected; it
\* does not ask whether that wallet was found eligible.
CanIssue == acta.eligibility.subject # Nobody /\ acta.eligibility.owner = acta.selected

\* The credential is made for the wallet selected, with the subject shown.
ActaClicksIssue ==
    /\ Connected /\ acta.mode = "live" /\ ~ tab.busy
    /\ acta.organizer = tab.address /\ tab.id # NoRound /\ SelectedProposal /\ CanIssue
    /\ Gesture([tab EXCEPT !.busy = TRUE])
    /\ tasks' = tasks \cup {[TaskOf("issue", tab.id, acta.selected)
                                 EXCEPT !.left = {acta.eligibility.subject}]}
    /\ UNCHANGED <<page, reads, acta>>

ActaClicks ==
    /\ Connected /\ acta.mode = "live"
    /\ \/ Click("create", NoRound, NoRound)
       \/ acta.owner = tab.address /\ Click("verify", NoRound, NoRound)
       \/ CanSubmit /\ Shows /\ tab.id # NoRound /\ tab.round.status = "Open"
          /\ Click("submit", tab.id, tab.round.id)
       \/ ActaRevealReady /\ tab.id # NoRound /\ Click("reveal", tab.id, NoRound)
    /\ UNCHANGED acta

ActaSelect(w) ==
    /\ acta.mode = "live" /\ Shows /\ w \in tab.round.revealed /\ w # acta.selected
    /\ Gesture(tab)
    /\ acta' = [acta EXCEPT !.selected = w]
    /\ UNCHANGED <<page, reads, tasks>>

---------------------------------------------------------------------------
\* verifyEligibility: the answer is of the owner it was asked for, the wallet
\* that was connected then.  If it throws, what is kept has no subject either.
ActaVerified(t) ==
    /\ Calls(t, "verify")
    /\ \E found \in ActaAnswers(t.by) : acta' = [acta EXCEPT !.eligibility = found]
    /\ Finish(t)
    /\ UNCHANGED <<chainVars, page, reads>>

\* createRound: the round and the proposals shown stay until a refresh, which
\* is not awaited.
ActaCreates(t) ==
    /\ Calls(t, "create")
    /\ \E id \in PilotRound :
        /\ CreateRound(id, "ReceiptOnly", t.by)
        /\ tab' = [HashSet(id) EXCEPT !.event = FALSE, !.id = id, !.busy = FALSE]
        /\ StartReadFreely(id, "page")
    /\ acta' = [acta EXCEPT !.mode = "live", !.organizer = t.by, !.selected = Nobody]
    /\ tasks' = tasks \ {t}
    /\ UNCHANGED <<era, page>>

ActaCommits(t) ==
    /\ Calls(t, "submit") /\ CommitTo(t.id, t.by, t.arg)
    /\ Goes(t, "refreshing") /\ StartReadFreely(t.id, "submit")
    /\ UNCHANGED <<era, page, tab, acta>>

ActaPassShown(t) ==
    /\ PassThrough(t)
    /\ Goes(t, "shown") /\ StartReadFreely(t.id, "reveal")
    /\ UNCHANGED <<chainVars, page, tab, acta>>

\* The page clears the round if its reveal deadline is over.
ActaClears(t) ==
    /\ t.at = "shown" /\ ~ \E r \in reads : r.by = "reveal"
    /\ \/ ClearRound(t.id)
       \/ ~ (rounds[t.id].status = "Revealing" /\ era[t.id] = "late") /\ UNCHANGED rounds
    /\ Goes(t, "refreshing") /\ StartReadFreely(t.id, "reveal")
    /\ UNCHANGED <<era, page, tab, acta>>

ActaRevealFails(t) ==
    /\ t.verb = "reveal" /\ t.at # "refreshing"
    /\ Goes(t, "refreshing") /\ StartReadFreely(t.id, "reveal")
    /\ UNCHANGED <<chainVars, page, tab, acta>>

\* issueOnce: the credential exists already in the wallet's vault, or ACTA
\* issues it; what the page then shows of it is left out.
ActaIssues(t) ==
    /\ Calls(t, "issue")
    /\ \E subject \in t.left :
        acta' = [acta EXCEPT !.issued =
                     @ \cup {[round |-> t.id, wallet |-> t.arg, subject |-> subject]}]
    /\ Finish(t)
    /\ UNCHANGED <<chainVars, page, reads>>

\* The page is loaded anew: the saved workspace, and the round of the address.
ActaPageReload ==
    /\ Gesture([tab EXCEPT !.address = Nobody, !.round = NoData, !.busy = FALSE,
                           !.id = IF tab.hash # NoRound THEN tab.hash ELSE @])
    /\ acta' = [acta EXCEPT !.mode = IF tab.hash # NoRound THEN "live" ELSE @]
    /\ reads' = {} /\ tasks' = {}
    /\ UNCHANGED page

ActaNext ==
    \/ /\ \/ \E r \in reads : ActaShow(r)
          \/ ActaPolls \/ ActaClicks \/ ActaClicksIssue \/ ActaPageReload
          \/ \E m \in {"demo", "live"} : ActaSwitchMode(m)
          \/ \E id \in PilotRound : ActaLoad(id)
          \/ \E w \in Wallet : ActaSelect(w) \/ ActaConnects(w) \/ ActaTypes(w)
          \/ /\ \/ \E r \in reads : ReadFails(r)
                \/ \E t \in tasks :
                    TaskReturns(t) \/ (t.verb \notin {"reveal", "verify"} /\ TaskFails(t))
             /\ UNCHANGED acta
       /\ UNCHANGED chainVars
    \/ \E t \in tasks :
        \/ PassNext(t) /\ UNCHANGED acta
        \/ ActaVerified(t) \/ ActaCreates(t) \/ ActaCommits(t) \/ ActaPassShown(t)
        \/ ActaClears(t) \/ ActaRevealFails(t) \/ ActaIssues(t)

---------------------------------------------------------------------------
\* docs/pilots/ACTA_PILOT.md, "enables the Sub Rosa commit action only for the
\* connected credential owner": a submission that went through from this page
\* is of a wallet that ACTA found eligible, whatever wallets are connected,
\* named and verified in between.  And an outcome credential, which asks for "a
\* valid revealed submission from the subject wallet" and "a retained ACTA
\* credentialSubject.id", is of a wallet that revealed a proposal, and the
\* subject it names was read from the vault of that same wallet: nobody is
\* given the outcome of another.  That the wallet is eligible is not asked.
CredentialsMatchWallets ==
    /\ page = "acta" =>
        \A t \in tasks : t.verb = "submit" /\ t.at = "refreshing" => t.by \in Holder
    /\ \A c \in acta.issued :
        /\ c.subject = c.wallet
        /\ \E id \in PilotRound : c.wallet \in rounds[id].revealed
=============================================================================
