------------------------------ MODULE PilotTab ------------------------------
(***************************************************************************)
(* A browser tab with one of the pilot pages: the state every page keeps,  *)
(* its asynchronous handlers and refreshes, and the reveal pass they have  *)
(* in common.  A handler (a task) works on the values its page had when    *)
(* the button was pressed; the address bar, refreshes and everybody else   *)
(* go on in between.                                                       *)
(***************************************************************************)
EXTENDS PilotRounds, TLC

CONSTANTS
    Pages,          \* the pages explored, one at a time
    NoData,         \* no round is shown
    MaxGestures     \* bound: buttons pressed, links followed, ids typed

VARIABLES
    page,
    tab,            \* [address, hash, event, id, round, busy, gestures]
    reads,          \* refreshes under way: [id, by, newest]
    tasks           \* handlers under way: [verb, at, by, id, arg, left]

tabVars == <<page, tab, reads, tasks>>

\* What a refresh shows of a round.
Snapshot(id) == [id |-> id, status |-> rounds[id].status,
                 listed |-> Sealed(id), revealed |-> rounds[id].revealed]

Shows == tab.round # NoData
Connected == tab.address # Nobody

\* The page is opened, by a link to a round or without one.
TabInit ==
    /\ page \in Pages
    /\ \E id \in {NoRound, 1} :
        /\ tab = [address |-> Nobody, hash |-> id, event |-> FALSE, id |-> id,
                  round |-> NoData, busy |-> FALSE, gestures |-> 0]
        /\ reads = IF id = NoRound THEN {} ELSE {[id |-> id, by |-> "page", newest |-> TRUE]}
    /\ tasks = {}

---------------------------------------------------------------------------
(* Refreshes.  A newer one takes the token of the older ones, which show   *)
(* nothing then; they are forgotten where nothing else follows from them.  *)

Superseded == {[r EXCEPT !.newest = FALSE] : r \in reads}
StartRead(id, by) == reads' = {[id |-> id, by |-> by, newest |-> TRUE]}
StartReadBeside(id, by) == reads' = Superseded \cup {[id |-> id, by |-> by, newest |-> TRUE]}
StartReadUnlessNone(id, by) == IF id = NoRound THEN reads' = {} ELSE StartRead(id, by)

\* A refresh throws: the RPC answers with an error or not at all.
ReadFails(r) ==
    /\ reads' = reads \ {r}
    /\ UNCHANGED <<page, tab, tasks>>

---------------------------------------------------------------------------
(* The user.                                                               *)

Gesture(next) ==
    /\ tab.gestures < MaxGestures
    /\ tab' = [next EXCEPT !.gestures = @ + 1]

Connect(w) ==
    /\ ~ tab.busy /\ tab.address # w
    /\ tab' = [tab EXCEPT !.address = w]
    /\ UNCHANGED <<page, reads, tasks>>

\* A link, the back button or the address bar.
GoTo(id) ==
    /\ id # tab.hash /\ id \in PilotRound => Exists(id)
    /\ Gesture([tab EXCEPT !.hash = id, !.event = TRUE])
    /\ UNCHANGED <<page, reads, tasks>>

\* window.location.hash = ...: an event follows if it changed.
HashSet(id) == [tab EXCEPT !.hash = id, !.event = @ \/ id # tab.hash]

---------------------------------------------------------------------------
(* Tasks.                                                                  *)

\* A task of the connected wallet on round id; arg is the round whose beacon
\* a submission is sealed for, or whatever else it took from the page.
TaskOf(verb, id, arg) ==
    [verb |-> verb, at |-> "call", by |-> tab.address, id |-> id, arg |-> arg, left |-> {}]

\* A button that is disabled while the page is busy.
Click(verb, id, arg) ==
    /\ ~ tab.busy
    /\ Gesture([tab EXCEPT !.busy = TRUE])
    /\ tasks' = tasks \cup {TaskOf(verb, id, arg)}
    /\ UNCHANGED <<page, reads>>

Becomes(t, u) == tasks' = (tasks \ {t}) \cup {u}
Goes(t, at) == Becomes(t, [t EXCEPT !.at = at])
Calls(t, verb) == t.verb = verb /\ t.at = "call"

\* The finally block: whatever else runs, the page is no longer busy.
Finish(t) ==
    /\ tasks' = tasks \ {t}
    /\ tab' = [tab EXCEPT !.busy = FALSE]

\* Any await may throw: a read, a call, a signature or its answer is lost.
TaskFails(t) ==
    /\ t.at \notin {"loading", "refreshing"}
    /\ Finish(t)
    /\ UNCHANGED <<page, reads>>

\* The task awaits a refresh of its own; whether that one showed anything,
\* failed or was superseded, the handler ends with it.
AwaitRefresh(t, id) == Goes(t, "refreshing") /\ StartReadUnlessNone(id, t.verb)
TaskReturns(t) ==
    /\ t.at = "refreshing" /\ ~ \E r \in reads : r.by = t.verb
    /\ Finish(t)
    /\ UNCHANGED <<page, reads>>

---------------------------------------------------------------------------
(* The reveal pass.  Open the round if need be, list the bidders, and for  *)
(* each one read its submission, open its payload and reveal it.           *)

RevealAlreadyOpen(id) == rounds[id].status # "Open"

\* What another party did first is no failure: RevealAlreadyOpen is caught.
PassOpen(t) ==
    /\ Calls(t, "reveal") /\ Exists(t.id) /\ Readable(t.id)
    /\ OpenReveal(t.id) \/ (RevealAlreadyOpen(t.id) /\ UNCHANGED rounds)
    /\ Goes(t, "list")
    /\ UNCHANGED <<era, page, tab, reads>>

PassList(t) ==
    /\ t.verb = "reveal" /\ t.at = "list"
    /\ Becomes(t, [t EXCEPT !.at = "each", !.left = Sealed(t.id)])
    /\ UNCHANGED <<chainVars, page, tab, reads>>

\* Mutant of PassedOver: any error of a reveal is caught.
PassedOver_AnyError(id, w) == w \in rounds[id].revealed \/ rounds[id].status # "Revealing"

\* Already revealed when read, or by the time of the call (AlreadyRevealed).
PassedOver(id, w) == w \in rounds[id].revealed

PassEach(t) ==
    /\ t.verb = "reveal" /\ t.at = "each"
    /\ \E w \in t.left :
        /\ \/ PassedOver(t.id, w) /\ UNCHANGED rounds
           \/ Readable(rounds[t.id].seal[w]) /\ RevealOf(t.id, w)
        /\ Becomes(t, [t EXCEPT !.left = @ \ {w}])
    /\ UNCHANGED <<era, page, tab, reads>>

\* The loop is through: the page reports success and does what it does then.
PassThrough(t) == t.verb = "reveal" /\ t.at = "each" /\ t.left = {}

PassNext(t) == PassOpen(t) \/ PassList(t) \/ PassEach(t)

\* A reveal pass that gets through leaves no sealed submission behind,
\* whoever opens, reveals or clears in between: every pilot page then says
\* that the submissions are revealed, and ranks or selects among them.
RevealPassComplete ==
    \A t \in tasks : PassThrough(t) => Sealed(t.id) \subseteq rounds[t.id].revealed
=============================================================================
