--------------------------- MODULE Pilots_proofs ---------------------------
(***************************************************************************)
(* What the pilot pages keep, for any rounds, wallets, pages and number of *)
(* gestures.  First what every page does alike: the contract's rounds only *)
(* go on, a tab keeps its page, and a reveal pass starts nowhere but in    *)
(* the handler of its button.  Then the four invariants of the pages.      *)
(***************************************************************************)
EXTENDS Pilots, TLAPS

---------------------------------------------------------------------------
(* The rounds.                                                             *)

RoundFields == {"status", "mode", "operator", "seal", "revealed"}

ChainShape ==
    /\ DOMAIN rounds = PilotRound
    /\ \A id \in PilotRound :
        /\ DOMAIN rounds[id] = RoundFields
        /\ DOMAIN rounds[id].seal = Wallet
        /\ rounds[id].revealed \subseteq Wallet
        /\ rounds[id].status \in {"None", "Open"} => rounds[id].revealed = {}

Begun(id) == rounds[id].status \notin {"None", "Open"}

\* A round that has begun to be revealed stays begun, with the seals it has.
GoesOn(id) ==
    Begun(id) => /\ Begun(id)'
                 /\ rounds'[id].seal = rounds[id].seal
                 /\ rounds[id].revealed \subseteq rounds'[id].revealed

ChainGoesOn == ChainShape' /\ \A id \in PilotRound : GoesOn(id)

\* Nothing happens to the rounds.
LEMMA IdleGoesOn ==
    ASSUME ChainShape, UNCHANGED rounds
    PROVE  ChainGoesOn
BY DEF ChainShape, ChainGoesOn, GoesOn, Begun, RoundFields

\* create_round: only an id that is not used yet.
LEMMA CreateGoesOn ==
    ASSUME ChainShape, NEW id, NEW mode, NEW w, CreateRound(id, mode, w)
    PROVE  ChainGoesOn
BY DEF ChainShape, ChainGoesOn, GoesOn, Begun, RoundFields, CreateRound, Fresh, Exists, Unused

\* submit_seal: only while the round is open.
LEMMA CommitGoesOn ==
    ASSUME ChainShape, NEW id, NEW w, NEW seal, CommitTo(id, w, seal)
    PROVE  ChainGoesOn
BY DEF ChainShape, ChainGoesOn, GoesOn, Begun, RoundFields, CommitTo, Exists

\* open_reveal.
LEMMA OpenGoesOn ==
    ASSUME ChainShape, NEW id, OpenReveal(id)
    PROVE  ChainGoesOn
BY DEF ChainShape, ChainGoesOn, GoesOn, Begun, RoundFields, OpenReveal, Exists

\* reveal: one more of the sealed.
LEMMA RevealGoesOn ==
    ASSUME ChainShape, NEW id \in PilotRound, NEW w, RevealOf(id, w)
    PROVE  ChainGoesOn
BY DEF ChainShape, ChainGoesOn, GoesOn, Begun, RoundFields, RevealOf, Sealed

\* clear, settle and void: only the status changes.
LEMMA EndGoesOn ==
    ASSUME ChainShape, NEW id, ClearRound(id) \/ SettleRound(id) \/ VoidRound(id)
    PROVE  ChainGoesOn
BY DEF ChainShape, ChainGoesOn, GoesOn, Begun, RoundFields, ClearRound, SettleRound, VoidRound, Exists

\* Other parties and time.
LEMMA OthersGoOn ==
    ASSUME ChainShape, ChainNext
    PROVE  ChainGoesOn
<1> PICK id \in PilotRound : TimePasses(id) \/ OthersAct(id)  BY DEF ChainNext
<1>1. CASE TimePasses(id)  BY <1>1, IdleGoesOn DEF TimePasses
<1>2. CASE OthersAct(id)
    BY <1>2, CreateGoesOn, CommitGoesOn, OpenGoesOn, RevealGoesOn, EndGoesOn DEF OthersAct
<1> QED  BY <1>1, <1>2

---------------------------------------------------------------------------
(* Tabs and handlers.                                                      *)

TaskFields == {"verb", "at", "by", "id", "arg", "left"}
TabFields == {"address", "hash", "event", "id", "round", "busy", "gestures"}
TabShape == DOMAIN tab = TabFields /\ \A t \in tasks : DOMAIN t = TaskFields

\* The handler is in its reveal pass.
Passing(t) == t.verb = "reveal" /\ t.at \in {"list", "each"}
Calm(t) == DOMAIN t = TaskFields /\ ~ Passing(t)

\* The page stays, and no handler is in a pass that was not there before.
Steady ==
    /\ page' = page
    /\ DOMAIN tab' = DOMAIN tab
    /\ \A t \in tasks' : t \in tasks \/ Calm(t)

PassStep == \E t \in tasks : PassNext(t)
Keeps == Steady \/ PassStep

\* A button starts a call.
LEMMA ClickSteady ==
    ASSUME NEW verb, NEW id, NEW arg, Click(verb, id, arg)
    PROVE  Steady
BY DEF Click, Gesture, TaskOf, Steady, Calm, Passing, TaskFields

\* A handler goes on with something else than the pass.
LEMMA GoesSteady ==
    ASSUME TabShape, NEW t \in tasks, NEW at, at \notin {"list", "each"}, Goes(t, at),
           UNCHANGED page, DOMAIN tab' = DOMAIN tab
    PROVE  Steady
BY DEF TabShape, Goes, Becomes, Steady, Calm, Passing, TaskFields

\* No handler is new.
LEMMA FewerSteady ==
    ASSUME tasks' \subseteq tasks, UNCHANGED page, DOMAIN tab' = DOMAIN tab
    PROVE  Steady
BY DEF Steady

\* What the tab of every page does.
LEMMA TabSteady ==
    ASSUME NEW x
    PROVE  /\ Connect(x) => Steady
           /\ GoTo(x) => Steady
           /\ ReadFails(x) => Steady
           /\ TaskFails(x) => Steady
           /\ TaskReturns(x) => Steady
BY DEF Connect, GoTo, Gesture, ReadFails, TaskFails, TaskReturns, Finish, Steady

\* The pilot workspace.
LEMMA BasicKeeps ==
    ASSUME TabShape, BasicNext
    PROVE  Keeps
<1>1. ASSUME NEW r \in reads, BasicShow(r)  PROVE Steady
    BY <1>1 DEF BasicShow, HashSet, Steady
<1>2. ASSUME BasicHashChange  PROVE Steady  BY <1>2 DEF BasicHashChange, Steady
<1>3. ASSUME BasicRefresh  PROVE Steady  BY <1>3 DEF BasicRefresh, Gesture, Steady
<1>4. ASSUME BasicLoad  PROVE Steady
    BY <1>4 DEF BasicLoad, Gesture, TaskOf, Steady, Calm, Passing, TaskFields
<1>5. ASSUME NEW id \in PilotRound, BasicTypeId(id)  PROVE Steady
    BY <1>5 DEF BasicTypeId, Gesture, Steady
<1>6. ASSUME BasicClicks  PROVE Steady  BY <1>6, ClickSteady DEF BasicClicks
<1>7. ASSUME NEW t \in tasks, BasicCreates(t)  PROVE Steady
    BY <1>7, GoesSteady DEF BasicCreates, AwaitRefresh, HashSet
<1>8. ASSUME NEW t \in tasks, BasicCalls(t)  PROVE Steady
    BY <1>8, GoesSteady DEF BasicCalls, AwaitRefresh
<1>9. ASSUME NEW t \in tasks, BasicRevealEnds(t)  PROVE Steady
    BY <1>9, GoesSteady DEF BasicRevealEnds, AwaitRefresh
<1> QED
    BY <1>1, <1>2, <1>3, <1>4, <1>5, <1>6, <1>7, <1>8, <1>9, TabSteady
    DEF BasicNext, Keeps, PassStep

\* The Trustless Work page.
LEMMA EscrowKeeps ==
    ASSUME TabShape, EscrowNext
    PROVE  Keeps
<1>1. ASSUME NEW r \in reads, EscrowShow(r)  PROVE Steady
  <2>1. DOMAIN tab' = DOMAIN tab /\ page' = page  BY <1>1 DEF EscrowShow, Becomes
  <2>2. ASSUME NEW u \in tasks' \ tasks  PROVE Calm(u)
    <3>1. PICK t \in tasks : u = [t EXCEPT !.at = "commit", !.arg = r.id]
        BY <1>1, <2>2 DEF EscrowShow, Awaiting, Becomes
    <3> QED  BY <3>1 DEF TabShape, Calm, Passing, TaskFields
  <2> QED  BY <2>1, <2>2 DEF Steady
<1>2. ASSUME NEW r \in reads, EscrowReadEnds(r) \/ EscrowReadRetries(r)  PROVE Steady
    BY <1>2 DEF EscrowReadEnds, EscrowReadRetries, Steady
<1>3. ASSUME EscrowHashChange  PROVE Steady  BY <1>3 DEF EscrowHashChange, Steady
<1>4. ASSUME EscrowRoundClicks \/ EscrowClicks  PROVE Steady
    BY <1>4, ClickSteady DEF EscrowRoundClicks, EscrowClicks
<1>5. ASSUME EscrowReload  PROVE Steady
    BY <1>5 DEF EscrowReload, Gesture, TaskOf, Steady, Calm, Passing, TaskFields
<1>6. ASSUME NEW m, SetMode(m)  PROVE Steady  BY <1>6 DEF SetMode, Gesture, Steady
<1>7. ASSUME NEW w, SelectProposal(w)  PROVE Steady  BY <1>7 DEF SelectProposal, Gesture, Steady
<1>8. ASSUME RecoverEscrow  PROVE Steady
    BY <1>8 DEF RecoverEscrow, TaskOf, Steady, Calm, Passing, TaskFields
<1>9. ASSUME ClearEvidence \/ ResetWorkspace  PROVE Steady
    BY <1>9 DEF ClearEvidence, ResetWorkspace, Gesture, HashSet, Steady
<1>10. ASSUME EscrowPageReload  PROVE Steady  BY <1>10 DEF EscrowPageReload, Gesture, Steady
<1>11. ASSUME NEW t \in tasks, EscrowTaskFails(t) \/ EscrowRevealEnds(t) \/ EscrowCreates(t)
       PROVE Steady
    BY <1>11, TabSteady, FewerSteady
    DEF EscrowTaskFails, EscrowRevealEnds, EscrowCreates, Finish, HashSet
<1>12. ASSUME NEW t \in tasks, EscrowLoadsForSubmit(t) \/ EscrowCommits(t)  PROVE Steady
    BY <1>12, GoesSteady DEF EscrowLoadsForSubmit, EscrowCommits
<1>13. ASSUME NEW t \in tasks, EscrowCommitPending(t)  PROVE Steady
    BY <1>13 DEF EscrowCommitPending, Steady
<1>14. ASSUME NEW t \in tasks, EscrowDeploys(t)  PROVE Steady
    BY <1>14 DEF EscrowDeploys, Becomes, Calls, TabShape, Steady, Calm, Passing, TaskFields
<1>15. ASSUME NEW t \in tasks, NEW tx, NEW named, EscrowAnswered(t, tx, named)  PROVE Steady
    BY <1>15 DEF EscrowAnswered, TaskOf, Steady, Calm, Passing, TaskFields
<1>16. ASSUME NEW t \in tasks, NEW e, EscrowFound(t, e) \/ EscrowFunded(t, e)  PROVE Steady
    BY <1>16, FewerSteady DEF EscrowFound, EscrowFunded, Finish
<1> QED
    BY <1>1, <1>2, <1>3, <1>4, <1>5, <1>6, <1>7, <1>8, <1>9, <1>10, <1>11, <1>12, <1>13,
       <1>14, <1>15, <1>16, TabSteady
    DEF EscrowNext, Keeps, PassStep

\* The Offer-Hub page.
LEMMA HubKeeps ==
    ASSUME TabShape, HubNext
    PROVE  Keeps
<1>1. ASSUME NEW r \in reads, HubShow(r) \/ HubLoadOvertaken(r) \/ HubReadDropped(r)
      PROVE Steady
    BY <1>1 DEF HubShow, HubLoadOvertaken, HubReadDropped, ReadFails, Steady
<1>2. ASSUME HubHashChange  PROVE Steady  BY <1>2 DEF HubHashChange, Steady
<1>3. ASSUME HubReset  PROVE Steady  BY <1>3 DEF HubReset, Gesture, HashSet, Steady
<1>4. ASSUME HubClicks  PROVE Steady  BY <1>4, ClickSteady DEF HubClicks
<1>5. ASSUME NEW m, HubSwitchMode(m)  PROVE Steady  BY <1>5 DEF HubSwitchMode, Gesture, Steady
<1>6. ASSUME NEW id, HubLoad(id)  PROVE Steady
    BY <1>6 DEF HubLoad, Gesture, TaskOf, Steady, Calm, Passing, TaskFields
<1>7. ASSUME NEW w, HubSelect(w)  PROVE Steady  BY <1>7 DEF HubSelect, Gesture, Steady
<1>8. ASSUME NEW t \in tasks, HubCreates(t)  PROVE Steady
    BY <1>8, FewerSteady DEF HubCreates, HashSet
<1>9. ASSUME NEW t \in tasks, HubCommits(t) \/ HubPassShown(t) \/ HubClears(t) \/ HubRevealFails(t)
      PROVE Steady
    BY <1>9, GoesSteady DEF HubCommits, HubPassShown, HubClears, HubRevealFails
<1> QED
    BY <1>1, <1>2, <1>3, <1>4, <1>5, <1>6, <1>7, <1>8, <1>9, TabSteady
    DEF HubNext, Keeps, PassStep

\* The Signal page.
LEMMA SignalKeeps ==
    ASSUME TabShape, SignalNext
    PROVE  Keeps
<1>1. ASSUME NEW r \in reads, SignalShow(r)  PROVE Steady  BY <1>1 DEF SignalShow, Steady
<1>2. ASSUME NEW w, SignalConnect(w)  PROVE Steady  BY <1>2, TabSteady DEF SignalConnect
<1>3. ASSUME NEW m, SignalSwitchMode(m)  PROVE Steady
    BY <1>3 DEF SignalSwitchMode, Gesture, Steady
<1>4. ASSUME NEW id, SignalTypeId(id)  PROVE Steady  BY <1>4 DEF SignalTypeId, Gesture, Steady
<1>5. ASSUME NEW n, SignalActivate(n)  PROVE Steady  BY <1>5 DEF SignalActivate, Gesture, Steady
<1>6. ASSUME SignalReset  PROVE Steady  BY <1>6 DEF SignalReset, Gesture, Steady
<1>7. ASSUME SignalLoad  PROVE Steady
  <2>1. CASE UNCHANGED tasks  BY <1>7, <2>1, FewerSteady DEF SignalLoad, Gesture, HashSet
  <2>2. CASE ~ UNCHANGED tasks
    <3> DEFINE t == [TaskOf("load", tab.id, NoRound) EXCEPT !.at = "refreshing"]
    <3>1. Calm(t)  BY DEF TaskOf, Calm, Passing, TaskFields
    <3>2. tasks' = tasks \cup {t} /\ page' = page  BY <1>7, <2>2 DEF SignalLoad
    <3>3. DOMAIN tab' = DOMAIN tab  BY <1>7, <2>2 DEF SignalLoad, Gesture, HashSet
    <3> QED  BY <3>1, <3>2, <3>3 DEF Steady
  <2> QED  BY <2>1, <2>2
<1>8. ASSUME SignalPageReload  PROVE Steady  BY <1>8 DEF SignalPageReload, Gesture, Steady
<1>9. ASSUME SignalClicks  PROVE Steady  BY <1>9, ClickSteady DEF SignalClicks
<1>10. ASSUME NEW w, SignalSelect(w)  PROVE Steady  BY <1>10 DEF SignalSelect, Gesture, Steady
<1>11. ASSUME NEW t \in tasks, SignalCreates(t) \/ SignalCommits(t)  PROVE Steady
    BY <1>11, GoesSteady DEF SignalCreates, SignalCommits, AwaitRefresh, HashSet
<1> QED
    BY <1>1, <1>2, <1>3, <1>4, <1>5, <1>6, <1>7, <1>8, <1>9, <1>10, <1>11, TabSteady
    DEF SignalNext, Keeps, PassStep

\* The ACTA page.
LEMMA ActaKeeps ==
    ASSUME TabShape, ActaNext
    PROVE  Keeps
<1>1. ASSUME NEW r \in reads, ActaShow(r)  PROVE Steady  BY <1>1 DEF ActaShow, HashSet, Steady
<1>2. ASSUME ActaPolls  PROVE Steady  BY <1>2 DEF ActaPolls, Steady
<1>3. ASSUME ActaClicks  PROVE Steady  BY <1>3, ClickSteady DEF ActaClicks
<1>10. ASSUME ActaClicksIssue  PROVE Steady
    BY <1>10 DEF ActaClicksIssue, Gesture, TaskOf, Steady, Calm, Passing, TaskFields
<1>4. ASSUME ActaPageReload  PROVE Steady  BY <1>4 DEF ActaPageReload, Gesture, Steady
<1>5. ASSUME NEW m, ActaSwitchMode(m)  PROVE Steady
    BY <1>5 DEF ActaSwitchMode, Gesture, HashSet, Steady
<1>6. ASSUME NEW id, ActaLoad(id)  PROVE Steady
    BY <1>6 DEF ActaLoad, Gesture, TaskOf, Steady, Calm, Passing, TaskFields
<1>7. ASSUME NEW w, ActaSelect(w) \/ ActaConnects(w) \/ ActaTypes(w)  PROVE Steady
    BY <1>7, TabSteady DEF ActaSelect, ActaConnects, ActaTypes, Gesture, Steady
<1>8. ASSUME NEW t \in tasks, ActaVerified(t) \/ ActaCreates(t) \/ ActaIssues(t)  PROVE Steady
    BY <1>8, FewerSteady DEF ActaVerified, ActaCreates, ActaIssues, Finish, HashSet
<1>9. ASSUME NEW t \in tasks,
             ActaCommits(t) \/ ActaPassShown(t) \/ ActaClears(t) \/ ActaRevealFails(t)
      PROVE Steady
    BY <1>9, GoesSteady DEF ActaCommits, ActaPassShown, ActaClears, ActaRevealFails
<1> QED
    BY <1>1, <1>2, <1>3, <1>4, <1>5, <1>6, <1>7, <1>8, <1>9, <1>10, TabSteady
    DEF ActaNext, Keeps, PassStep

\* The OpenX402 page.
LEMMA MarketKeeps ==
    ASSUME TabShape, MarketNext
    PROVE  Keeps
<1>1. ASSUME NEW r \in reads, MarketShow(r)  PROVE Steady  BY <1>1 DEF MarketShow, HashSet, Steady
<1>2. ASSUME MarketPolls  PROVE Steady  BY <1>2 DEF MarketPolls, Steady
<1>3. ASSUME MarketReset \/ MarketStartsAnew \/ MarketPageReload  PROVE Steady
    BY <1>3 DEF MarketReset, MarketStartsAnew, MarketPageReload, Gesture, HashSet, Steady
<1>4. ASSUME MarketClicks  PROVE Steady  BY <1>4, ClickSteady DEF MarketClicks
<1>5. ASSUME NEW m, MarketSwitchMode(m)  PROVE Steady
    BY <1>5 DEF MarketSwitchMode, Gesture, Steady
<1>6. ASSUME NEW id, MarketLoad(id)  PROVE Steady
    BY <1>6 DEF MarketLoad, Gesture, TaskOf, Steady, Calm, Passing, TaskFields
<1>7. ASSUME NEW w, MarketSelects(w)  PROVE Steady  BY <1>7 DEF MarketSelects, Gesture, Steady
<1>8. ASSUME NEW t \in tasks, MarketCreates(t) \/ MarketCommits(t) \/ MarketRevealEnds(t)
      PROVE Steady
    BY <1>8, GoesSteady DEF MarketCreates, MarketCommits, MarketRevealEnds, HashSet
<1> QED
    BY <1>1, <1>2, <1>3, <1>4, <1>5, <1>6, <1>7, <1>8, TabSteady
    DEF MarketNext, Keeps, PassStep

---------------------------------------------------------------------------
(* The reveal pass.                                                        *)

\* A pass is of a round that has begun, and what it has not come to yet or
\* left aside because it was revealed is all that is sealed there.
PassSound(t) ==
    /\ t.id \in PilotRound /\ Begun(t.id)
    /\ t.at = "each" => Sealed(t.id) \subseteq t.left \cup rounds[t.id].revealed

PassInv == ChainShape /\ TabShape /\ \A t \in tasks : Passing(t) => PassSound(t)

\* The calls of a pass.
LEMMA PassGoesOn ==
    ASSUME PassInv, NEW t \in tasks, PassNext(t)
    PROVE  ChainGoesOn
<1>1. ChainShape  BY DEF PassInv
<1>2. CASE PassOpen(t)  BY <1>1, <1>2, OpenGoesOn, IdleGoesOn DEF PassOpen
<1>3. CASE PassList(t)  BY <1>1, <1>3, IdleGoesOn DEF PassList, chainVars
<1>4. CASE PassEach(t)
    BY <1>1, <1>4, RevealGoesOn, IdleGoesOn DEF PassEach, PassInv, Passing, PassSound
<1> QED  BY <1>2, <1>3, <1>4 DEF PassNext

\* The calls of every page.
LEMMA PagesGoOn ==
    ASSUME PassInv, NextPilots
    PROVE  ChainGoesOn
<1>1. ChainShape  BY DEF PassInv
<1>2. CASE UNCHANGED chainVars  BY <1>1, <1>2, IdleGoesOn DEF chainVars
<1>3. CASE ChainNext  BY <1>1, <1>3, OthersGoOn
<1>4. ASSUME BasicNext  PROVE ChainGoesOn
  <2>1. ASSUME NEW t \in tasks, BasicCreates(t) \/ BasicCalls(t) \/ BasicRevealEnds(t)
        PROVE  ChainGoesOn
    BY <1>1, <1>2, <2>1, CreateGoesOn, CommitGoesOn, EndGoesOn
    DEF BasicCreates, BasicCalls, BasicRevealEnds
  <2> QED  BY <1>2, <1>4, <2>1, PassGoesOn DEF BasicNext
<1>5. ASSUME EscrowNext  PROVE ChainGoesOn
  <2>1. ASSUME NEW t \in tasks,
               \/ EscrowCreates(t) \/ EscrowLoadsForSubmit(t) \/ EscrowCommits(t)
               \/ EscrowCommitPending(t) \/ EscrowRevealEnds(t) \/ EscrowDeploys(t)
        PROVE  ChainGoesOn
    BY <1>1, <1>2, <2>1, CreateGoesOn, CommitGoesOn
    DEF EscrowCreates, EscrowLoadsForSubmit, EscrowCommits, EscrowCommitPending,
        EscrowRevealEnds, EscrowDeploys
  <2>2. ASSUME NEW t \in tasks, NEW x, NEW y,
               EscrowAnswered(t, x, y) \/ EscrowFound(t, x) \/ EscrowFunded(t, x)
        PROVE  ChainGoesOn
    BY <1>2, <2>2 DEF EscrowAnswered, EscrowFound, EscrowFunded
  <2> QED  BY <1>2, <1>5, <2>1, <2>2, PassGoesOn DEF EscrowNext
<1>6. ASSUME HubNext  PROVE ChainGoesOn
  <2>1. ASSUME NEW t \in tasks,
               HubCreates(t) \/ HubCommits(t) \/ HubPassShown(t) \/ HubClears(t) \/ HubRevealFails(t)
        PROVE  ChainGoesOn
    BY <1>1, <1>2, <2>1, CreateGoesOn, CommitGoesOn, EndGoesOn, IdleGoesOn
    DEF HubCreates, HubCommits, HubPassShown, HubClears, HubRevealFails
  <2> QED  BY <1>2, <1>6, <2>1, PassGoesOn DEF HubNext
<1>7. ASSUME SignalNext  PROVE ChainGoesOn
  <2>1. ASSUME NEW t \in tasks, SignalCreates(t) \/ SignalCommits(t)  PROVE ChainGoesOn
    BY <1>1, <2>1, CreateGoesOn, CommitGoesOn, IdleGoesOn DEF SignalCreates, SignalCommits
  <2> QED  BY <1>2, <1>7, <2>1, PassGoesOn DEF SignalNext
<1>8. ASSUME ActaNext  PROVE ChainGoesOn
  <2>1. ASSUME NEW t \in tasks,
               \/ ActaVerified(t) \/ ActaCreates(t) \/ ActaCommits(t) \/ ActaPassShown(t)
               \/ ActaClears(t) \/ ActaRevealFails(t) \/ ActaIssues(t)
        PROVE  ChainGoesOn
    BY <1>1, <1>2, <2>1, CreateGoesOn, CommitGoesOn, EndGoesOn, IdleGoesOn
    DEF ActaVerified, ActaCreates, ActaCommits, ActaPassShown, ActaClears, ActaRevealFails,
        ActaIssues
  <2> QED  BY <1>2, <1>8, <2>1, PassGoesOn DEF ActaNext
<1>9. ASSUME MarketNext  PROVE ChainGoesOn
  <2>1. ASSUME NEW t \in tasks, MarketCreates(t) \/ MarketCommits(t) \/ MarketRevealEnds(t)
        PROVE  ChainGoesOn
    BY <1>1, <2>1, CreateGoesOn, CommitGoesOn, EndGoesOn, IdleGoesOn
    DEF MarketCreates, MarketCommits, MarketRevealEnds
  <2> QED  BY <1>2, <1>9, <2>1, PassGoesOn DEF MarketNext
<1> QED  BY <1>3, <1>4, <1>5, <1>6, <1>7, <1>8, <1>9 DEF NextPilots

\* A pass that is sound is so after anything that happens to the rounds.
LEMMA SoundPassKept ==
    ASSUME ChainGoesOn, NEW t, PassSound(t)
    PROVE  PassSound(t)'
BY DEF ChainGoesOn, GoesOn, PassSound, Begun, Sealed

\* Each step of a pass.
LEMMA PassKeepsSound ==
    ASSUME PassInv, NEW t \in tasks, PassNext(t)
    PROVE  PassInv'
<1>1. ChainGoesOn  BY PassGoesOn
<1>2. ASSUME NEW u, DOMAIN u = TaskFields, Passing(u) => PassSound(u)', Becomes(t, u),
             UNCHANGED tab
      PROVE  PassInv'
    BY <1>1, <1>2, SoundPassKept DEF PassInv, TabShape, ChainGoesOn, Becomes
<1>3. DOMAIN t = TaskFields  BY DEF PassInv, TabShape
<1>4. CASE PassOpen(t)
  <2> DEFINE u == [t EXCEPT !.at = "list"]
  <2>1. DOMAIN u = TaskFields /\ u.id = t.id /\ u.at = "list"  BY <1>3 DEF TaskFields
  <2>2. t.id \in PilotRound  BY <1>4 DEF PassOpen, Exists
  <2>3. Begun(t.id)'
      BY <1>4, <2>2 DEF PassOpen, PassInv, ChainShape, RoundFields, OpenReveal, RevealAlreadyOpen,
                  Exists, Begun
  <2>4. PassSound(u)'  BY <2>1, <2>2, <2>3 DEF PassSound
  <2> QED  BY <1>2, <1>4, <2>1, <2>4 DEF PassOpen, Goes
<1>5. CASE PassList(t)
  <2> PICK u : u = [t EXCEPT !.at = "each", !.left = Sealed(t.id)]  OBVIOUS
  <2>1. DOMAIN u = TaskFields /\ u.id = t.id /\ u.left = Sealed(t.id)
      BY <1>3 DEF TaskFields
  <2>2. PassSound(t)  BY <1>5 DEF PassList, PassInv, Passing
  <2>3. PassSound(u)'  BY <1>5, <2>1, <2>2 DEF PassSound, PassList, chainVars, Begun, Sealed
  <2>4. Becomes(t, u) /\ UNCHANGED tab  BY <1>5 DEF PassList
  <2> QED  BY <1>2, <2>1, <2>3, <2>4
<1>6. CASE PassEach(t)
  <2>1. PICK w \in t.left :
            /\ \/ PassedOver(t.id, w) /\ UNCHANGED rounds
               \/ Readable(rounds[t.id].seal[w]) /\ RevealOf(t.id, w)
            /\ Becomes(t, [t EXCEPT !.left = @ \ {w}])
      BY <1>6 DEF PassEach
  <2> DEFINE u == [t EXCEPT !.left = @ \ {w}]
  <2>2. DOMAIN u = TaskFields /\ u.id = t.id /\ u.at = t.at /\ u.left = t.left \ {w}
      BY <1>3 DEF TaskFields
  <2>3. PassSound(t) /\ PassSound(t)' /\ t.at = "each"
      BY <1>1, <1>6, SoundPassKept DEF PassEach, PassInv, Passing
  <2>4. w \in rounds'[t.id].revealed
      BY <2>1, <2>3 DEF PassedOver, RevealOf, PassInv, ChainShape, RoundFields, PassSound
  <2>5. PassSound(u)'  BY <2>2, <2>3, <2>4 DEF PassSound, Sealed
  <2> QED  BY <1>2, <1>6, <2>1, <2>2, <2>5 DEF PassEach
<1> QED  BY <1>4, <1>5, <1>6 DEF PassNext

\* Every step of every page.
LEMMA StepKeepsPass ==
    ASSUME PassInv, [NextPilots]_pilotVars
    PROVE  PassInv' /\ page' = page
<1>1. CASE UNCHANGED pilotVars
    BY <1>1 DEF pilotVars, chainVars, tabVars, PassInv, ChainShape, TabShape, PassSound, Begun, Sealed
<1>2. ASSUME NextPilots, Steady  PROVE PassInv'
  <2>1. ChainGoesOn  BY <1>2, PagesGoOn
  <2>2. TabShape'  BY <1>2 DEF Steady, PassInv, TabShape, Calm
  <2>3. ASSUME NEW t \in tasks', Passing(t)  PROVE PassSound(t)'
      BY <1>2, <2>1, <2>3, SoundPassKept DEF Steady, PassInv, Calm
  <2> QED  BY <2>1, <2>2, <2>3 DEF PassInv, ChainGoesOn
<1>3. ASSUME PassStep  PROVE PassInv'  BY <1>3, PassKeepsSound DEF PassStep
<1>4. PassStep => page' = page  BY DEF PassStep, PassNext, PassOpen, PassList, PassEach
<1>5. Steady => page' = page  BY DEF Steady
<1>6. ASSUME NextPilots  PROVE Keeps
  <2>1. TabShape  BY DEF PassInv
  <2>2. CASE UNCHANGED tabVars  BY <2>1, <2>2, FewerSteady DEF tabVars, Keeps
  <2> QED  BY <1>6, <2>1, <2>2, BasicKeeps, EscrowKeeps, HubKeeps, SignalKeeps, ActaKeeps, MarketKeeps
           DEF NextPilots
<1> QED  BY <1>1, <1>2, <1>3, <1>4, <1>5, <1>6 DEF Keeps, pilotVars, tabVars

\* The round that is open when the story begins.
LEMMA InitPass ==
    ASSUME InitPilots
    PROVE  PassInv
BY DEF InitPilots, ChainInit, TabInit, PassInv, ChainShape, TabShape, TabFields, RoundFields, Unused

\* A pass of any page that gets through leaves nothing sealed behind, for any
\* rounds, wallets and others' calls in between.
THEOREM PassesComplete == SpecPilots => []RevealPassComplete
<1>1. PassInv => RevealPassComplete
    BY DEF PassInv, RevealPassComplete, PassThrough, Passing, PassSound
<1> QED  BY <1>1, InitPass, StepKeepsPass, PTL DEF SpecPilots

---------------------------------------------------------------------------
(* The ACTA page: who submits, and who is given a credential.              *)

ActaFields == {"mode", "organizer", "owner", "eligibility", "selected", "issued"}

\* A wallet that has revealed a proposal of some round, which no later call
\* takes back.
HasRevealed(w) == \E id \in PilotRound : w \in rounds[id].revealed

\* What was verified: only a holder is eligible, and a subject is of the owner.
VerifiedSound ==
    /\ acta.eligibility.state = "eligible" => acta.eligibility.owner \in Holder
    /\ acta.eligibility.subject \in {Nobody, acta.eligibility.owner}

\* What is under way: a submission is of a holder, a credential for a wallet
\* that has revealed and with no subject but its own.
EligibleTask(t) ==
    /\ t.verb = "submit" => t.by \in Holder
    /\ t.verb = "issue" => t.left \subseteq {t.arg} /\ HasRevealed(t.arg)

ShownSound == Shows => \A w \in tab.round.revealed : HasRevealed(w)

EligiblePage == VerifiedSound /\ ShownSound /\ \A t \in tasks : EligibleTask(t)

IssuedSound == \A c \in acta.issued : c.subject = c.wallet /\ HasRevealed(c.wallet)

EligibleInv == DOMAIN acta = ActaFields /\ IssuedSound /\ (page = "acta" => EligiblePage)

\* Nothing revealed is taken back.
LEMMA RevealedStays ==
    ASSUME ChainShape, ChainGoesOn
    PROVE  /\ \A w : HasRevealed(w) => HasRevealed(w)'
           /\ \A t : EligibleTask(t) => EligibleTask(t)'
<1>1. ASSUME NEW w, HasRevealed(w)  PROVE HasRevealed(w)'
  <2>1. PICK id \in PilotRound : w \in rounds[id].revealed  BY <1>1 DEF HasRevealed
  <2>2. Begun(id)  BY <2>1 DEF ChainShape, Begun
  <2>3. w \in rounds'[id].revealed  BY <2>1, <2>2 DEF ChainGoesOn, GoesOn
  <2> QED  BY <2>3 DEF HasRevealed
<1> QED  BY <1>1 DEF EligibleTask

\* A handler that goes on is of the same wallet, argument and subject.
LEMMA GoesEligible ==
    ASSUME TabShape, EligiblePage, NEW t \in tasks, NEW at, Goes(t, at)
    PROVE  \A u \in tasks' : EligibleTask(u)
BY DEF TabShape, TaskFields, EligiblePage, EligibleTask, Goes, Becomes

\* A step of the reveal pass.
LEMMA PassEligible ==
    ASSUME TabShape, EligiblePage, NEW t \in tasks, PassNext(t)
    PROVE  \A u \in tasks' : EligibleTask(u)
<1>1. ASSUME NEW u, Becomes(t, u), u.verb = "reveal"  PROVE \A v \in tasks' : EligibleTask(v)
    BY <1>1 DEF Becomes, EligiblePage, EligibleTask
<1>2. t.verb = "reveal" /\ DOMAIN t = TaskFields
    BY DEF PassNext, PassOpen, PassList, PassEach, Calls, TabShape
<1>3. CASE PassOpen(t)  BY <1>3, GoesEligible DEF PassOpen
<1>4. CASE PassList(t)
  <2>1. PICK u : u = [t EXCEPT !.at = "each", !.left = Sealed(t.id)]  OBVIOUS
  <2>2. u.verb = "reveal"  BY <1>2, <2>1 DEF TaskFields
  <2> QED  BY <1>1, <1>4, <2>1, <2>2 DEF PassList
<1>5. CASE PassEach(t)
  <2>1. PICK w : Becomes(t, [t EXCEPT !.left = @ \ {w}])  BY <1>5 DEF PassEach
  <2>2. PICK u : u = [t EXCEPT !.left = @ \ {w}]  OBVIOUS
  <2>3. u.verb = "reveal"  BY <1>2, <2>2 DEF TaskFields
  <2> QED  BY <1>1, <2>1, <2>2, <2>3
<1> QED  BY <1>3, <1>4, <1>5 DEF PassNext

\* Its buttons: what a submission and an issue are started with.
LEMMA ActaClicksEligible ==
    ASSUME TabShape, EligiblePage, ActaClicks \/ ActaClicksIssue
    PROVE  \A u \in tasks' : EligibleTask(u)
<1>1. \A t \in tasks : EligibleTask(t)  BY DEF EligiblePage
<1>2. ASSUME NEW verb, NEW id, NEW arg, Click(verb, id, arg),
             verb # "issue", verb = "submit" => tab.address \in Holder
      PROVE  \A u \in tasks' : EligibleTask(u)
    BY <1>1, <1>2 DEF Click, TaskOf, EligibleTask
<1>3. CanSubmit => tab.address \in Holder  BY DEF CanSubmit, EligiblePage, VerifiedSound
<1>4. ASSUME ActaClicks  PROVE \A u \in tasks' : EligibleTask(u)
    BY <1>2, <1>3, <1>4 DEF ActaClicks
<1>5. ASSUME ActaClicksIssue  PROVE \A u \in tasks' : EligibleTask(u)
  <2>1. acta.eligibility.subject = acta.selected
      BY <1>5 DEF ActaClicksIssue, CanIssue, EligiblePage, VerifiedSound
  <2>2. HasRevealed(acta.selected)
      BY <1>5 DEF ActaClicksIssue, SelectedProposal, EligiblePage, ShownSound
  <2>3. PICK u : u = [TaskOf("issue", tab.id, acta.selected)
                          EXCEPT !.left = {acta.eligibility.subject}]
      OBVIOUS
  <2>4. u.verb = "issue" /\ u.arg = acta.selected /\ u.left = {acta.eligibility.subject}
      BY <2>3 DEF TaskOf
  <2>5. EligibleTask(u)  BY <2>1, <2>2, <2>4 DEF EligibleTask
  <2>6. tasks' = tasks \cup {u}  BY <1>5, <2>3 DEF ActaClicksIssue
  <2> QED  BY <1>1, <2>5, <2>6
<1> QED  BY <1>4, <1>5

\* The steps of the ACTA page.
LEMMA ActaKeepsEligible ==
    ASSUME PassInv, EligibleInv, page = "acta", ActaNext, ChainGoesOn
    PROVE  EligibleInv'
<1>1. /\ TabShape /\ ChainShape /\ EligiblePage
      /\ DOMAIN acta = ActaFields /\ IssuedSound
    BY DEF PassInv, EligibleInv
<1>2. /\ \A w : HasRevealed(w) => HasRevealed(w)'
      /\ \A t : EligibleTask(t) => EligibleTask(t)'
    BY <1>1, RevealedStays
\* Which parts of a step keep the invariant.
<1> DEFINE ShownKept == tab'.round \in {tab.round, NoData}
           TasksKept == \A u \in tasks' : EligibleTask(u)
           RecordKept == DOMAIN acta' = ActaFields /\ acta'.issued = acta.issued
<1>3. ShownKept => ShownSound'  BY <1>1, <1>2 DEF EligiblePage, ShownSound, Shows
<1>4. ASSUME RecordKept, TasksKept, ShownSound', VerifiedSound'  PROVE EligibleInv'
  <2>1. IssuedSound'  BY <1>1, <1>2, <1>4 DEF IssuedSound
  <2>2. \A u \in tasks' : EligibleTask(u)'  BY <1>2, <1>4
  <2> QED  BY <1>4, <2>1, <2>2 DEF EligibleInv, EligiblePage
<1>5. tasks' \subseteq tasks => TasksKept  BY <1>1 DEF EligiblePage
<1>6. UNCHANGED acta => RecordKept /\ VerifiedSound'  BY <1>1 DEF EligiblePage, VerifiedSound
<1> HIDE DEF ShownKept, TasksKept, RecordKept
<1>7. ASSUME NEW r \in reads, ActaShow(r)  PROVE EligibleInv'
  <2>1. RecordKept /\ acta'.eligibility = acta.eligibility
      BY <1>1, <1>7 DEF ActaShow, ActaFields, RecordKept
  <2>2. tab'.round = Snapshot(r.id)  BY <1>1, <1>7 DEF ActaShow, HashSet, TabShape, TabFields
  <2>3. \A w \in tab'.round.revealed : HasRevealed(w)
      BY <1>7, <2>2 DEF ActaShow, Snapshot, Exists, HasRevealed
  <2>4. ShownSound'  BY <1>2, <2>3 DEF ShownSound
  <2>5. VerifiedSound'  BY <1>1, <2>1 DEF EligiblePage, VerifiedSound
  <2>6. TasksKept  BY <1>5, <1>7 DEF ActaShow
  <2> QED  BY <1>4, <2>1, <2>4, <2>5, <2>6
<1>8. ASSUME ActaClicks \/ ActaClicksIssue  PROVE EligibleInv'
  <2>1. UNCHANGED acta /\ ShownKept
      BY <1>1, <1>8 DEF ActaClicks, ActaClicksIssue, Click, Gesture, TabShape, TabFields, ShownKept
  <2>2. TasksKept  BY <1>1, <1>8, ActaClicksEligible DEF TasksKept
  <2> QED  BY <1>3, <1>4, <1>6, <2>1, <2>2
<1>9. ASSUME ActaPageReload \/ ActaPolls  PROVE EligibleInv'
  <2>1. RecordKept /\ acta'.eligibility = acta.eligibility
      BY <1>1, <1>9 DEF ActaPageReload, ActaPolls, ActaFields, RecordKept
  <2>2. ShownKept /\ tasks' \subseteq tasks
      BY <1>1, <1>9 DEF ActaPageReload, ActaPolls, Gesture, TabShape, TabFields, ShownKept
  <2>3. VerifiedSound'  BY <1>1, <2>1 DEF EligiblePage, VerifiedSound
  <2> QED  BY <1>3, <1>4, <1>5, <2>1, <2>2, <2>3
<1>10. ASSUME NEW m, ActaSwitchMode(m)  PROVE EligibleInv'
  <2>1. ShownKept /\ tasks' \subseteq tasks
      BY <1>1, <1>10
      DEF ActaSwitchMode, Gesture, HashSet, TabShape, TabFields, ShownKept
  <2>2. RecordKept /\ acta'.eligibility = NotChecked
      BY <1>10 DEF ActaSwitchMode, ActaEmpty, ActaFields, RecordKept
  <2>3. VerifiedSound'  BY <2>2 DEF VerifiedSound, NotChecked
  <2> QED  BY <1>3, <1>4, <1>5, <2>1, <2>2, <2>3
<1>11. ASSUME NEW id, ActaLoad(id)  PROVE EligibleInv'
  <2>1. UNCHANGED acta /\ ShownKept
      BY <1>1, <1>11 DEF ActaLoad, Gesture, TabShape, TabFields, ShownKept
  <2>2. TasksKept
      BY <1>1, <1>11 DEF ActaLoad, TaskOf, EligiblePage, EligibleTask, TasksKept
  <2> QED  BY <1>3, <1>4, <1>6, <2>1, <2>2
<1>12. ASSUME NEW w, ActaSelect(w) \/ ActaConnects(w)  PROVE EligibleInv'
  <2>1. RecordKept /\ acta'.eligibility = acta.eligibility
      BY <1>1, <1>12 DEF ActaSelect, ActaConnects, ActaFields, RecordKept
  <2>2. ShownKept /\ tasks' \subseteq tasks
      BY <1>1, <1>12
      DEF ActaSelect, ActaConnects, Connect, Gesture, TabShape, TabFields, ShownKept
  <2>3. VerifiedSound'  BY <1>1, <2>1 DEF EligiblePage, VerifiedSound
  <2> QED  BY <1>3, <1>4, <1>5, <2>1, <2>2, <2>3
<1>13. ASSUME NEW w, ActaTypes(w)  PROVE EligibleInv'
  <2>1. RecordKept /\ acta'.eligibility = NotChecked
      BY <1>1, <1>13 DEF ActaTypes, ActaFields, RecordKept
  <2>2. ShownKept /\ tasks' \subseteq tasks
      BY <1>1, <1>13 DEF ActaTypes, Gesture, TabShape, TabFields, ShownKept
  <2>3. VerifiedSound'  BY <2>1 DEF VerifiedSound, NotChecked
  <2> QED  BY <1>3, <1>4, <1>5, <2>1, <2>2, <2>3
<1>14. ASSUME NEW t \in tasks, ActaVerified(t)  PROVE EligibleInv'
  <2>1. PICK found \in ActaAnswers(t.by) : acta' = [acta EXCEPT !.eligibility = found]
      BY <1>14 DEF ActaVerified
  <2>2. RecordKept /\ acta'.eligibility = found  BY <1>1, <2>1 DEF ActaFields, RecordKept
  <2>3. /\ found.state = "eligible" => found.owner \in Holder
        /\ found.subject \in {Nobody, found.owner}
      BY <2>1 DEF ActaAnswers, NotChecked
  <2>4. VerifiedSound'  BY <2>2, <2>3 DEF VerifiedSound
  <2>5. ShownKept /\ tasks' \subseteq tasks
      BY <1>1, <1>14 DEF ActaVerified, Finish, TabShape, TabFields, ShownKept
  <2> QED  BY <1>3, <1>4, <1>5, <2>2, <2>4, <2>5
<1>15. ASSUME NEW t \in tasks, ActaCreates(t)  PROVE EligibleInv'
  <2>1. RecordKept /\ acta'.eligibility = acta.eligibility
      BY <1>1, <1>15 DEF ActaCreates, ActaFields, RecordKept
  <2>2. ShownKept /\ tasks' \subseteq tasks
      BY <1>1, <1>15 DEF ActaCreates, HashSet, TabShape, TabFields, ShownKept
  <2>3. VerifiedSound'  BY <1>1, <2>1 DEF EligiblePage, VerifiedSound
  <2> QED  BY <1>3, <1>4, <1>5, <2>1, <2>2, <2>3
<1>16. ASSUME NEW t \in tasks,
              ActaCommits(t) \/ ActaPassShown(t) \/ ActaClears(t) \/ ActaRevealFails(t)
       PROVE EligibleInv'
  <2>1. UNCHANGED <<acta, tab>> /\ \E at : Goes(t, at)
      BY <1>16 DEF ActaCommits, ActaPassShown, ActaClears, ActaRevealFails
  <2>2. TasksKept  BY <1>1, <2>1, GoesEligible DEF TasksKept
  <2> QED  BY <1>3, <1>4, <1>6, <2>1, <2>2 DEF ShownKept
<1>17. ASSUME NEW t \in tasks, ActaIssues(t)  PROVE EligibleInv'
  <2>1. PICK subject \in t.left :
            acta' = [acta EXCEPT !.issued =
                         @ \cup {[round |-> t.id, wallet |-> t.arg, subject |-> subject]}]
      BY <1>17 DEF ActaIssues
  <2>2. subject = t.arg /\ HasRevealed(t.arg)
      BY <1>1, <1>17, <2>1 DEF ActaIssues, Calls, EligiblePage, EligibleTask
  <2>3. /\ DOMAIN acta' = ActaFields /\ acta'.eligibility = acta.eligibility
        /\ acta'.issued = acta.issued \cup {[round |-> t.id, wallet |-> t.arg, subject |-> subject]}
      BY <1>1, <2>1 DEF ActaFields
  <2>4. IssuedSound'  BY <1>1, <1>2, <2>2, <2>3 DEF IssuedSound
  <2>5. ShownKept /\ tasks' \subseteq tasks
      BY <1>1, <1>17 DEF ActaIssues, Finish, TabShape, TabFields, ShownKept
  <2>6. \A u \in tasks' : EligibleTask(u)'  BY <1>1, <1>2, <2>5 DEF EligiblePage
  <2>7. VerifiedSound'  BY <1>1, <2>3 DEF EligiblePage, VerifiedSound
  <2> QED  BY <1>3, <2>3, <2>4, <2>5, <2>6, <2>7 DEF EligibleInv, EligiblePage
<1>18. ASSUME NEW t \in tasks, PassNext(t), UNCHANGED acta  PROVE EligibleInv'
  <2>1. TasksKept  BY <1>1, <1>18, PassEligible DEF TasksKept
  <2>2. ShownKept  BY <1>18 DEF PassNext, PassOpen, PassList, PassEach, ShownKept
  <2> QED  BY <1>3, <1>4, <1>6, <1>18, <2>1, <2>2
<1>19. ASSUME NEW x, ReadFails(x) \/ TaskReturns(x) \/ TaskFails(x), UNCHANGED acta
       PROVE EligibleInv'
  <2>1. ShownKept /\ tasks' \subseteq tasks
      BY <1>1, <1>19
      DEF ReadFails, TaskReturns, TaskFails, Finish, TabShape, TabFields, ShownKept
  <2> QED  BY <1>3, <1>4, <1>5, <1>6, <1>19, <2>1
<1> QED
    BY <1>7, <1>8, <1>9, <1>10, <1>11, <1>12, <1>13, <1>14, <1>15, <1>16, <1>17, <1>18, <1>19
    DEF ActaNext

\* On the ACTA page only wallets with the credential submit, and an outcome
\* credential is of a wallet that has revealed and names its own subject,
\* whatever is connected, typed, verified and shown in between.
THEOREM CredentialsMatch == SpecPilots => []CredentialsMatchWallets
<1>1. InitPilots => EligibleInv
    BY DEF InitPilots, TabInit, ActaInit, ActaEmpty, NotChecked, Shows, EligibleInv, EligiblePage,
           VerifiedSound, ShownSound, IssuedSound, ActaFields
<1>2. PassInv /\ EligibleInv /\ [NextPilots]_pilotVars => EligibleInv'
  <2> SUFFICES ASSUME PassInv, EligibleInv, [NextPilots]_pilotVars  PROVE EligibleInv'
      OBVIOUS
  <2>1. ChainShape /\ ChainGoesOn /\ page' = page
      BY StepKeepsPass, PagesGoOn, IdleGoesOn DEF PassInv, pilotVars, chainVars
  <2>2. /\ \A w : HasRevealed(w) => HasRevealed(w)'
        /\ \A t : EligibleTask(t) => EligibleTask(t)'
      BY <2>1, RevealedStays
  <2>3. CASE UNCHANGED <<acta, tabVars>>
    <3>1. IssuedSound'  BY <2>2, <2>3 DEF EligibleInv, IssuedSound
    <3>2. EligiblePage => EligiblePage'
        BY <2>2, <2>3 DEF EligiblePage, VerifiedSound, ShownSound, Shows, tabVars
    <3> QED  BY <2>3, <3>1, <3>2 DEF EligibleInv, tabVars
  <2>4. CASE UNCHANGED acta /\ page # "acta"
    <3>1. IssuedSound'  BY <2>2, <2>4 DEF EligibleInv, IssuedSound
    <3> QED  BY <2>1, <2>4, <3>1 DEF EligibleInv
  <2>5. CASE page = "acta" /\ ActaNext  BY <2>1, <2>5, ActaKeepsEligible
  <2> QED  BY <2>3, <2>4, <2>5 DEF NextPilots, pilotVars
<1>3. EligibleInv => CredentialsMatchWallets
    BY DEF EligibleInv, EligiblePage, EligibleTask, IssuedSound, HasRevealed, CredentialsMatchWallets
<1> QED  BY <1>1, <1>2, <1>3, InitPass, StepKeepsPass, PTL DEF SpecPilots

---------------------------------------------------------------------------
(* The Trustless Work page: one escrow for an engagement.                  *)

EscrowShape ==
    /\ DOMAIN work = {"mode", "hashId", "offers", "selected", "tx", "contract", "sought"}
    /\ DOMAIN service = {"escrows", "deposits", "lost"}

OneTask == \A t \in tasks : tab.busy /\ \A u \in tasks : u = t
Deployed(t) == t.verb = "deploy" /\ t.at = "deployed"

\* Nothing the page was told of is lost: then there is no escrow but the one
\* whose answer is awaited or has come, and once it has come nobody deploys.
OneEscrow ==
    /\ service.escrows = <<>> \/ service.escrows = <<service.escrows[1]>>
    /\ escrowSubmissionStarted => \A t \in tasks : t.verb # "deploy"
    /\ ~ escrowSubmissionStarted =>
        /\ OneTask
        /\ service.escrows = <<>> \/ \E t \in tasks : Deployed(t)
        /\ \A t \in tasks : t.verb = "deploy" => t.at \in {"call", "deployed"}
        /\ \A t \in tasks : Deployed(t) => t.left = {1}

EscrowPageInv == EscrowShape /\ (service.lost \/ OneEscrow)

EscrowInv ==
    /\ EscrowShape
    /\ page = "trustless" => EscrowPageInv
    /\ page # "trustless" => service.escrows = <<>>

\* The page knows of the same escrow, and the service has the same ones.
SameEscrow ==
    /\ EscrowShape'
    /\ work'.tx = work.tx /\ work'.contract = work.contract
    /\ service'.escrows = service.escrows
    /\ service'.lost = service.lost

LEMMA UnchangedSame ==
    ASSUME EscrowShape, UNCHANGED escrowVars
    PROVE  SameEscrow
BY DEF escrowVars, EscrowShape, SameEscrow

\* The effect that selects a proposal leaves the escrow alone.
LEMMA AutoSelectSame ==
    ASSUME NEW w, DOMAIN w = {"mode", "hashId", "offers", "selected", "tx", "contract", "sought"}
    PROVE  /\ DOMAIN AutoSelect(w) = DOMAIN w
           /\ AutoSelect(w).tx = w.tx /\ AutoSelect(w).contract = w.contract
BY DEF AutoSelect

\* A button: one to deploy only before anything was submitted.
LEMMA ClickOneEscrow ==
    ASSUME TabShape, OneEscrow, SameEscrow, NEW verb, NEW id, NEW arg, Click(verb, id, arg),
           verb = "deploy" => ~ escrowSubmissionStarted
    PROVE  OneEscrow'
<1>1. tasks' = tasks \cup {TaskOf(verb, id, arg)} /\ tab'.busy
    BY DEF Click, Gesture, TabShape, TabFields
<1>2. ~ tab.busy  BY DEF Click
<1>3. TaskOf(verb, id, arg).verb = verb /\ TaskOf(verb, id, arg).at = "call"  BY DEF TaskOf
<1> QED
    BY <1>1, <1>2, <1>3 DEF OneEscrow, SameEscrow, escrowSubmissionStarted, OneTask, Deployed

\* A handler that does not deploy goes on.
LEMMA MoveOneEscrow ==
    ASSUME OneEscrow, SameEscrow, NEW t \in tasks, NEW u, Becomes(t, u),
           t.verb # "deploy", u.verb = t.verb, tab.busy => tab'.busy
    PROVE  OneEscrow'
BY DEF OneEscrow, SameEscrow, Becomes, escrowSubmissionStarted, OneTask, Deployed

\* Handlers end, but none that waits for the answer.
LEMMA EndOneEscrow ==
    ASSUME OneEscrow, SameEscrow, tasks' \subseteq tasks,
           \A t \in tasks \ tasks' : ~ Deployed(t),
           tasks' = tasks => (tab.busy => tab'.busy)
    PROVE  OneEscrow'
BY DEF OneEscrow, SameEscrow, escrowSubmissionStarted, OneTask, Deployed

\* Refreshes, the address, tabs and selections.
LEMMA ShowKeepsEscrow ==
    ASSUME PassInv, EscrowPageInv, NEW r \in reads,
           EscrowShow(r) \/ EscrowReadEnds(r) \/ EscrowReadRetries(r)
    PROVE  EscrowPageInv'
<1>1. TabShape /\ EscrowShape  BY DEF PassInv, EscrowPageInv
<1>2. CASE EscrowShow(r)
  <2>1. SameEscrow
    <3>1. work' = AutoSelect([work EXCEPT !.offers = rounds[r.id].revealed]) /\ UNCHANGED service
        BY <1>2 DEF EscrowShow
    <3> QED  BY <1>1, <3>1, AutoSelectSame DEF EscrowShape, SameEscrow
  <2>2. CASE tasks' = tasks /\ (tab.busy => tab'.busy)
      BY <2>1, <2>2, EndOneEscrow DEF EscrowPageInv, SameEscrow
  <2>3. CASE ~ (tasks' = tasks /\ (tab.busy => tab'.busy))
    <3>1. PICK t \in Awaiting(r) :
              \/ Becomes(t, [t EXCEPT !.at = "commit", !.arg = r.id]) /\ tab'.busy = tab.busy
              \/ tasks' = tasks \ {t}
        BY <1>1, <1>2, <2>3 DEF EscrowShow, TabShape, TabFields
    <3>2. t \in tasks /\ t.at = "loading" /\ ~ Deployed(t)  BY DEF Awaiting, Deployed
    <3>3. CASE tasks' = tasks \ {t}
        BY <2>1, <3>2, <3>3, EndOneEscrow DEF EscrowPageInv, SameEscrow
    <3>4. CASE Becomes(t, [t EXCEPT !.at = "commit", !.arg = r.id]) /\ tab'.busy = tab.busy
      <4>1. OneEscrow => t.verb # "deploy"  BY <3>2 DEF OneEscrow
      <4>2. [t EXCEPT !.at = "commit", !.arg = r.id].verb = t.verb
          BY <1>1, <3>2 DEF TabShape, TaskFields
      <4> QED  BY <2>1, <3>2, <3>4, <4>1, <4>2, MoveOneEscrow DEF EscrowPageInv, SameEscrow
    <3> QED  BY <3>1, <3>3, <3>4
  <2> QED  BY <2>2, <2>3
<1>3. CASE EscrowReadEnds(r)
  <2>1. SameEscrow  BY <1>1, <1>3 DEF EscrowReadEnds, EscrowShape, SameEscrow
  <2>2. tasks' = tasks \ Awaiting(r) /\ \A t \in Awaiting(r) : ~ Deployed(t)
      BY <1>3 DEF EscrowReadEnds, Awaiting, Deployed
  <2>3. tasks' = tasks => Awaiting(r) = {}
      BY <2>2 DEF Awaiting
  <2>4. tasks' = tasks => (tab.busy => tab'.busy)
      BY <1>1, <1>3, <2>3 DEF EscrowReadEnds, TabShape, TabFields
  <2> QED  BY <2>1, <2>2, <2>4, EndOneEscrow DEF EscrowPageInv, SameEscrow
<1>4. CASE EscrowReadRetries(r)
    BY <1>1, <1>4, UnchangedSame, EndOneEscrow DEF EscrowReadRetries, EscrowPageInv, SameEscrow
<1> QED  BY <1>2, <1>3, <1>4

\* The address bar, the round's buttons and those of the escrow, the tabs.
LEMMA GesturesKeepEscrow ==
    ASSUME PassInv, EscrowPageInv,
           \/ EscrowHashChange \/ EscrowRoundClicks \/ EscrowClicks \/ EscrowReload
           \/ (\E x : SetMode(x) \/ SelectProposal(x))
           \/ UNCHANGED escrowVars /\ \E x : GoTo(x) \/ Connect(x) \/ (x \in tasks /\ TaskReturns(x))
    PROVE  EscrowPageInv'
<1>1. TabShape /\ EscrowShape  BY DEF PassInv, EscrowPageInv
<1>2. CASE EscrowHashChange
  <2>1. SameEscrow  BY <1>1, <1>2 DEF EscrowHashChange, EscrowShape, SameEscrow
  <2>2. UNCHANGED tasks /\ tab'.busy = tab.busy
      BY <1>1, <1>2 DEF EscrowHashChange, TabShape, TabFields
  <2> QED  BY <2>1, <2>2, EndOneEscrow DEF EscrowPageInv, SameEscrow
<1>3. CASE EscrowRoundClicks \/ EscrowClicks
  <2>1. SameEscrow  BY <1>1, <1>3, UnchangedSame DEF EscrowRoundClicks, EscrowClicks
  <2>2. PICK verb, id, arg : Click(verb, id, arg) /\ (verb = "deploy" => ~ escrowSubmissionStarted)
      BY <1>3 DEF EscrowRoundClicks, EscrowClicks
  <2> QED  BY <1>1, <2>1, <2>2, ClickOneEscrow DEF EscrowPageInv, SameEscrow
<1>4. CASE EscrowReload
  <2>1. SameEscrow  BY <1>1, <1>4, UnchangedSame DEF EscrowReload
  <2>2. PICK u : /\ tasks' = tasks \cup {u}
                 /\ u.verb = "load" /\ u.at = "refreshing"
    <3>1. PICK id : tasks' = tasks \cup {[TaskOf("load", id, NoRound) EXCEPT !.at = "refreshing"]}
        BY <1>4 DEF EscrowReload
    <3>2. [TaskOf("load", id, NoRound) EXCEPT !.at = "refreshing"].verb = "load"  BY DEF TaskOf
    <3>3. [TaskOf("load", id, NoRound) EXCEPT !.at = "refreshing"].at = "refreshing"  BY DEF TaskOf
    <3> QED  BY <3>1, <3>2, <3>3
  <2>3. ~ tab.busy /\ tab'.busy  BY <1>1, <1>4 DEF EscrowReload, Gesture, TabShape, TabFields
  <2> QED
      BY <2>1, <2>2, <2>3
      DEF EscrowPageInv, SameEscrow, OneEscrow, escrowSubmissionStarted, OneTask, Deployed
<1>5. ASSUME NEW x, SetMode(x) \/ SelectProposal(x)  PROVE EscrowPageInv'
  <2>1. SameEscrow
    <3>1. CASE SetMode(x)
        BY <1>1, <3>1, AutoSelectSame DEF SetMode, EscrowShape, SameEscrow
    <3>2. CASE SelectProposal(x)  BY <1>1, <3>2 DEF SelectProposal, EscrowShape, SameEscrow
    <3> QED  BY <1>5, <3>1, <3>2
  <2>2. UNCHANGED tasks /\ tab'.busy = tab.busy
      BY <1>1, <1>5 DEF SetMode, SelectProposal, Gesture, TabShape, TabFields
  <2> QED  BY <2>1, <2>2, EndOneEscrow DEF EscrowPageInv, SameEscrow
<1>6. ASSUME UNCHANGED escrowVars, NEW x, GoTo(x) \/ Connect(x)  PROVE EscrowPageInv'
  <2>1. UNCHANGED tasks /\ tab'.busy = tab.busy
      BY <1>1, <1>6 DEF GoTo, Connect, Gesture, TabShape, TabFields
  <2> QED  BY <1>1, <1>6, <2>1, UnchangedSame, EndOneEscrow DEF EscrowPageInv, SameEscrow
<1>7. ASSUME UNCHANGED escrowVars, NEW x \in tasks, TaskReturns(x)  PROVE EscrowPageInv'
  <2>1. tasks' = tasks \ {x} /\ ~ Deployed(x)  BY <1>7 DEF TaskReturns, Finish, Deployed
  <2> QED  BY <1>1, <1>7, <2>1, UnchangedSame, EndOneEscrow DEF EscrowPageInv, SameEscrow
<1> QED  BY <1>2, <1>3, <1>4, <1>5, <1>6, <1>7

\* The workspace forgets, or is loaded anew.
LEMMA ResetsKeepEscrow ==
    ASSUME PassInv, EscrowPageInv, ClearEvidence \/ ResetWorkspace \/ EscrowPageReload
    PROVE  EscrowPageInv'
<1>1. TabShape /\ EscrowShape  BY DEF PassInv, EscrowPageInv
<1>2. CASE ClearEvidence  BY <1>1, <1>2 DEF ClearEvidence, EscrowShape, EscrowPageInv
<1>3. CASE ResetWorkspace
  <2>1. /\ EscrowShape' /\ work'.tx = FALSE /\ work'.contract = NoEscrow
        /\ service'.escrows = service.escrows
        /\ ~ service'.lost => ~ service.lost /\ ~ escrowSubmissionStarted
      BY <1>1, <1>3 DEF ResetWorkspace, EscrowShape
  <2>2. ~ tab.busy /\ UNCHANGED tasks  BY <1>3 DEF ResetWorkspace
  <2> QED
      BY <2>1, <2>2 DEF EscrowPageInv, OneEscrow, escrowSubmissionStarted, OneTask, Deployed
<1>4. CASE EscrowPageReload
  <2>1. /\ EscrowShape' /\ work'.tx = work.tx /\ work'.contract = work.contract
        /\ service'.escrows = service.escrows
        /\ ~ service'.lost => ~ service.lost /\ \A t \in tasks : t.at # "deployed"
      BY <1>1, <1>4 DEF EscrowPageReload, EscrowShape
  <2>2. tasks' = {}  BY <1>4 DEF EscrowPageReload
  <2> QED
      BY <2>1, <2>2 DEF EscrowPageInv, OneEscrow, escrowSubmissionStarted, OneTask, Deployed
<1> QED  BY <1>2, <1>3, <1>4

\* The handlers that have nothing to do with the escrow.
LEMMA RoundTasksKeepEscrow ==
    ASSUME PassInv, EscrowPageInv, NEW t \in tasks,
           \/ UNCHANGED escrowVars /\ PassNext(t)
           \/ EscrowTaskFails(t) \/ EscrowCreates(t) \/ EscrowLoadsForSubmit(t)
           \/ EscrowCommits(t) \/ EscrowCommitPending(t) \/ EscrowRevealEnds(t)
    PROVE  EscrowPageInv'
<1>1. TabShape /\ EscrowShape  BY DEF PassInv, EscrowPageInv
<1>2. CASE UNCHANGED escrowVars /\ PassNext(t)
  <2>1. PICK u : Becomes(t, u) /\ u.verb = t.verb
    <3>1. DOMAIN t = TaskFields  BY <1>1 DEF TabShape
    <3>2. CASE PassOpen(t)  BY <3>1, <3>2 DEF PassOpen, Goes, TaskFields
    <3>3. CASE PassList(t)
      <4>1. [t EXCEPT !.at = "each", !.left = Sealed(t.id)].verb = t.verb  BY <3>1 DEF TaskFields
      <4> QED  BY <3>3, <4>1 DEF PassList
    <3>4. CASE PassEach(t)  BY <3>1, <3>4 DEF PassEach, TaskFields
    <3> QED  BY <1>2, <3>2, <3>3, <3>4 DEF PassNext
  <2>2. t.verb = "reveal" /\ UNCHANGED tab
      BY <1>2 DEF PassNext, PassOpen, PassList, PassEach, Calls
  <2> QED  BY <1>1, <1>2, <2>1, <2>2, UnchangedSame, MoveOneEscrow DEF EscrowPageInv, SameEscrow
<1>3. CASE EscrowTaskFails(t)
  <2>1. /\ EscrowShape' /\ work' = work /\ service'.escrows = service.escrows
        /\ ~ service'.lost => ~ service.lost /\ t.at # "deployed"
      BY <1>1, <1>3 DEF EscrowTaskFails, EscrowShape
  <2>2. tasks' = tasks \ {t}  BY <1>3 DEF EscrowTaskFails, TaskFails, Finish
  <2> QED
      BY <2>1, <2>2 DEF EscrowPageInv, OneEscrow, escrowSubmissionStarted, OneTask, Deployed
<1>4. CASE EscrowCreates(t)
  <2>1. SameEscrow  BY <1>1, <1>4 DEF EscrowCreates, EscrowShape, SameEscrow
  <2>2. tasks' = tasks \ {t} /\ ~ Deployed(t)  BY <1>4 DEF EscrowCreates, Calls, Deployed
  <2> QED  BY <2>1, <2>2, EndOneEscrow DEF EscrowPageInv, SameEscrow
<1>5. CASE EscrowLoadsForSubmit(t) \/ EscrowCommits(t)
  <2>1. SameEscrow  BY <1>1, <1>5, UnchangedSame DEF EscrowLoadsForSubmit, EscrowCommits
  <2>2. PICK u : Becomes(t, u) /\ u.verb = t.verb
      BY <1>1, <1>5 DEF EscrowLoadsForSubmit, EscrowCommits, Goes, TabShape, TaskFields
  <2>3. t.verb = "submit" /\ UNCHANGED tab
      BY <1>5 DEF EscrowLoadsForSubmit, EscrowCommits, Calls
  <2> QED  BY <2>1, <2>2, <2>3, MoveOneEscrow DEF EscrowPageInv, SameEscrow
<1>6. CASE EscrowCommitPending(t)
  <2>1. SameEscrow  BY <1>1, <1>6, UnchangedSame DEF EscrowCommitPending
  <2>2. UNCHANGED tasks /\ tab'.busy = tab.busy
      BY <1>1, <1>6 DEF EscrowCommitPending, TabShape, TabFields
  <2> QED  BY <2>1, <2>2, EndOneEscrow DEF EscrowPageInv, SameEscrow
<1>7. CASE EscrowRevealEnds(t)
  <2>1. SameEscrow  BY <1>1, <1>7, UnchangedSame DEF EscrowRevealEnds
  <2>2. tasks' = tasks \ {t} /\ ~ Deployed(t)
      BY <1>7 DEF EscrowRevealEnds, PassThrough, Finish, Deployed
  <2> QED  BY <2>1, <2>2, EndOneEscrow DEF EscrowPageInv, SameEscrow
<1> QED  BY <1>2, <1>3, <1>4, <1>5, <1>6, <1>7

\* The handlers of the escrow: deployed, answered, recovered, found, funded.
LEMMA EscrowTasksKeepEscrow ==
    ASSUME PassInv, EscrowPageInv,
           \/ RecoverEscrow
           \/ \E t \in tasks : EscrowDeploys(t)
           \/ \E t \in tasks : \E tx, named \in BOOLEAN : EscrowAnswered(t, tx, named)
           \/ \E t \in tasks : \E e \in 1 .. MaxEscrows : EscrowFound(t, e) \/ EscrowFunded(t, e)
    PROVE  EscrowPageInv'
<1>1. TabShape /\ EscrowShape  BY DEF PassInv, EscrowPageInv
<1>2. CASE RecoverEscrow
  <2>1. /\ EscrowShape' /\ work'.tx = work.tx /\ work'.contract = work.contract
        /\ work.tx /\ UNCHANGED service
      BY <1>1, <1>2 DEF RecoverEscrow, EscrowShape
  <2>2. PICK u : tasks' = tasks \cup {u} /\ u.verb = "sync"
    <3>1. TaskOf("sync", Engagement, NoRound).verb = "sync"  BY DEF TaskOf
    <3> QED  BY <1>2, <3>1 DEF RecoverEscrow
  <2> QED  BY <2>1, <2>2 DEF EscrowPageInv, OneEscrow, escrowSubmissionStarted
<1>3. ASSUME NEW t \in tasks, EscrowDeploys(t)  PROVE EscrowPageInv'
  <2>1. SUFFICES ASSUME ~ service.lost  PROVE OneEscrow'  /\ EscrowShape'
      BY <1>1, <1>3 DEF EscrowDeploys, EscrowPageInv, EscrowShape
  <2>2. /\ t.verb = "deploy" /\ t.at = "call" /\ UNCHANGED <<work, tab>>
        /\ service' = [service EXCEPT !.escrows = Append(@, t.id)]
      BY <1>3 DEF EscrowDeploys, Calls
  <2>3. /\ ~ escrowSubmissionStarted /\ OneTask /\ service.escrows = <<>>
      BY <2>1, <2>2 DEF EscrowPageInv, OneEscrow, OneTask, Deployed
  <2>4. service'.escrows = <<t.id>> /\ EscrowShape'
      BY <1>1, <2>2, <2>3 DEF EscrowShape
  <2>5. PICK u : u = [t EXCEPT !.at = "deployed", !.left = {1}]  OBVIOUS
  <2>6. u.verb = "deploy" /\ u.at = "deployed" /\ u.left = {1}
      BY <1>1, <2>2, <2>5 DEF TabShape, TaskFields
  <2>7. tasks' = {u}
    <3>1. Len(service.escrows) + 1 = 1  BY <2>3
    <3>2. Becomes(t, u)  BY <1>3, <2>5, <3>1 DEF EscrowDeploys
    <3> QED  BY <2>3, <3>2 DEF Becomes, OneTask
  <2>8. tab.busy  BY <2>3 DEF OneTask
  <2> QED
      BY <2>2, <2>3, <2>4, <2>6, <2>7, <2>8 DEF OneEscrow, OneTask, Deployed, escrowSubmissionStarted
<1>4. ASSUME NEW t \in tasks, NEW tx \in BOOLEAN, NEW named \in BOOLEAN, EscrowAnswered(t, tx, named)
      PROVE  EscrowPageInv'
  <2>1. EscrowShape' /\ service'.escrows = service.escrows
      BY <1>1, <1>4 DEF EscrowAnswered, EscrowShape
  <2>2. SUFFICES ASSUME ~ service'.lost  PROVE OneEscrow'
      BY <2>1 DEF EscrowPageInv
  <2>3. ~ service.lost /\ (tx \/ named)  BY <1>1, <1>4, <2>2 DEF EscrowAnswered, EscrowShape
  <2>4. /\ t.verb = "deploy" /\ t.at = "deployed"
      BY <1>4 DEF EscrowAnswered
  <2>5. ~ escrowSubmissionStarted /\ OneTask /\ t.left = {1}
      BY <2>3, <2>4 DEF EscrowPageInv, OneEscrow, Deployed
  <2>6. named => work'.contract = 1
    <3>1. named => work'.contract = CHOOSE e \in {1} : TRUE
        BY <1>1, <1>4, <2>5 DEF EscrowAnswered, EscrowShape
    <3>2. (CHOOSE e \in {1} : TRUE) = 1  OBVIOUS
    <3> QED  BY <3>1, <3>2
  <2>7. tx => work'.tx  BY <1>1, <1>4 DEF EscrowAnswered, EscrowShape
  <2>8. escrowSubmissionStarted'
      BY <2>3, <2>6, <2>7, EscrowAssumption DEF escrowSubmissionStarted
  <2>9. \A u \in tasks' : u.verb = "sync"
    <3>1. TaskOf("sync", t.id, NoRound).verb = "sync"  BY DEF TaskOf
    <3>2. tasks' \subseteq (tasks \ {t}) \cup {TaskOf("sync", t.id, NoRound)}
        BY <1>4 DEF EscrowAnswered
    <3> QED  BY <2>5, <3>1, <3>2 DEF OneTask
  <2> QED  BY <2>1, <2>3, <2>8, <2>9 DEF EscrowPageInv, OneEscrow
<1>5. ASSUME NEW t \in tasks, NEW e \in 1 .. MaxEscrows, EscrowFound(t, e) \/ EscrowFunded(t, e)
      PROVE  EscrowPageInv'
  <2>1. EscrowShape' /\ service'.escrows = service.escrows /\ service'.lost = service.lost
      BY <1>1, <1>5 DEF EscrowFound, EscrowFunded, EscrowShape
  <2>2. SUFFICES ASSUME ~ service.lost  PROVE OneEscrow'
      BY <2>1 DEF EscrowPageInv
  <2>3. t.verb # "deploy" /\ tasks' = tasks \ {t} /\ e \in Candidates
      BY <1>5 DEF EscrowFound, EscrowFunded, Calls, Finish
  <2>4. escrowSubmissionStarted
    <3>1. SUFFICES ASSUME ~ escrowSubmissionStarted  PROVE FALSE  OBVIOUS
    <3>2. service.escrows = <<>>
        BY <2>2, <2>3, <3>1 DEF EscrowPageInv, OneEscrow, OneTask, Deployed
    <3>3. Candidates = {}  BY <3>1, <3>2 DEF Candidates, escrowSubmissionStarted
    <3> QED  BY <2>3, <3>3
  <2>5. work'.contract # NoEscrow
    <3>1. e # NoEscrow  BY EscrowAssumption
    <3> QED  BY <1>1, <1>5, <3>1 DEF EscrowFound, EscrowFunded, EscrowShape
  <2> QED
      BY <2>1, <2>2, <2>3, <2>4, <2>5 DEF EscrowPageInv, OneEscrow, escrowSubmissionStarted
<1> QED  BY <1>2, <1>3, <1>4, <1>5

\* The steps of the Trustless Work page.
LEMMA EscrowNextKeepsEscrow ==
    ASSUME PassInv, EscrowPageInv, EscrowNext
    PROVE  EscrowPageInv'
BY ShowKeepsEscrow, GesturesKeepEscrow, ResetsKeepEscrow, RoundTasksKeepEscrow,
   EscrowTasksKeepEscrow
DEF EscrowNext

\* For an engagement a second escrow is deployed only if the page was never
\* told of the first or was told to forget it, for any number of escrows.
THEOREM OneEscrowOnly == SpecPilots => []NoSecondEscrow
<1>1. InitPilots => EscrowInv
    BY DEF InitPilots, TabInit, EscrowInit, EscrowInv, EscrowPageInv, EscrowShape, OneEscrow,
           escrowSubmissionStarted, OneTask, Deployed
<1>2. PassInv /\ EscrowInv /\ [NextPilots]_pilotVars => EscrowInv'
  <2>1. ASSUME EscrowInv, UNCHANGED escrowVars, UNCHANGED page, UNCHANGED <<tab, tasks>>
        PROVE  EscrowInv'
      BY <2>1
      DEF EscrowInv, EscrowPageInv, EscrowShape, OneEscrow, escrowSubmissionStarted, OneTask,
          Deployed, escrowVars
  <2>2. ASSUME EscrowInv, UNCHANGED escrowVars, UNCHANGED page, page # "trustless"
        PROVE  EscrowInv'
      BY <2>2 DEF EscrowInv, EscrowShape, escrowVars
  <2>3. ASSUME PassInv, EscrowInv, page = "trustless", EscrowNext, UNCHANGED page
        PROVE  EscrowInv'
      BY <2>3, EscrowNextKeepsEscrow DEF EscrowInv, EscrowPageInv
  <2> QED  BY <2>1, <2>2, <2>3, StepKeepsPass DEF NextPilots, pilotVars, tabVars
<1>3. EscrowInv => NoSecondEscrow
  <2>1. SUFFICES ASSUME EscrowInv, ~ service.lost, NEW m \in DOMAIN service.escrows,
                        NEW n \in DOMAIN service.escrows
                 PROVE  m = n
      BY DEF NoSecondEscrow
  <2>2. service.escrows = <<>> \/ service.escrows = <<service.escrows[1]>>
      BY <2>1 DEF EscrowInv, EscrowPageInv, OneEscrow
  <2> QED  BY <2>1, <2>2
<1> QED  BY <1>1, <1>2, <1>3, InitPass, StepKeepsPass, PTL DEF SpecPilots

---------------------------------------------------------------------------
(* Sealed for the round it is committed to: the Trustless Work page and    *)
(* the OpenX402 page.                                                      *)

SealsOwn == \A id \in PilotRound, w \in Wallet : rounds[id].seal[w] \in {NoRound, id}

\* No seal is new but one for its own round.
LEMMA CallsKeepSeals ==
    ASSUME ChainShape, SealsOwn
    PROVE  /\ UNCHANGED rounds => SealsOwn'
           /\ \A id, mode, w : CreateRound(id, mode, w) => SealsOwn'
           /\ \A id, w : CommitTo(id, w, id) => SealsOwn'
           /\ \A id : OpenReveal(id) => SealsOwn'
           /\ \A id, w : RevealOf(id, w) => SealsOwn'
           /\ \A id : ClearRound(id) \/ SettleRound(id) \/ VoidRound(id) => SealsOwn'
<1>1. UNCHANGED rounds => SealsOwn'  BY DEF SealsOwn
<1>2. ASSUME NEW id, NEW mode, NEW w, CreateRound(id, mode, w)  PROVE SealsOwn'
    BY <1>2 DEF CreateRound, Fresh, Unused, ChainShape, RoundFields, SealsOwn
<1>3. ASSUME NEW id, NEW w, CommitTo(id, w, id)  PROVE SealsOwn'
    BY <1>3 DEF CommitTo, Exists, ChainShape, RoundFields, SealsOwn
<1>4. ASSUME NEW id, OpenReveal(id)  PROVE SealsOwn'
    BY <1>4 DEF OpenReveal, Exists, ChainShape, RoundFields, SealsOwn
<1>5. ASSUME NEW id, NEW w, RevealOf(id, w)  PROVE SealsOwn'
    BY <1>5 DEF RevealOf, ChainShape, RoundFields, SealsOwn
<1>6. ASSUME NEW id, ClearRound(id) \/ SettleRound(id) \/ VoidRound(id)  PROVE SealsOwn'
    BY <1>6 DEF ClearRound, SettleRound, VoidRound, Exists, ChainShape, RoundFields, SealsOwn
<1> QED  BY <1>1, <1>2, <1>3, <1>4, <1>5, <1>6

\* Others seal for the round they commit to.
LEMMA OthersKeepSeals ==
    ASSUME ChainShape, SealsOwn, ChainNext
    PROVE  SealsOwn'
<1> PICK id \in PilotRound : TimePasses(id) \/ OthersAct(id)  BY DEF ChainNext
<1>1. CASE TimePasses(id)  BY <1>1, CallsKeepSeals DEF TimePasses
<1>2. CASE OthersAct(id)  BY <1>2, CallsKeepSeals DEF OthersAct
<1> QED  BY <1>1, <1>2

\* And so does a reveal pass, which commits nothing.
LEMMA PassKeepsSeals ==
    ASSUME ChainShape, SealsOwn, NEW t \in tasks, PassNext(t)
    PROVE  SealsOwn'
BY CallsKeepSeals DEF PassNext, PassOpen, PassList, PassEach, chainVars

---------------------------------------------------------------------------
\* A submission of the Trustless Work page that is about to be committed.
OwnCommit(t) == t.verb = "submit" /\ t.at = "commit" => t.arg = t.id
OwnNew == \A u \in tasks' : u \in tasks \/ OwnCommit(u)

\* It gets there only by the refresh that read its round again.
LEMMA EscrowCommitsOwn ==
    ASSUME TabShape, EscrowNext
    PROVE  OwnNew
<1>1. ASSUME NEW r \in reads, EscrowShow(r)  PROVE OwnNew
  <2>1. ASSUME NEW u \in tasks' \ tasks  PROVE OwnCommit(u)
    <3>1. PICK t \in tasks : t.id = r.id /\ u = [t EXCEPT !.at = "commit", !.arg = r.id]
        BY <1>1, <2>1 DEF EscrowShow, Awaiting, Becomes
    <3> QED  BY <3>1 DEF TabShape, OwnCommit, TaskFields
  <2> QED  BY <2>1 DEF OwnNew
<1>2. ASSUME NEW verb, NEW id, NEW arg, Click(verb, id, arg)  PROVE OwnNew
    BY <1>2 DEF Click, TaskOf, OwnNew, OwnCommit
<1>3. ASSUME tasks' \subseteq tasks  PROVE OwnNew  BY <1>3 DEF OwnNew
<1>4. ASSUME EscrowReload  PROVE OwnNew
  <2>1. PICK id : tasks' = tasks \cup {[TaskOf("load", id, NoRound) EXCEPT !.at = "refreshing"]}
      BY <1>4 DEF EscrowReload
  <2>2. OwnCommit([TaskOf("load", id, NoRound) EXCEPT !.at = "refreshing"])
      BY DEF OwnCommit, TaskOf
  <2> QED  BY <2>1, <2>2 DEF OwnNew
<1>5. ASSUME RecoverEscrow  PROVE OwnNew
  <2>1. OwnCommit(TaskOf("sync", Engagement, NoRound))  BY DEF OwnCommit, TaskOf
  <2> QED  BY <1>5, <2>1 DEF RecoverEscrow, OwnNew
<1>6. ASSUME NEW t \in tasks, NEW at, Goes(t, at), at # "commit"  PROVE OwnNew
    BY <1>6 DEF Goes, Becomes, TabShape, TaskFields, OwnNew, OwnCommit
<1>7. ASSUME NEW t \in tasks, PassNext(t)  PROVE OwnNew
  <2>1. DOMAIN t = TaskFields  BY DEF TabShape
  <2>2. CASE PassOpen(t)  BY <1>6, <2>2 DEF PassOpen
  <2>3. CASE PassList(t)
    <3>1. OwnCommit([t EXCEPT !.at = "each", !.left = Sealed(t.id)])
        BY <2>1 DEF OwnCommit, TaskFields
    <3> QED  BY <2>3, <3>1 DEF PassList, Becomes, OwnNew
  <2>4. CASE PassEach(t)
    <3>1. PICK w : Becomes(t, [t EXCEPT !.left = @ \ {w}])  BY <2>4 DEF PassEach
    <3>2. OwnCommit([t EXCEPT !.left = @ \ {w}])
        BY <2>1, <2>4 DEF PassEach, OwnCommit, TaskFields
    <3> QED  BY <3>1, <3>2 DEF Becomes, OwnNew
  <2> QED  BY <1>7, <2>2, <2>3, <2>4 DEF PassNext
<1>8. ASSUME NEW t \in tasks, EscrowDeploys(t)  PROVE OwnNew
  <2>1. PICK n : Becomes(t, [t EXCEPT !.at = "deployed", !.left = n])  BY <1>8 DEF EscrowDeploys
  <2>2. OwnCommit([t EXCEPT !.at = "deployed", !.left = n])
      BY <1>8 DEF TabShape, TaskFields, OwnCommit
  <2> QED  BY <2>1, <2>2 DEF Becomes, OwnNew
<1>9. ASSUME NEW t \in tasks, NEW tx, NEW named, EscrowAnswered(t, tx, named)  PROVE OwnNew
  <2>1. OwnCommit(TaskOf("sync", t.id, NoRound))  BY DEF OwnCommit, TaskOf
  <2> QED  BY <1>9, <2>1 DEF EscrowAnswered, OwnNew
<1>10. ASSUME NEW t \in tasks, EscrowLoadsForSubmit(t) \/ EscrowCommits(t)  PROVE OwnNew
    BY <1>6, <1>10 DEF EscrowLoadsForSubmit, EscrowCommits
<1>11. ASSUME NEW t \in tasks,
              \/ EscrowTaskFails(t) \/ TaskReturns(t) \/ EscrowCreates(t)
              \/ EscrowCommitPending(t) \/ EscrowRevealEnds(t)
       PROVE OwnNew
    BY <1>3, <1>11
    DEF EscrowTaskFails, TaskFails, TaskReturns, EscrowCreates, EscrowCommitPending,
        EscrowRevealEnds, Finish
<1>12. ASSUME NEW t \in tasks, NEW e, EscrowFound(t, e) \/ EscrowFunded(t, e)  PROVE OwnNew
    BY <1>3, <1>12 DEF EscrowFound, EscrowFunded, Finish
<1>13. ASSUME NEW x,
              \/ EscrowReadEnds(x) \/ EscrowReadRetries(x) \/ SetMode(x) \/ SelectProposal(x)
              \/ GoTo(x) \/ Connect(x)
       PROVE OwnNew
    BY <1>3, <1>13
    DEF EscrowReadEnds, EscrowReadRetries, SetMode, SelectProposal, GoTo, Connect
<1>14. ASSUME EscrowHashChange \/ ClearEvidence \/ ResetWorkspace \/ EscrowPageReload
       PROVE OwnNew
    BY <1>3, <1>14 DEF EscrowHashChange, ClearEvidence, ResetWorkspace, EscrowPageReload
<1>15. ASSUME EscrowRoundClicks \/ EscrowClicks  PROVE OwnNew
    BY <1>2, <1>15 DEF EscrowRoundClicks, EscrowClicks
<1> QED
    BY <1>1, <1>4, <1>5, <1>7, <1>8, <1>9, <1>10, <1>11, <1>12, <1>13, <1>14, <1>15 DEF EscrowNext

\* The seals it commits.
LEMMA EscrowKeepsSeals ==
    ASSUME ChainShape, SealsOwn, \A t \in tasks : OwnCommit(t), EscrowNext
    PROVE  SealsOwn'
<1>1. CASE UNCHANGED chainVars  BY <1>1, CallsKeepSeals DEF chainVars
<1>2. ASSUME NEW t \in tasks, EscrowCommits(t)  PROVE SealsOwn'
  <2>1. CommitTo(t.id, t.by, t.id)  BY <1>2 DEF EscrowCommits, CommitTarget, OwnCommit
  <2> QED  BY <2>1, CallsKeepSeals
<1>3. ASSUME NEW t \in tasks, EscrowCreates(t)  PROVE SealsOwn'
    BY <1>3, CallsKeepSeals DEF EscrowCreates
<1>4. ASSUME NEW t \in tasks,
             \/ EscrowLoadsForSubmit(t) \/ EscrowCommitPending(t) \/ EscrowRevealEnds(t)
             \/ EscrowDeploys(t)
      PROVE  UNCHANGED chainVars
    BY <1>4 DEF EscrowLoadsForSubmit, EscrowCommitPending, EscrowRevealEnds, EscrowDeploys
<1>5. ASSUME NEW t \in tasks, NEW x, NEW y,
             EscrowAnswered(t, x, y) \/ EscrowFound(t, x) \/ EscrowFunded(t, x)
      PROVE  UNCHANGED chainVars
    BY <1>5 DEF EscrowAnswered, EscrowFound, EscrowFunded
<1> QED  BY <1>1, <1>2, <1>3, <1>4, <1>5, PassKeepsSeals DEF EscrowNext

---------------------------------------------------------------------------
\* The OpenX402 page: one handler at a time; the round it shows is the one it
\* names; without one, no refresh but a handler's own is under way, and while
\* a round is being created nothing else is read or shown.
MarketTask(t) ==
    /\ Calls(t, "submit") => t.arg = t.id
    /\ Calls(t, "create") => reads = {} /\ ~ Shows

MarketSound ==
    /\ OneTask
    /\ Shows => tab.id \in PilotRound /\ tab.round.id = tab.id
    /\ tab.id = NoRound => \A r \in reads : \E t \in tasks : t.verb = r.by /\ t.at = "refreshing"
    /\ \A t \in tasks : MarketTask(t)

\* No handler is under way while the page is not busy.
LEMMA NotBusy ==
    ASSUME OneTask, ~ tab.busy
    PROVE  tasks = {}
BY DEF OneTask

\* A refresh shows its round.
LEMMA MarketShowSound ==
    ASSUME TabShape, MarketSound, NEW r \in reads, MarketShow(r)
    PROVE  MarketSound'
<1>1. /\ tab'.id = r.id /\ r.id \in PilotRound
      /\ tab'.round = Snapshot(r.id) /\ tab'.busy = tab.busy
    BY DEF MarketShow, Exists, HashSet, TabShape, TabFields
<1>2. tab'.round.id = tab'.id  BY <1>1 DEF Snapshot
<1>3. UNCHANGED tasks /\ \A t \in tasks : ~ Calls(t, "create")
    BY DEF MarketShow, MarketSound, MarketTask
<1>4. OneTask'  BY <1>1, <1>3 DEF MarketSound, OneTask
<1>5. \A t \in tasks : MarketTask(t)'  BY <1>3 DEF MarketSound, MarketTask, Calls
<1>6. tab'.id # NoRound  BY <1>1, PilotAssumption
<1> QED  BY <1>1, <1>2, <1>3, <1>4, <1>5, <1>6 DEF MarketSound

\* Its buttons: a submission is sealed for the round it names, and a round is
\* created only when none is named.
LEMMA MarketClicksSound ==
    ASSUME TabShape, MarketSound, MarketClicks
    PROVE  MarketSound'
<1>1. PICK verb, id, arg :
        /\ Click(verb, id, arg)
        /\ verb = "create" => tab.id = NoRound
        /\ verb = "submit" => Shows /\ id = tab.id /\ arg = tab.round.id
    BY DEF MarketClicks
<1>2. /\ ~ tab.busy /\ tab'.busy /\ tab'.id = tab.id /\ tab'.round = tab.round
      /\ UNCHANGED reads /\ tasks' = tasks \cup {TaskOf(verb, id, arg)}
    BY <1>1 DEF Click, Gesture, TabShape, TabFields
<1>3. tasks = {}  BY <1>2, NotBusy DEF MarketSound
<1> DEFINE t == TaskOf(verb, id, arg)
<1>4. t.verb = verb /\ t.id = id /\ t.arg = arg  BY DEF TaskOf
<1>5. tab.id = NoRound => reads = {} /\ ~ Shows  BY <1>3, PilotAssumption DEF MarketSound
<1>6. PICK u : u = t  OBVIOUS
<1>7. tasks' = {u} /\ u.verb = verb /\ u.id = id /\ u.arg = arg  BY <1>2, <1>3, <1>4, <1>6
<1>8. OneTask'  BY <1>2, <1>7 DEF OneTask
<1>9. MarketTask(u)'
    BY <1>1, <1>2, <1>5, <1>7 DEF MarketTask, Calls, Shows, MarketSound
<1> QED  BY <1>2, <1>5, <1>7, <1>8, <1>9 DEF MarketSound, Shows

\* The pages' gestures that leave the round: nothing is read or shown then.
LEMMA MarketLeavesSound ==
    ASSUME TabShape, MarketSound, MarketReset \/ MarketStartsAnew \/ \E m : MarketSwitchMode(m)
    PROVE  MarketSound'
<1>1. /\ tab'.round = NoData /\ tab'.busy = tab.busy
      /\ reads' = {} /\ UNCHANGED tasks
    BY DEF MarketReset, MarketStartsAnew, MarketSwitchMode, NextGeneration, Gesture, HashSet,
           TabShape, TabFields
<1>2. OneTask'  BY <1>1 DEF MarketSound, OneTask
<1> QED  BY <1>1, <1>2 DEF MarketSound, MarketTask, Calls, Shows

\* The page loaded anew, and a round loaded.
LEMMA MarketReloadSound ==
    ASSUME TabShape, MarketSound, MarketPageReload \/ \E id \in PilotRound : MarketLoad(id)
    PROVE  MarketSound'
<1>1. ASSUME MarketPageReload  PROVE MarketSound'
  <2>1. tab'.round = NoData /\ tasks' = {} /\ (tab'.id = NoRound => reads' = {})
      BY <1>1 DEF MarketPageReload, StartReadUnlessNone, Gesture, TabShape, TabFields
  <2> QED  BY <2>1 DEF MarketSound, OneTask, Shows
<1>2. ASSUME NEW id, MarketLoad(id)  PROVE MarketSound'
  <2>1. /\ ~ tab.busy /\ tab'.busy /\ tab'.id = tab.id /\ tab'.round = tab.round
        /\ reads' = {[id |-> id, by |-> "load", newest |-> TRUE]}
      BY <1>2 DEF MarketLoad, StartRead, Gesture, TabShape, TabFields
  <2>2. tasks = {}  BY <2>1, NotBusy DEF MarketSound
  <2>3. PICK u : u = [TaskOf("load", id, NoRound) EXCEPT !.at = "refreshing"]  OBVIOUS
  <2>4. u.verb = "load" /\ u.at = "refreshing"  BY <2>3 DEF TaskOf
  <2>5. tasks' = {u}  BY <1>2, <2>2, <2>3 DEF MarketLoad
  <2>6. OneTask'  BY <2>1, <2>5 DEF OneTask
  <2>7. MarketTask(u)'  BY <2>4 DEF MarketTask, Calls
  <2> QED  BY <2>1, <2>4, <2>5, <2>6, <2>7 DEF MarketSound, Shows
<1> QED  BY <1>1, <1>2

\* The timer, a refresh that fails, another wallet, another selection.
LEMMA MarketTabSound ==
    ASSUME TabShape, MarketSound,
           MarketPolls \/ \E x : MarketSelects(x) \/ Connect(x) \/ (x \in reads /\ ReadFails(x))
    PROVE  MarketSound'
<1>1. ASSUME MarketPolls  PROVE MarketSound'
  <2>1. tasks = {} /\ tab.id # NoRound /\ UNCHANGED <<tab, tasks>>
      BY <1>1, NotBusy DEF MarketPolls, MarketSound
  <2> QED  BY <2>1 DEF MarketSound, OneTask, Shows
<1>2. ASSUME NEW x, MarketSelects(x) \/ Connect(x) \/ (x \in reads /\ ReadFails(x))
      PROVE  MarketSound'
  <2>1. /\ tab'.busy = tab.busy /\ tab'.id = tab.id /\ tab'.round = tab.round
        /\ reads' \subseteq reads /\ UNCHANGED tasks
      BY <1>2 DEF MarketSelects, Connect, ReadFails, Gesture, TabShape, TabFields
  <2>2. OneTask'  BY <2>1 DEF MarketSound, OneTask
  <2>3. \A t \in tasks : MarketTask(t)'
      BY <2>1 DEF MarketSound, MarketTask, Calls, Shows
  <2> QED  BY <2>1, <2>2, <2>3 DEF MarketSound, Shows
<1> QED  BY <1>1, <1>2

\* A handler ends.
LEMMA MarketEndSound ==
    ASSUME TabShape, MarketSound, NEW t \in tasks, TaskReturns(t) \/ TaskFails(t)
    PROVE  MarketSound'
<1>1. tasks' = {}  BY DEF TaskReturns, TaskFails, Finish, MarketSound, OneTask
<1>2. tab'.id = tab.id /\ tab'.round = tab.round /\ UNCHANGED reads
    BY DEF TaskReturns, TaskFails, Finish, TabShape, TabFields
<1>3. tab.id = NoRound => reads = {}
    BY DEF TaskReturns, TaskFails, MarketSound, OneTask
<1> QED  BY <1>1, <1>2, <1>3 DEF MarketSound, OneTask, Shows

\* A handler that was not refreshing goes on, or begins its own refresh.
LEMMA MarketMoveSound ==
    ASSUME MarketSound, NEW t \in tasks, NEW u, Becomes(t, u), t.at # "refreshing",
           u.verb = t.verb, u.at # "call", tab'.busy = tab.busy, tab'.round = tab.round,
           \/ tab'.id = tab.id
           \/ ~ Shows /\ tab'.id \in PilotRound,
           \/ UNCHANGED reads
           \/ u.at = "refreshing" /\ \E r : reads' = reads \cup {r} /\ r.by = t.verb
    PROVE  MarketSound'
<1>1. tasks = {t} /\ tasks' = {u}  BY DEF MarketSound, OneTask, Becomes
<1>2. tab.id = NoRound => reads = {}  BY <1>1 DEF MarketSound
<1>3. OneTask'  BY <1>1 DEF MarketSound, OneTask
<1>4. MarketTask(u)'  BY DEF MarketTask, Calls
<1>5. tab'.id = NoRound => tab.id = NoRound  BY PilotAssumption
<1>6. Shows' => tab'.id \in PilotRound /\ tab'.round.id = tab'.id
    BY DEF MarketSound, Shows
<1>7. tab'.id = NoRound => \A r \in reads' : \E v \in tasks' : v.verb = r.by /\ v.at = "refreshing"
    BY <1>1, <1>2, <1>5
<1> QED  BY <1>1, <1>3, <1>4, <1>6, <1>7 DEF MarketSound

\* The handlers' calls.
LEMMA MarketTasksSound ==
    ASSUME TabShape, MarketSound, NEW t \in tasks,
           PassNext(t) \/ MarketCreates(t) \/ MarketCommits(t) \/ MarketRevealEnds(t)
    PROVE  MarketSound'
<1>1. DOMAIN t = TaskFields  BY DEF TabShape
<1>2. CASE PassOpen(t)
  <2>1. PICK u : u = [t EXCEPT !.at = "list"]  OBVIOUS
  <2> QED
      BY <1>1, <1>2, <2>1, MarketMoveSound DEF PassOpen, Goes, Calls, TaskFields
<1>3. CASE PassList(t)
  <2>1. PICK u : u = [t EXCEPT !.at = "each", !.left = Sealed(t.id)]  OBVIOUS
  <2>2. u.verb = t.verb /\ u.at = "each"  BY <1>1, <2>1 DEF TaskFields
  <2> QED  BY <1>3, <2>1, <2>2, MarketMoveSound DEF PassList
<1>4. CASE PassEach(t)
  <2>1. PICK w : Becomes(t, [t EXCEPT !.left = @ \ {w}])  BY <1>4 DEF PassEach
  <2>2. PICK u : u = [t EXCEPT !.left = @ \ {w}]  OBVIOUS
  <2>3. u.verb = t.verb /\ u.at = t.at  BY <1>1, <2>2 DEF TaskFields
  <2> QED  BY <1>4, <2>1, <2>2, <2>3, MarketMoveSound DEF PassEach
<1>5. ASSUME NEW id, Goes(t, "refreshing"), ReadInGeneration(id, t.verb), t.at # "refreshing",
             tab'.busy = tab.busy, tab'.round = tab.round,
             tab'.id = tab.id \/ (~ Shows /\ tab'.id \in PilotRound)
      PROVE  MarketSound'
  <2>1. PICK u : u = [t EXCEPT !.at = "refreshing"]  OBVIOUS
  <2>2. u.verb = t.verb /\ u.at = "refreshing"  BY <1>1, <2>1 DEF TaskFields
  <2>3. PICK r : r = [id |-> id, by |-> t.verb, newest |-> TRUE]  OBVIOUS
  <2>4. reads' = reads \cup {r} /\ r.by = t.verb  BY <1>5, <2>3 DEF ReadInGeneration
  <2>5. Becomes(t, u)  BY <1>5, <2>1 DEF Goes
  <2> QED  BY <1>5, <2>2, <2>4, <2>5, MarketMoveSound
<1>6. CASE MarketCreates(t)
  <2>1. PICK id \in PilotRound :
            /\ tab' = [HashSet(id) EXCEPT !.event = FALSE, !.id = id]
            /\ Goes(t, "refreshing") /\ ReadInGeneration(id, "create")
      BY <1>6 DEF MarketCreates
  <2>2. tab'.id = id /\ tab'.busy = tab.busy /\ tab'.round = tab.round
      BY <2>1 DEF HashSet, TabShape, TabFields
  <2>3. ~ Shows /\ t.verb = "create" /\ t.at = "call"
      BY <1>6 DEF MarketCreates, MarketSound, MarketTask, Calls
  <2> QED  BY <1>5, <2>1, <2>2, <2>3
<1>7. CASE MarketCommits(t)  BY <1>5, <1>7 DEF MarketCommits, Calls
<1>8. CASE MarketRevealEnds(t)  BY <1>5, <1>8 DEF MarketRevealEnds, Calls, PassThrough
<1> QED  BY <1>2, <1>3, <1>4, <1>6, <1>7, <1>8 DEF PassNext

\* The steps of the OpenX402 page.
LEMMA MarketKeepsSound ==
    ASSUME TabShape, MarketSound, MarketNext
    PROVE  MarketSound'
BY MarketShowSound, MarketClicksSound, MarketLeavesSound, MarketReloadSound, MarketTabSound,
   MarketEndSound, MarketTasksSound
DEF MarketNext

\* The seals it commits.
LEMMA MarketKeepsSeals ==
    ASSUME ChainShape, SealsOwn, MarketSound, MarketNext
    PROVE  SealsOwn'
<1>1. CASE UNCHANGED chainVars  BY <1>1, CallsKeepSeals DEF chainVars
<1>2. ASSUME NEW t \in tasks, MarketCommits(t)  PROVE SealsOwn'
  <2>1. CommitTo(t.id, t.by, t.id)  BY <1>2 DEF MarketCommits, MarketSound, MarketTask
  <2> QED  BY <2>1, CallsKeepSeals
<1>3. ASSUME NEW t \in tasks, MarketCreates(t) \/ MarketRevealEnds(t)  PROVE SealsOwn'
    BY <1>3, CallsKeepSeals DEF MarketCreates, MarketRevealEnds
<1> QED  BY <1>1, <1>2, <1>3, PassKeepsSeals DEF MarketNext

SealInv ==
    /\ page \in {"trustless", "openx402"} => SealsOwn
    /\ page = "trustless" => \A t \in tasks : OwnCommit(t)
    /\ page = "openx402" => MarketSound

\* On the Trustless Work and the OpenX402 page no proposal is readable while
\* its round takes proposals, for any rounds, reads, handlers and addresses.
THEOREM SealsInTime == SpecPilots => []SealedInTime
<1>1. InitPilots => SealInv
  <2> SUFFICES ASSUME InitPilots  PROVE SealInv  OBVIOUS
  <2>1. SealsOwn  BY DEF InitPilots, ChainInit, Unused, SealsOwn
  <2>2. MarketSound
    <3>1. /\ tasks = {} /\ tab.round = NoData
          /\ tab.id = NoRound => reads = {}
        BY PilotAssumption DEF InitPilots, TabInit
    <3> QED  BY <3>1 DEF MarketSound, OneTask, Shows
  <2> QED  BY <2>1, <2>2 DEF SealInv, InitPilots, TabInit
<1>2. PassInv /\ SealInv /\ [NextPilots]_pilotVars => SealInv'
  <2> SUFFICES ASSUME PassInv, SealInv, [NextPilots]_pilotVars  PROVE SealInv'  OBVIOUS
  <2>1. TabShape /\ ChainShape /\ page' = page  BY StepKeepsPass DEF PassInv
  <2>2. CASE UNCHANGED tabVars /\ (ChainNext \/ UNCHANGED chainVars)
    <3>1. SealsOwn => SealsOwn'  BY <2>1, <2>2, OthersKeepSeals, CallsKeepSeals DEF chainVars
    <3>2. MarketSound => MarketSound'
        BY <2>2 DEF tabVars, MarketSound, OneTask, MarketTask, Calls, Shows
    <3> QED  BY <2>2, <3>1, <3>2 DEF SealInv, tabVars, OwnCommit
  <2>3. CASE page = "trustless" /\ EscrowNext
      BY <2>1, <2>3, EscrowCommitsOwn, EscrowKeepsSeals DEF SealInv, OwnNew
  <2>4. CASE page = "openx402" /\ MarketNext
      BY <2>1, <2>4, MarketKeepsSound, MarketKeepsSeals DEF SealInv
  <2>5. CASE page \notin {"trustless", "openx402"}  BY <2>1, <2>5 DEF SealInv
  <2> QED  BY <2>2, <2>3, <2>4, <2>5 DEF NextPilots, pilotVars
<1>3. SealInv => SealedInTime
    BY DEF SealInv, SealsOwn, SealedInTime, NothingReadableEarly, Readable
<1> QED  BY <1>1, <1>2, <1>3, InitPass, StepKeepsPass, PTL DEF SpecPilots
=============================================================================
