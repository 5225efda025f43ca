---------------------------- MODULE KeeperStore ----------------------------
(***************************************************************************)
(* The watch loop of the keeper and its round store (services/keeper/src): *)
(* one JSON file, read whole when a process starts and written whole, in   *)
(* place, by every change.  The watch process and the queue command each   *)
(* work on a copy of their own.  What one pass does to a round is the      *)
(* subject of Keeper; here a pass ends the round, leaves it, or throws.    *)
(***************************************************************************)
EXTENDS Integers, Sequences, FiniteSets, SequencesExt

CONSTANTS
    WatchedId,      \* round ids in play
    Window,         \* the ids discovery probes: WATCH_FROM, WATCH_MAX_ROUNDS
    Deployed,       \* contracts the processes are configured with, one at a time
    MaxCrashes,     \* bound: how often a process dies
    MaxCommands,    \* bound: queue commands run
    NoEntry

VARIABLES
    onChain,        \* onChain[c][id]: "None", "Open" or "Ended"
    storeFile,      \* the file: "absent", "whole", or "torn" in the middle of a write
    watcher,        \* the watch process: its store and where it stands
    queueCmd,       \* the queue command: its store and where it stands
    faults          \* bounds used up: [crashes, commands]

storeVars == <<onChain, storeFile, watcher, queueCmd, faults>>

EmptyStore == [id \in WatchedId |-> NoEntry]
File(state, store) == [state |-> state, store |-> store]
NoFile == File("absent", EmptyStore)
Torn == File("torn", EmptyStore)

Down == [pc |-> "down", contract |-> NoEntry, store |-> EmptyStore, left |-> <<>>]
NoCommand == [pc |-> "none", contract |-> NoEntry, store |-> EmptyStore,
              verb |-> "list", id |-> NoEntry]

StoreInit ==
    /\ onChain = [c \in Deployed |-> [id \in WatchedId |-> "None"]]
    /\ storeFile = NoFile
    /\ watcher = Down
    /\ queueCmd = NoCommand
    /\ faults = [crashes |-> 0, commands |-> 0]

---------------------------------------------------------------------------
(* KeeperStore.                                                            *)

\* loadStore: a file that does not parse is moved aside, an empty one is not.
Loaded == storeFile.store
AfterLoad == IF storeFile = Torn THEN storeFile' \in {NoFile, Torn} ELSE UNCHANGED storeFile

\* addRound: a new entry, or the given fields over those of the old one.
AddRound(store, id, c) ==
    [store EXCEPT ![id] = IF store[id] = NoEntry
                          THEN [contract |-> c, lastStatus |-> "Unknown"]
                          ELSE [store[id] EXCEPT !.contract = c]]

\* updateRound: nothing for an id that is not in the store.
UpdateRound(store, id, status) ==
    IF store[id] = NoEntry THEN store ELSE [store EXCEPT ![id].lastStatus = status]

RemoveRound(store, id) == [store EXCEPT ![id] = NoEntry]

\* saveStore truncates the file and then writes it.  If another process
\* renamed the file in between, the text goes to the renamed file; if it is
\* writing too, the texts may mix.
BeginSave == storeFile' = Torn
EndSave(store, otherSaving) ==
    \/ storeFile # NoFile /\ storeFile' = File("whole", store)
    \/ storeFile = NoFile /\ UNCHANGED storeFile
    \/ otherSaving /\ storeFile' = Torn

---------------------------------------------------------------------------
(* runWatchLoop.                                                           *)

\* A watch process starts, configured for contract c.
Boot(c) ==
    /\ watcher.pc = "down"
    /\ watcher' = [pc |-> "discover", contract |-> c, store |-> Loaded, left |-> <<>>]
    /\ AfterLoad
    /\ UNCHANGED <<onChain, queueCmd, faults>>

\* Mutant of Discovered: the first gap ends the probing.
Discovered_UpToGap(c) ==
    {id \in Window : \A i \in Window : i <= id => onChain[c][i] # "None"}

\* discoverRoundIds: ids without a round of this family are skipped.
Discovered(c) == {id \in Window : onChain[c][id] # "None"}

Discover ==
    /\ watcher.pc = "discover"
    /\ watcher' = [watcher EXCEPT !.pc = "adding",
                       !.left = SetToSortSeq(Discovered(watcher.contract), <)]
    /\ UNCHANGED <<onChain, storeFile, queueCmd, faults>>

\* Any other error abandons discovery for this round of the loop.
DiscoveryFails ==
    /\ watcher.pc = "discover"
    /\ watcher' = [watcher EXCEPT !.pc = "adding"]
    /\ UNCHANGED <<onChain, storeFile, queueCmd, faults>>

AddDiscovered ==
    /\ watcher.pc = "adding" /\ watcher.left # <<>>
    /\ watcher' = [watcher EXCEPT !.pc = "savingAdd", !.left = Tail(@),
                       !.store = AddRound(@, Head(watcher.left), watcher.contract)]
    /\ BeginSave
    /\ UNCHANGED <<onChain, queueCmd, faults>>

Saved(resume) ==
    /\ watcher' = [watcher EXCEPT !.pc = resume]
    /\ EndSave(watcher.store, queueCmd.pc = "saving")
    /\ UNCHANGED <<onChain, queueCmd, faults>>

AddSaved == watcher.pc = "savingAdd" /\ Saved("adding")

\* A stored round is filtered out as completed.
Completed(entry) == entry.lastStatus = "Ended"

Active(store, c) ==
    {id \in WatchedId : store[id] # NoEntry /\ store[id].contract = c /\ ~ Completed(store[id])}

SelectActive ==
    /\ watcher.pc = "adding" /\ watcher.left = <<>>
    /\ watcher' = [watcher EXCEPT !.pc = "ticking",
                       !.left = SetToSortSeq(Active(watcher.store, watcher.contract), <)]
    /\ UNCHANGED <<onChain, storeFile, queueCmd, faults>>

\* A pass of watchRound over the next round returns; it may have ended it.
Tick(status) ==
    LET c == watcher.contract
        id == Head(watcher.left)
    IN  /\ watcher.pc = "ticking" /\ watcher.left # <<>>
        /\ onChain[c][id] \in {"Open", status}
        /\ onChain' = [onChain EXCEPT ![c][id] = status]
        /\ watcher' = [watcher EXCEPT !.pc = "savingTick", !.left = Tail(@),
                           !.store = UpdateRound(@, id, status)]
        /\ BeginSave
        /\ UNCHANGED <<queueCmd, faults>>

\* The pass throws (no such round, a failed read or call): the retry count is
\* kept, the status is not touched.
TickFails ==
    /\ watcher.pc = "ticking" /\ watcher.left # <<>>
    /\ watcher' = [watcher EXCEPT !.pc = "savingTick", !.left = Tail(@)]
    /\ BeginSave
    /\ UNCHANGED <<onChain, queueCmd, faults>>

TickSaved == watcher.pc = "savingTick" /\ Saved("ticking")

Sleep ==
    /\ watcher.pc = "ticking" /\ watcher.left = <<>>
    /\ watcher' = [watcher EXCEPT !.pc = "discover"]
    /\ UNCHANGED <<onChain, storeFile, queueCmd, faults>>

\* The process is stopped or dies, in the middle of a write or not.
CrashWatcher ==
    /\ watcher.pc # "down" /\ faults.crashes < MaxCrashes
    /\ watcher' = Down
    /\ faults' = [faults EXCEPT !.crashes = @ + 1]
    /\ UNCHANGED <<onChain, storeFile, queueCmd>>

---------------------------------------------------------------------------
(* queue add | list | remove, and everybody else.                          *)

StartCommand(verb, id, c) ==
    /\ queueCmd.pc = "none" /\ faults.commands < MaxCommands
    /\ queueCmd' = [pc |-> "loaded", contract |-> c, store |-> Loaded, verb |-> verb, id |-> id]
    /\ AfterLoad
    /\ faults' = [faults EXCEPT !.commands = @ + 1]
    /\ UNCHANGED <<onChain, watcher>>

\* list only prints, remove saves only what was there.
RunCommand ==
    LET cmd == queueCmd
        changed == CASE cmd.verb = "add"    -> AddRound(cmd.store, cmd.id, cmd.contract)
                     [] cmd.verb = "remove" -> RemoveRound(cmd.store, cmd.id)
                     [] cmd.verb = "list"   -> cmd.store
        saves == cmd.verb = "add" \/ (cmd.verb = "remove" /\ cmd.store[cmd.id] # NoEntry)
    IN  /\ cmd.pc = "loaded"
        /\ IF saves
           THEN queueCmd' = [cmd EXCEPT !.pc = "saving", !.store = changed] /\ BeginSave
           ELSE queueCmd' = NoCommand /\ UNCHANGED storeFile
        /\ UNCHANGED <<onChain, watcher, faults>>

CommandSaved ==
    /\ queueCmd.pc = "saving"
    /\ queueCmd' = NoCommand
    /\ EndSave(queueCmd.store, watcher.pc \in {"savingAdd", "savingTick"})
    /\ UNCHANGED <<onChain, watcher, faults>>

\* Operators create rounds; anybody may end one.
OthersAct(c, id) ==
    /\ onChain' = [onChain EXCEPT ![c][id] =
           CASE @ = "None" -> "Open" [] @ = "Open" -> "Ended" [] OTHER -> @]
    /\ UNCHANGED <<storeFile, watcher, queueCmd, faults>>

StoreNext ==
    \/ \E c \in Deployed : Boot(c)
    \/ Discover \/ DiscoveryFails \/ AddDiscovered \/ AddSaved \/ SelectActive
    \/ \E status \in {"Open", "Ended"} : Tick(status)
    \/ TickFails \/ TickSaved \/ Sleep \/ CrashWatcher
    \/ \E id \in WatchedId, c \in Deployed, verb \in {"add", "list", "remove"} :
           StartCommand(verb, id, c)
    \/ RunCommand \/ CommandSaved
    \/ \E c \in Deployed, id \in WatchedId : OthersAct(c, id)

\* The loop runs on and is started again after a crash; discovery and the
\* passes over a round do not fail forever.
StoreFairness ==
    /\ \A c \in Deployed : WF_storeVars(Boot(c))
    /\ WF_storeVars(AddDiscovered) /\ WF_storeVars(AddSaved) /\ WF_storeVars(SelectActive)
    /\ WF_storeVars(TickSaved) /\ WF_storeVars(Sleep)
    /\ WF_storeVars(Discover \/ DiscoveryFails) /\ SF_storeVars(Discover)
    /\ WF_storeVars(TickFails \/ \E status \in {"Open", "Ended"} : Tick(status))
    /\ \A id \in WatchedId :
           SF_storeVars(Tick("Ended") /\ watcher.left # <<>> /\ Head(watcher.left) = id)

SpecStore == StoreInit /\ [][StoreNext]_storeVars /\ StoreFairness

---------------------------------------------------------------------------
\* Whatever is queued, removed, lost with a torn file or overwritten by
\* another process, and whatever ids are gaps: an open round in the discovery
\* window is kept until it ended.
WindowRoundsKept ==
    \A c \in Deployed, id \in Window :
        (onChain[c][id] = "Open") ~> (onChain[c][id] = "Ended")

\* services/keeper/README.md on the rounds the loop filters out: "These
\* completed rounds remain in the JSON file for historical audit logs".
OnlyCompletedFiltered ==
    \A id \in WatchedId :
        LET entry == watcher.store[id]
        IN  watcher.pc = "ticking" /\ entry # NoEntry /\ entry.contract = watcher.contract
            /\ Completed(entry) => onChain[watcher.contract][id] = "Ended"
=============================================================================
