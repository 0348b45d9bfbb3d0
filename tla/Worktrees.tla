------------------------------ MODULE Worktrees ------------------------------
(***************************************************************************)
(* The linked git worktrees of one primary repository: the registry        *)
(* (src/engine/repo_registry.rs), indexing on first use and removal        *)
(* (src/engine/worktree.rs), the watcher's part in both, and reindex_all.  *)
(*                                                                         *)
(* A worktree's key stands for its path.  What the shared indexes and the  *)
(* maps hold of a worktree is one set of files, `documents'; the walk of a *)
(* worktree adds them one by one.                                          *)
(***************************************************************************)
EXTENDS Naturals, FiniteSets, SequencesExt

CONSTANTS
  Roots,        \* paths where worktrees come and go
  Nested,       \* those inside the primary's tree, which is watched
  WorktreeFiles,
  Callers,      \* tool calls with a `repo' argument
  Reindexers,   \* calls of reindex_all
  WatchTask,    \* run_watch_mode
  Nobody,       \* holds no lock
  NoRoot,       \* no worktree
  MaxChanges,   \* bound: worktrees added and removed after startup
  StartModes    \* what walks the primaries at startup: "walk", "reindex"

ASSUME RootsAssumption ==
  IsFiniteSet(Roots) /\ Nested \subseteq Roots /\ NoRoot \notin Roots
ASSUME TasksAssumption ==
  /\ Callers \cap Reindexers = {} /\ WatchTask \notin Callers \cup Reindexers
  /\ Nobody \notin Callers \cup Reindexers
ASSUME StartAssumption == StartModes \subseteq {"walk", "reindex"} /\ MaxChanges \in Nat

Droppers == Callers \cup {WatchTask}

VARIABLES
  present, changes,        \* the worktrees git lists; additions and removals
  order, repoState,        \* RepoRegistry.entries: keys in order, RepoEntry.state
  documents, strays,       \* files indexed as the worktree's own; worktrees with
                           \*   files indexed as the primary's
  startMode, primariesWalked,
  indexJobs,               \* index_jobs: the holder of each lock
  callAt, callRoot, unwalked,
  refreshAt, found, leaving,  \* refresh_worktrees: what git listed, what goes
  dropping,                \* unregister_repo: what is out of the registry, its data not yet dropped
  reindexAt, reindexJobs,  \* reindex_all; the jobs it has yet to wait for, with their places
  reindexRoots, reindexRoot,
  commands,                \* watch_tx to watch_rx
  watchedPaths, osWatched, \* AsyncFileWatcher.watched_paths; what notify watches
  events, batch, writing, writingAs, \* changes buffered, in hand, the one being written
  disturbed, orphaned, replaced \* history

treeVars     == <<present, changes>>
registryVars == <<order, repoState>>
dataVars     == <<documents, strays>>
startVars    == <<startMode, primariesWalked>>
callVars     == <<callAt, callRoot, unwalked>>
refreshVars  == <<refreshAt, found, leaving>>
reindexVars  == <<reindexAt, reindexJobs, reindexRoots, reindexRoot>>
watcherVars  == <<watchedPaths, osWatched>>
batchVars    == <<events, batch, writing, writingAs>>
historyVars  == <<disturbed, orphaned, replaced>>
worktreeVars ==
  <<treeVars, registryVars, dataVars, startVars, indexJobs, callVars, refreshVars, dropping,
    reindexVars, commands, watcherVars, batchVars, historyVars>>

Registered(w) == Contains(order, w)
IsReady(w) == Registered(w) /\ repoState[w] = "Ready"

\* discover_all_worktrees has run: what git lists is registered.
WorktreesInit ==
  /\ present \in SUBSET Roots /\ changes = 0
  /\ order = SetToSeq(present) /\ repoState = [w \in Roots |-> "Registered"]
  /\ documents = [w \in Roots |-> {}] /\ strays = {}
  /\ startMode \in StartModes /\ primariesWalked = FALSE
  /\ indexJobs = [w \in Roots |-> Nobody]
  /\ callAt = [c \in Callers |-> "idle"] /\ callRoot = [c \in Callers |-> NoRoot]
  /\ unwalked = [c \in Callers |-> {}]
  /\ refreshAt = [a \in Droppers |-> "no"]
  /\ found = [a \in Droppers |-> {}] /\ leaving = [a \in Droppers |-> {}]
  /\ dropping = [a \in Droppers |-> NoRoot]
  /\ reindexAt = [r \in Reindexers |-> "idle"]
  /\ reindexJobs = [r \in Reindexers |-> {}] /\ reindexRoots = [r \in Reindexers |-> {}]
  /\ reindexRoot = [r \in Reindexers |-> NoRoot]
  /\ commands = <<>> /\ watchedPaths = {} /\ osWatched = {}
  /\ events = {} /\ batch = {} /\ writing = NoRoot
  /\ writingAs = "worktree"
  /\ disturbed = {} /\ orphaned = {} /\ replaced = {}

-----------------------------------------------------------------------------
(* Dropping. *)

\* unregister_repo: out of the registry at once, its data after that.
Unregister(a, w) ==
  \/ /\ Registered(w)
     /\ order' = RemoveAt(order, CHOOSE i \in DOMAIN order : order[i] = w)
     /\ repoState' = [repoState EXCEPT ![w] = "Registered"]
     /\ dropping' = [dropping EXCEPT ![a] = w]
     /\ replaced' = replaced \cup {w}
  \/ /\ ~ Registered(w)
     /\ UNCHANGED <<registryVars, dropping, replaced>>

\* drop_repo_data, whose last step tells the watcher.
DropData(a) ==
  /\ dropping[a] # NoRoot
  /\ dropping' = [dropping EXCEPT ![a] = NoRoot]
  /\ documents' = [documents EXCEPT ![dropping[a]] = {}]
  /\ commands' = Append(commands, [kind |-> "Unwatch", root |-> dropping[a]])
  /\ orphaned' = orphaned \ {dropping[a]}
  /\ UNCHANGED <<treeVars, registryVars, strays, startVars, indexJobs, callVars, refreshVars,
                 reindexVars, watcherVars, batchVars, disturbed, replaced>>

-----------------------------------------------------------------------------
(* refresh_worktrees: what git lists, then what the registry has beyond that, *)
(* dropped one by one, then what is new, registered.                         *)

StartRefresh(a) ==
  /\ refreshAt' = [refreshAt EXCEPT ![a] = "compare"]
  /\ found' = [found EXCEPT ![a] = present]

RefreshCompare(a) ==
  /\ refreshAt[a] = "compare"
  /\ refreshAt' = [refreshAt EXCEPT ![a] = "apply"]
  /\ leaving' = [leaving EXCEPT ![a] =
       {w \in ToSet(order) : w \notin found[a] /\ repoState[w] # "Indexing"}]
  /\ UNCHANGED <<treeVars, registryVars, dataVars, startVars, indexJobs, callVars, found, dropping,
                 reindexVars, commands, watcherVars, batchVars, historyVars>>

RefreshDrop(a) ==
  /\ refreshAt[a] = "apply" /\ dropping[a] = NoRoot
  /\ \E w \in leaving[a] :
       /\ leaving' = [leaving EXCEPT ![a] = @ \ {w}]
       /\ Unregister(a, w)
  /\ UNCHANGED <<treeVars, dataVars, startVars, indexJobs, callVars, refreshAt, found,
                 reindexVars, commands, watcherVars, batchVars, disturbed, orphaned>>

\* (Mutant: register does not look for the key.)
RegisterAgain(a) ==
  /\ refreshAt[a] = "apply" /\ dropping[a] = NoRoot /\ leaving[a] = {}
  /\ refreshAt' = [refreshAt EXCEPT ![a] = "no"]
  /\ found' = [found EXCEPT ![a] = {}]
  /\ order' = order \o SetToSeq(found[a])
  /\ strays' = strays \ found[a]
  /\ UNCHANGED <<treeVars, repoState, documents, startVars, indexJobs, callVars, leaving,
                 dropping, reindexVars, commands, watcherVars, batchVars, historyVars>>

\* RepoRegistry::register of the paths not known yet, with purge_from_enclosing.
RefreshRegister(a) ==
  LET new == found[a] \ ToSet(order) IN
  /\ refreshAt[a] = "apply" /\ dropping[a] = NoRoot /\ leaving[a] = {}
  /\ refreshAt' = [refreshAt EXCEPT ![a] = "no"]
  /\ found' = [found EXCEPT ![a] = {}]
  /\ order' = order \o SetToSeq(new)
  /\ strays' = strays \ new
  /\ UNCHANGED <<treeVars, repoState, documents, startVars, indexJobs, callVars, leaving,
                 dropping, reindexVars, commands, watcherVars, batchVars, historyVars>>

-----------------------------------------------------------------------------
(* A tool call: resolve_repo_arg, then ensure_repo_indexed.  A call that gives *)
(* up waiting leaves the indexing to its task, which goes on as here.         *)

\* The entry is known: its directory is gone, it is indexed (a call that finds it so
\* at once changes nothing), or it is to be.
Enter(c, w) ==
  \/ /\ w \notin present
     /\ Unregister(c, w)
     /\ callAt' = [callAt EXCEPT ![c] = "leave"]
  \/ /\ w \in present /\ repoState[w] = "Ready" /\ callAt[c] # "idle"
     /\ callAt' = [callAt EXCEPT ![c] = "leave"]
     /\ UNCHANGED <<registryVars, dropping, replaced>>
  \/ /\ w \in present /\ repoState[w] # "Ready"
     /\ callAt' = [callAt EXCEPT ![c] = "lock"]
     /\ UNCHANGED <<registryVars, dropping, replaced>>

Resolve(c, w) ==
  /\ callAt[c] = "idle"
  /\ callRoot' = [callRoot EXCEPT ![c] = w]
  /\ \/ Registered(w) /\ Enter(c, w) /\ UNCHANGED refreshVars
     \/ /\ ~ Registered(w)
        /\ StartRefresh(c)
        /\ callAt' = [callAt EXCEPT ![c] = "refresh"]
        /\ UNCHANGED <<leaving, registryVars, dropping, replaced>>
  /\ UNCHANGED <<treeVars, dataVars, startVars, indexJobs, unwalked, reindexVars, commands,
                 watcherVars, batchVars, disturbed, orphaned>>

Resolved(c) ==
  /\ callAt[c] = "refresh" /\ refreshAt[c] = "no"
  /\ \/ Registered(callRoot[c]) /\ Enter(c, callRoot[c])
     \/ /\ ~ Registered(callRoot[c])
        /\ callAt' = [callAt EXCEPT ![c] = "leave"]
        /\ UNCHANGED <<registryVars, dropping, replaced>>
  /\ UNCHANGED <<treeVars, dataVars, startVars, indexJobs, callRoot, unwalked, refreshVars,
                 reindexVars, commands, watcherVars, batchVars, disturbed, orphaned>>

Leave(c) ==
  /\ callAt[c] = "leave" /\ dropping[c] = NoRoot
  /\ callAt' = [callAt EXCEPT ![c] = "done"]
  /\ callRoot' = [callRoot EXCEPT ![c] = NoRoot]
  /\ indexJobs' = [w \in Roots |-> IF indexJobs[w] = c THEN Nobody ELSE indexJobs[w]]
  /\ UNCHANGED <<treeVars, registryVars, dataVars, startVars, unwalked, refreshVars, dropping,
                 reindexVars, commands, watcherVars, batchVars, historyVars>>

\* (Mutant: whoever waited for the lock indexes.)
CheckOnce(c) ==
  LET w == callRoot[c] IN
  /\ callAt[c] = "lock" /\ indexJobs[w] = Nobody
  /\ indexJobs' = [indexJobs EXCEPT ![w] = c]
  /\ \/ /\ ~ Registered(w)
        /\ callAt' = [callAt EXCEPT ![c] = "leave"]
        /\ UNCHANGED <<registryVars, dropping, replaced>>
     \/ /\ Registered(w) /\ w \notin present
        /\ callAt' = [callAt EXCEPT ![c] = "leave"]
        /\ Unregister(c, w)
     \/ /\ Registered(w) /\ w \in present
        /\ callAt' = [callAt EXCEPT ![c] = "wait"]
        /\ UNCHANGED <<registryVars, dropping, replaced>>
  /\ UNCHANGED <<treeVars, dataVars, startVars, callRoot, unwalked, refreshVars,
                 reindexVars, commands, watcherVars, batchVars, disturbed, orphaned>>

\* The lock is free; the entry is read again.
Check(c) ==
  LET w == callRoot[c] IN
  /\ callAt[c] = "lock" /\ indexJobs[w] = Nobody
  /\ indexJobs' = [indexJobs EXCEPT ![w] = c]
  /\ \/ /\ ~ Registered(w) \/ repoState[w] = "Ready"
        /\ callAt' = [callAt EXCEPT ![c] = "leave"]
        /\ UNCHANGED <<registryVars, dropping, replaced>>
     \/ /\ Registered(w) /\ repoState[w] # "Ready" /\ w \notin present
        /\ callAt' = [callAt EXCEPT ![c] = "leave"]
        /\ Unregister(c, w)
     \/ /\ Registered(w) /\ repoState[w] # "Ready" /\ w \in present
        /\ callAt' = [callAt EXCEPT ![c] = "wait"]
        /\ UNCHANGED <<registryVars, dropping, replaced>>
  /\ UNCHANGED <<treeVars, dataVars, startVars, callRoot, unwalked, refreshVars,
                 reindexVars, commands, watcherVars, batchVars, disturbed, orphaned>>

Reindexing == \E r \in Reindexers : reindexAt[r] \notin {"idle", "done"}
Dropping(w) == \E a \in Droppers : dropping[a] = w

\* set_state finds its entry or does nothing.
SetState(w, s) ==
  repoState' = IF Registered(w) THEN [repoState EXCEPT ![w] = s] ELSE repoState

\* The primaries are walked: the walk of the worktree begins.
BeginWalk(c) ==
  LET w == callRoot[c] IN
  /\ callAt[c] = "wait" /\ primariesWalked
  /\ callAt' = [callAt EXCEPT ![c] = "walk"]
  /\ SetState(w, "Indexing")
  /\ unwalked' = [unwalked EXCEPT ![c] = WorktreeFiles]
  /\ disturbed' = IF Reindexing THEN disturbed \cup {w} ELSE disturbed \ {w}
  /\ UNCHANGED <<treeVars, order, dataVars, startVars, indexJobs, callRoot, refreshVars, dropping,
                 reindexVars, commands, watcherVars, batchVars, orphaned, replaced>>

\* A file that cannot be read is passed over.
WalkFile(c) ==
  LET w == callRoot[c] IN
  /\ callAt[c] = "walk"
  /\ \E f \in unwalked[c] :
       /\ unwalked' = [unwalked EXCEPT ![c] = @ \ {f}]
       /\ documents' = IF w \in present THEN [documents EXCEPT ![w] = @ \cup {f}] ELSE documents
  /\ UNCHANGED <<treeVars, registryVars, strays, startVars, indexJobs, callAt, callRoot, refreshVars,
                 dropping, reindexVars, commands, watcherVars, batchVars, historyVars>>

\* An error of the walk returns before anything is verified.
WalkFails(c) ==
  /\ callAt[c] = "walk"
  /\ callAt' = [callAt EXCEPT ![c] = "leave"]
  /\ unwalked' = [unwalked EXCEPT ![c] = {}]
  /\ SetState(callRoot[c], "Failed")
  /\ orphaned' = IF Registered(callRoot[c]) THEN orphaned ELSE orphaned \cup {callRoot[c]}
  /\ UNCHANGED <<treeVars, order, dataVars, startVars, indexJobs, callRoot, refreshVars, dropping,
                 reindexVars, commands, watcherVars, batchVars, disturbed, replaced>>

\* (Mutant: nobody looks.)
VerifyNothing(c) ==
  /\ callAt[c] = "walk" /\ unwalked[c] = {}
  /\ callAt' = [callAt EXCEPT ![c] = "verify"]
  /\ UNCHANGED <<treeVars, registryVars, dataVars, startVars, indexJobs, callRoot, unwalked,
                 refreshVars, dropping, reindexVars, commands, watcherVars, batchVars, historyVars>>

\* Walked and committed: was the worktree removed meanwhile?
Verify(c) ==
  LET w == callRoot[c] IN
  /\ callAt[c] = "walk" /\ unwalked[c] = {}
  /\ \/ /\ Registered(w)
        /\ callAt' = [callAt EXCEPT ![c] = "verify"]
        /\ UNCHANGED dropping
     \/ /\ ~ Registered(w)
        /\ callAt' = [callAt EXCEPT ![c] = "failed"]
        /\ dropping' = [dropping EXCEPT ![c] = w]
  /\ UNCHANGED <<treeVars, registryVars, dataVars, startVars, indexJobs, callRoot, unwalked,
                 refreshVars, reindexVars, commands, watcherVars, batchVars, historyVars>>

\* Its removal is an error of the indexing, and a state of the key.
WalkOrphaned(c) ==
  /\ callAt[c] = "failed" /\ dropping[c] = NoRoot
  /\ callAt' = [callAt EXCEPT ![c] = "leave"]
  /\ SetState(callRoot[c], "Failed")
  /\ UNCHANGED <<treeVars, order, dataVars, startVars, indexJobs, callRoot, unwalked, refreshVars,
                 dropping, reindexVars, commands, watcherVars, batchVars, historyVars>>

BecomeReady(c) ==
  /\ callAt[c] = "verify"
  /\ callAt' = [callAt EXCEPT ![c] = "watch"]
  /\ SetState(callRoot[c], "Ready")
  /\ UNCHANGED <<treeVars, order, dataVars, startVars, indexJobs, callRoot, unwalked, refreshVars,
                 dropping, reindexVars, commands, watcherVars, batchVars, historyVars>>

\* (Mutant: the watcher is not told.)
AskNobody(c) ==
  /\ callAt[c] = "watch"
  /\ callAt' = [callAt EXCEPT ![c] = "leave"]
  /\ UNCHANGED <<treeVars, registryVars, dataVars, startVars, indexJobs, callRoot, unwalked, commands,
                 refreshVars, dropping, reindexVars, watcherVars, batchVars, historyVars>>

AskToWatch(c) ==
  /\ callAt[c] = "watch"
  /\ callAt' = [callAt EXCEPT ![c] = "leave"]
  /\ commands' = Append(commands, [kind |-> "Watch", root |-> callRoot[c]])
  /\ UNCHANGED <<treeVars, registryVars, dataVars, startVars, indexJobs, callRoot, unwalked,
                 refreshVars, dropping, reindexVars, watcherVars, batchVars, historyVars>>

-----------------------------------------------------------------------------
(* reindex_all, and the startup of a server that does not run it. *)

InitializationComplete ==
  /\ startMode = "walk" /\ ~ primariesWalked
  /\ primariesWalked' = TRUE
  /\ UNCHANGED <<treeVars, registryVars, dataVars, startMode, indexJobs, callVars, refreshVars,
                 dropping, reindexVars, commands, watcherVars, batchVars, historyVars>>

\* (Mutant: no job is waited for.)
ReindexUnlocked(r) ==
  /\ reindexAt[r] = "idle"
  /\ reindexAt' = [reindexAt EXCEPT ![r] = "lock"]
  /\ UNCHANGED <<reindexJobs, treeVars, registryVars, dataVars, startVars, indexJobs, callVars,
                 refreshVars, dropping, reindexRoots, reindexRoot, commands, watcherVars, batchVars,
                 historyVars>>

\* (Mutant: every worktree's job is waited for.)
ReindexAllLocked(r) ==
  /\ reindexAt[r] = "idle"
  /\ reindexAt' = [reindexAt EXCEPT ![r] = "lock"]
  /\ reindexJobs' = [reindexJobs EXCEPT ![r] = {<<i, order[i]>> : i \in DOMAIN order}]
  /\ UNCHANGED <<treeVars, registryVars, dataVars, startVars, indexJobs, callVars, refreshVars,
                 dropping, reindexRoots, reindexRoot, commands, watcherVars, batchVars, historyVars>>

\* The worktrees whose jobs are waited for, in the registry's order: indexed_roots, now.
ReindexStart(r) ==
  /\ reindexAt[r] = "idle"
  /\ reindexAt' = [reindexAt EXCEPT ![r] = "lock"]
  /\ reindexJobs' = [reindexJobs EXCEPT ![r] =
       {<<i, order[i]>> : i \in {j \in DOMAIN order : repoState[order[j]] \in {"Indexing", "Ready"}}}]
  /\ UNCHANGED <<treeVars, registryVars, dataVars, startVars, indexJobs, callVars, refreshVars,
                 dropping, reindexRoots, reindexRoot, commands, watcherVars, batchVars, historyVars>>

ReindexLock(r) ==
  /\ reindexAt[r] = "lock"
  /\ \E job \in reindexJobs[r] :
       /\ \A later \in reindexJobs[r] : job[1] <= later[1]
       /\ indexJobs[job[2]] = Nobody
       /\ indexJobs' = [indexJobs EXCEPT ![job[2]] = r]
       /\ reindexJobs' = [reindexJobs EXCEPT ![r] = @ \ {job}]
  /\ UNCHANGED <<treeVars, registryVars, dataVars, startVars, callVars, refreshVars, dropping,
                 reindexAt, reindexRoots, reindexRoot, commands, watcherVars, batchVars, historyVars>>

\* Everything is cleared; index_repos then takes the worktrees that are Ready.
ReindexClear(r) ==
  /\ reindexAt[r] = "lock" /\ reindexJobs[r] = {}
  /\ reindexAt' = [reindexAt EXCEPT ![r] = "walk"]
  /\ documents' = [w \in Roots |-> {}] /\ strays' = {}
  /\ reindexRoots' = [reindexRoots EXCEPT ![r] = {w \in Roots : IsReady(w)}]
  /\ orphaned' = {}
  /\ UNCHANGED <<treeVars, registryVars, startVars, indexJobs, callVars, refreshVars, dropping,
                 reindexJobs, reindexRoot, commands, watcherVars, batchVars, disturbed, replaced>>

ReindexTake(r) ==
  /\ reindexAt[r] = "walk" /\ reindexRoot[r] = NoRoot
  /\ \E w \in reindexRoots[r] :
       /\ reindexRoots' = [reindexRoots EXCEPT ![r] = @ \ {w}]
       /\ \/ /\ w \in present
             /\ reindexRoot' = [reindexRoot EXCEPT ![r] = w]
             /\ UNCHANGED repoState
          \/ /\ w \notin present
             /\ SetState(w, "Failed")
             /\ UNCHANGED reindexRoot
  /\ UNCHANGED <<treeVars, order, dataVars, startVars, indexJobs, callVars, refreshVars, dropping,
                 reindexAt, reindexJobs, commands, watcherVars, batchVars, historyVars>>

\* Its files are indexed, or not; nobody looks whether it was removed meanwhile.
ReindexWalked(r) ==
  LET w == reindexRoot[r] IN
  /\ reindexAt[r] = "walk" /\ w # NoRoot
  /\ reindexRoot' = [reindexRoot EXCEPT ![r] = NoRoot]
  /\ \/ /\ documents' = [documents EXCEPT ![w] = IF w \in present THEN WorktreeFiles ELSE @]
        /\ SetState(w, "Ready")
     \/ UNCHANGED documents /\ SetState(w, "Failed")
  /\ orphaned' = IF Registered(w) THEN orphaned ELSE orphaned \cup {w}
  /\ UNCHANGED <<treeVars, order, strays, startVars, indexJobs, callVars, refreshVars, dropping,
                 reindexAt, reindexJobs, reindexRoots, commands, watcherVars, batchVars, disturbed,
                 replaced>>

ReindexEnd(r) ==
  /\ reindexAt[r] = "walk" /\ reindexRoot[r] = NoRoot /\ reindexRoots[r] = {}
  /\ reindexAt' = [reindexAt EXCEPT ![r] = "done"]
  /\ primariesWalked' = TRUE
  /\ indexJobs' = [w \in Roots |-> IF indexJobs[w] = r THEN Nobody ELSE indexJobs[w]]
  /\ UNCHANGED <<treeVars, registryVars, dataVars, startMode, callVars, refreshVars, dropping,
                 reindexJobs, reindexRoots, reindexRoot, commands, watcherVars, batchVars,
                 historyVars>>

-----------------------------------------------------------------------------
(* The file system, and the watcher's task. *)

Seen(w) == w \in Nested \cup osWatched

\* source_changes_for_path of a path of w: only files with a source extension.
SourceChanges(w, path) == IF path = "source" THEN {<<w, path>>} ELSE {}

Notify(w, paths) ==
  events' = IF Seen(w) THEN events \cup UNION {SourceChanges(w, p) : p \in paths} ELSE events

CreateWorktree(w) ==
  /\ w \notin present /\ changes < MaxChanges
  /\ present' = present \cup {w} /\ changes' = changes + 1
  /\ Notify(w, {"source", ".git"})
  /\ UNCHANGED <<registryVars, dataVars, startVars, indexJobs, callVars, refreshVars, dropping,
                 reindexVars, commands, watcherVars, batch, writing, writingAs, historyVars>>

\* notify's watch of a directory ends with it.
RemoveWorktree(w) ==
  /\ w \in present /\ changes < MaxChanges
  /\ changes' = changes + 1
  /\ present' = present \ {w} /\ osWatched' = osWatched \ {w}
  /\ replaced' = replaced \cup {w}
  /\ Notify(w, {"source", ".git"})
  /\ UNCHANGED <<registryVars, dataVars, startVars, indexJobs, callVars, refreshVars,
                 dropping, reindexVars, commands, watchedPaths, batch, writing, writingAs, disturbed, orphaned>>

WatcherFree ==
  batch = {} /\ writing = NoRoot /\ dropping[WatchTask] = NoRoot /\ refreshAt[WatchTask] = "no"

\* watch() fails for a missing directory; unwatch() fails, and leaves watched_paths
\* as it is, for a directory notify no longer watches.
HandleCommand ==
  LET c == Head(commands) IN
  /\ WatcherFree /\ commands # <<>>
  /\ commands' = Tail(commands)
  /\ \/ /\ c.kind = "Watch" /\ c.root \notin watchedPaths /\ c.root \in present
        /\ watchedPaths' = watchedPaths \cup {c.root} /\ osWatched' = osWatched \cup {c.root}
     \/ /\ c.kind = "Watch" /\ (c.root \in watchedPaths \/ c.root \notin present)
        /\ UNCHANGED watcherVars
     \/ /\ c.kind = "Unwatch" /\ c.root \in osWatched
        /\ watchedPaths' = watchedPaths \ {c.root} /\ osWatched' = osWatched \ {c.root}
     \/ /\ c.kind = "Unwatch" /\ c.root \notin osWatched
        /\ UNCHANGED watcherVars
  /\ UNCHANGED <<treeVars, registryVars, dataVars, startVars, indexJobs, callVars, refreshVars,
                 dropping, reindexVars, batchVars, historyVars>>

\* process_file_changes begins with register_new_worktrees.
TakeBatch ==
  /\ WatcherFree /\ events # {}
  /\ batch' = events /\ events' = {}
  /\ IF \E w \in present : <<w, ".git">> \in events /\ ~ Registered(w)
     THEN StartRefresh(WatchTask)
     ELSE UNCHANGED <<refreshAt, found>>
  /\ UNCHANGED <<treeVars, registryVars, dataVars, startVars, indexJobs, callVars, leaving, dropping,
                 reindexVars, commands, watcherVars, writing, writingAs, historyVars>>

\* A change, by owner_of its path: the worktree, or the primary around it.
HandleChange ==
  /\ writing = NoRoot /\ dropping[WatchTask] = NoRoot /\ refreshAt[WatchTask] = "no"
  /\ \E change \in batch :
       LET w == change[1] IN
       /\ batch' = batch \ {change}
       /\ \/ /\ Registered(w) /\ w \notin present
             /\ Unregister(WatchTask, w)
             /\ UNCHANGED <<writing, writingAs>>
          \/ /\ Registered(w) /\ w \in present /\ repoState[w] = "Ready"
             /\ writing' = w /\ writingAs' = "worktree"
             /\ UNCHANGED <<registryVars, dropping, replaced>>
          \/ /\ ~ Registered(w) /\ w \in Nested
             /\ writing' = w /\ writingAs' = "primary"
             /\ UNCHANGED <<registryVars, dropping, replaced>>
          \/ /\ IF Registered(w) THEN w \in present /\ repoState[w] # "Ready" ELSE w \notin Nested
             /\ UNCHANGED <<registryVars, dropping, replaced, writing, writingAs>>
  /\ UNCHANGED <<treeVars, dataVars, startVars, indexJobs, callVars, refreshVars, reindexVars,
                 commands, watcherVars, events, disturbed, orphaned>>

\* Its documents are replaced, under the owner it had then.
WriteChange ==
  LET w == writing IN
  /\ w # NoRoot
  /\ writing' = NoRoot /\ UNCHANGED writingAs
  /\ \/ /\ w \in present /\ writingAs = "worktree"
        /\ \E f \in WorktreeFiles : documents' = [documents EXCEPT ![w] = @ \cup {f}]
        /\ orphaned' = IF Registered(w) THEN orphaned ELSE orphaned \cup {w}
        /\ UNCHANGED strays
     \/ /\ w \in present /\ writingAs = "primary"
        /\ strays' = strays \cup {w}
        /\ UNCHANGED <<documents, orphaned>>
     \/ /\ w \notin present
        /\ UNCHANGED <<dataVars, orphaned>>
  /\ UNCHANGED <<treeVars, registryVars, startVars, indexJobs, callVars, refreshVars, dropping,
                 reindexVars, commands, watcherVars, events, batch, disturbed, replaced>>

-----------------------------------------------------------------------------
Calling(c) ==
  \/ Resolved(c) \/ Leave(c) \/ BeginWalk(c) \/ WalkFile(c) \/ Verify(c)
  \/ WalkOrphaned(c) \/ BecomeReady(c) \/ AskToWatch(c)
Refreshed(a) == RefreshCompare(a) \/ RefreshDrop(a) \/ RefreshRegister(a)
Rewalked(r) == ReindexClear(r) \/ ReindexTake(r) \/ ReindexWalked(r) \/ ReindexEnd(r)
Watched == HandleCommand \/ TakeBatch \/ HandleChange \/ WriteChange

WorktreesNext ==
  \/ \E c \in Callers :
       Calling(c) \/ Check(c) \/ WalkFails(c) \/ \E w \in Roots : Resolve(c, w)
  \/ \E a \in Droppers : DropData(a) \/ Refreshed(a)
  \/ \E r \in Reindexers : ReindexStart(r) \/ ReindexLock(r) \/ Rewalked(r)
  \/ InitializationComplete
  \/ Watched
  \/ \E w \in Roots : CreateWorktree(w) \/ RemoveWorktree(w)

\* Tasks run; tokio's mutex serves its waiters in turn; a server started with --reindex
\* calls reindex_all.
WorktreesFairness ==
  /\ \A c \in Callers :
       WF_worktreeVars(Calling(c)) /\ SF_worktreeVars(Check(c))
  /\ \A a \in Droppers : WF_worktreeVars(DropData(a)) /\ WF_worktreeVars(Refreshed(a))
  /\ \A r \in Reindexers :
       /\ WF_worktreeVars(startMode = "reindex" /\ ReindexStart(r)) /\ WF_worktreeVars(Rewalked(r))
       /\ SF_worktreeVars(ReindexLock(r))
  /\ WF_worktreeVars(InitializationComplete)

WorktreesSpec == WorktreesInit /\ [][WorktreesNext]_worktreeVars
WorktreesFairSpec == WorktreesSpec /\ WorktreesFairness

-----------------------------------------------------------------------------
\* Types, and no key is registered twice.
WorktreesTypeOK ==
  /\ present \subseteq Roots /\ changes \in 0 .. MaxChanges
  /\ order \in Seq(Roots) /\ IsInjective(order)
  /\ repoState \in [Roots -> {"Registered", "Indexing", "Ready", "Failed"}]
  /\ documents \in [Roots -> SUBSET WorktreeFiles] /\ strays \subseteq Nested
  /\ startMode \in StartModes /\ primariesWalked \in BOOLEAN
  /\ indexJobs \in [Roots -> Callers \cup Reindexers \cup {Nobody}]
  /\ callAt \in [Callers -> {"idle", "refresh", "lock", "wait", "walk", "verify",
                             "failed", "watch", "leave", "done"}]
  /\ callRoot \in [Callers -> Roots \cup {NoRoot}]
  /\ unwalked \in [Callers -> SUBSET WorktreeFiles]
  /\ refreshAt \in [Droppers -> {"no", "compare", "apply"}]
  /\ found \in [Droppers -> SUBSET Roots] /\ leaving \in [Droppers -> SUBSET Roots]
  /\ dropping \in [Droppers -> Roots \cup {NoRoot}]
  /\ reindexAt \in [Reindexers -> {"idle", "lock", "walk", "done"}]
  /\ reindexJobs \in [Reindexers -> SUBSET (Nat \X Roots)]
  /\ reindexRoots \in [Reindexers -> SUBSET Roots]
  /\ reindexRoot \in [Reindexers -> Roots \cup {NoRoot}]
  /\ commands \in Seq([kind : {"Watch", "Unwatch"}, root : Roots])
  /\ watchedPaths \subseteq Roots /\ osWatched \subseteq watchedPaths \cap present
  /\ events \subseteq Roots \X {"source", ".git"} /\ batch \subseteq Roots \X {"source", ".git"}
  /\ writing \in Roots \cup {NoRoot} /\ writingAs \in {"worktree", "primary"}
  /\ disturbed \cup orphaned \cup replaced \subseteq Roots

\* A worktree that is Ready has all its files in the indexes, unless it was removed
\* or a reindex_all was under way while it was being indexed (reindex_all: "A worktree
\* being indexed on demand finishes first").
ReadyIsComplete ==
  \A w \in present :
    \/ ~ IsReady(w) \/ w \in disturbed \/ w \in replaced
    \/ \E r \in Reindexers : reindexAt[r] = "walk"
    \/ documents[w] = WorktreeFiles

\* Nothing of a worktree that is not registered stays in the indexes once every call
\* that had to do with it is through, unless reindex_all or the watcher was writing it
\* when it went, or its walk failed (index_worktree: "what the walk wrote is orphaned").
RemovedIsDropped ==
  \A w \in Roots :
    \/ Registered(w) \/ w \in orphaned \/ Dropping(w)
    \/ \E c \in Callers : callRoot[c] = w /\ callAt[c] = "walk"
    \/ documents[w] = {}

\* A worktree that is Ready, and was there all along, is watched once the watcher has
\* done what it was asked (docs/configuration.md: "it is watched once indexed").
ReadyIsWatched ==
  \A w \in present :
    \/ ~ IsReady(w) \/ w \in disturbed \/ w \in replaced
    \/ \E c \in Callers : callRoot[c] = w /\ callAt[c] = "watch"
    \/ \E i \in DOMAIN commands : commands[i].root = w
    \/ w \in osWatched

\* Indexing starts only on a worktree that is not Ready (or was removed and added
\* again): "Concurrent calls for one key share the work" (ensure_repo_indexed).
CallsShareWork ==
  [][\A w \in Roots \ replaced :
       IsReady(w) /\ Registered(w)' => repoState'[w] # "Indexing"]_worktreeVars

\* A call that waits for a worktree returns, whichever of startup and --reindex
\* walks the primaries.
EveryCallReturns ==
  \A c \in Callers : callAt[c] = "lock" ~> callAt[c] = "done"

\* What docs/configuration.md says of a worktree created inside a watched tree: it "is
\* registered as soon as its .git file appears".
CheckoutRegistered ==
  \A w \in present \cap Nested : Registered(w) \/ events # {} \/ ~ WatcherFree
=============================================================================
