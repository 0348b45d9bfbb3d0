# A specification of narsil-mcp

narsil-mcp indexes source repositories and answers code questions over MCP.
What makes it hard to get right is mostly not the answering but keeping several
views of a repository together while files change, processes die and threads
interleave: the symbols in memory, the SQLite rows of the last save, the call
graph with its snapshot file, the tantivy search documents, cached answers, the
registry of worktrees. These modules model that core from `src/src/`, together
with the program analyses and the language server client, check it with TLC and
prove its central invariants with TLAPS.

## Inventory

Paths are relative to `src/src/`.

| Component | State | Operations | Talks to | What is hard | What makes it correct |
|---|---|---|---|---|---|
| Repository indexing: `engine/mod.rs`, `engine/indexing.rs` | symbols, `file_cache`, preloaded rows, readiness | start, walk, `reindex` | persisted index, call graph, search indexes | reuse of an older run's results after a crash | reused results are those the walk would compute |
| Persisted index: `persist.rs`, `store.rs` | SQLite rows, format, stamp, snapshot files | load, save, `needs_reindex`, snapshot read and write | indexing, watcher | several stores written one after another, a crash between any two | a row that calls a file unchanged says the truth about it |
| Watcher: `persist.rs`, `process_file_changes` | debounce buffer, batch | receive, modify, delete, update graph, save | all indexes | events during a batch, during a save, during the walk | the index catches up with the files |
| Call graph: `callgraph.rs` | nodes, name index, edges, `file_functions` | collect, resolve, remove a file, read callers again, snapshot, restore | indexing, watcher | incremental against full construction | the graph is the one the files define |
| Search indexes: `tantivy_index.rs`, `trigram.rs` | writer buffer, `dirty`, reader, two locks | add, delete, commit, search, `clear` | indexing, watcher, every query | a commit racing a read, a commit that fails | a read sees every write that returned |
| Query and analysis caches: `cache/` | entries, file dependencies, LRU order | get, insert, invalidate, evict, expire | queries, watcher | invalidation while the value is being computed | no entry survives the change it depends on |
| Worktrees: `engine/worktree.rs`, `engine/repo_registry.rs` | registry states, job locks, watch roots | register, index on demand, unregister, `reindex_all` | watcher, indexing, queries | removal while indexing, two callers of one job | no data without a registered owner, one index job per tree |
| Static analyses: `cfg.rs`, `dfg.rs`, `dead_code.rs` | blocks, edges, facts of each block | build, dominators, reachability, reaching definitions, liveness | tools | jumps out of nested constructs, worklists in hash-map order | what is reported holds of the function's runs |
| Language servers: `lsp.rs`, `tool_handlers/lsp.rs` | running servers, request tables, locks of their inputs | start, request, answer, time out, cancel | engine queries, an external process | late answers, a server that stops reading, a guard held across an await | every call gets its own answer, or returns without |
| Servers: `mcp.rs`, `http_server.rs`, `tool_handlers/` | sessions | dispatch | everything | little | `/ready` only when answers are current |
| Parser, other analyses, embeddings, ingestion, git, remote, configuration, knowledge graph | none of their own, or an external service's | pure functions or calls | | | functional correctness of the algorithm |

Interactions: the startup task walks and saves while the watcher task is already
running (`main.rs` starts both); queries run concurrently with both and commit
the search indexes as a side effect; a save runs its snapshot writer in a scoped
thread next to the row writer; a query for a worktree may index it, and asks the
watcher to watch it. All of them share the concurrent maps of the engine. Nothing
is flushed when the process ends, so an exit is a crash.

## Modules

| Module | Models | Used by |
|---|---|---|
| `IndexStore` | one repository's index across edits, saves and restarts | `MCIndexStore`, `IndexStore_proofs` |
| `FreshIndex`, `TantivyIndex` | what a search index promises, and the commit protocol that implements it | `MCTantivyIndex`, `TantivyIndex_proofs` |
| `CallGraph` | the graph and its incremental update | `MCCallGraph`, `CallGraph_proofs` |
| `QueryCache` | cached answers and their invalidation | `MCQueryCache`, `QueryCache_proofs` |
| `Worktrees` | registration, on-demand indexing and removal of linked worktrees | `MCWorktrees`, `Worktrees_proofs` |
| `ControlFlow` | the control flow graph of a function, as a pure construction | `ProgramAnalysis` |
| `DataFlow` | the analyses of a graph, as worklists | `ProgramAnalysis`, `DataFlow_proofs`, `Dominators_proofs` |
| `ProgramAnalysis` | the two composed, and compared with what the function does | `MCProgramAnalysis` |
| `LspClient` | the client of a language's server | `MCLspClient`, `LspClient_proofs` |

Operators marked `(Mutant: ...)` in a comment are what a definition after them
would be with a plausible bug; replacing the definition by one of them makes TLC
find the property that `PROJECT.json` names for it violated.

### `IndexStore`: one repository across restarts

A file's content is a number; indexed data is represented by the content it was
computed from (`symbols[f] = 2`: memory holds the symbols of content 2). Search
documents and call-graph functions are sets of contents, since both can hold
leftovers of older ones. A write gives a file a new mtime. A hash is the content
itself.

| Model | Code |
|---|---|
| `rows`, `format`, `stamp` | tables `files` and `symbols`, meta values `index_format` and `snapshot_stamp` |
| `snapshot` | `<hash>.callgraph.bin` with its stamp, nodes and `file_functions` |
| `documents`, `committed` | the token and trigram indexes with and without uncommitted writes; both are written and committed together |
| `symbols`, `hasSymbols`, `fileCache`, `graph`, `registered` | the engine's maps; `registered` is `file_functions` |
| `persisted`, `acc`, `indexed`, `todo`, `searchWarm`, `graphLoaded`, `changed` | locals of `index_repo_inner` and `complete_initialization` |
| `pending`, `watchBatch`, `watchSources` | the debounce buffer and the channel, the batch at hand, `graph_changes` |
| `save...`, `graphPc` | locals of `save_index_filtered` and of its snapshot thread |
| `Boot`, `WalkBegin`, `WalkFile`, `WalkInsert`, `WalkCommit` | `with_options`, the four preparations of the walk, one file through both passes, `symbols.insert`, the end of `complete_initialization` |
| `Reindex` | `reindex(Some(repo))` |
| `WatchReceive`, `WatchFile`, `WatchGraph` | `run_watch_mode`, one change, `update_call_graph` and the decision to save |
| `SaveBegin` ... `SaveEnd` | the steps of a save, each a point where the process can end or another task can run |
| `Edit`, `Stop`, `Search` | the user, the end of the process, the commit any query makes |

`rowsStamp`, `persisted.torn`, `snapshot.torn` and `walkEdits` are history: they appear
in properties and decide nothing.

Abstractions. The walk's preparation is one step, and so is one file of the walk
and one change of a batch: what happens inside is done by one thread over data of
that file. An unreadable file is a file that is gone. A file has one call-graph
entry and one document per content. A file of the repository always has symbols
to extract; a row whose symbols are empty is reached all the same, by a file that
is cached while `symbols` has none for it. The format is either this build's or
absent. The channel of capacity 100 and the debounce buffer are one buffer that a
batch may take any part of, which includes every order the two can produce for
different files.

### `TantivyIndex` and `FreshIndex`: the commit protocol

`FreshIndex` is the promise: writes take effect one after another, a read answers
from a prefix of them with every write that had returned when it was called, and
the prefix never shrinks, also not across a crash. `TantivyIndex` is the protocol
of `tantivy_index.rs`, line for line repeated by `trigram.rs`: the writer's
buffer, the `dirty` flag that is set after the writer's lock is released and
cleared before the commit, the `refresh` lock held across commit and reload,
`clear` with both locks, failures of commit and reload, and the end of the
process. `Fresh` instantiates the promise with `written <- ops` and
`shown <- snapshot.upTo`. Tantivy is external: a delete takes the documents added
before it, a commit makes the buffer durable as a whole, a failing call changes
nothing.

`IndexStore` uses the two views `documents` and `committed` where `TantivyIndex`
has the buffer and the index, and takes from it that a read sees every write.

### `CallGraph`: resolving calls again

A file's content is what the graph sees of it: functions with the type each is a
method of and the type it returns, declarations of structs and interfaces, and call
sites, each with the name called and what stands in front of it: a qualifier, a call
whose result is the receiver, or a variable that holds such a result. `Resolve` is
`resolve_call_site` as a function of the name index and of what is known of types.
`Scoped` is `resolve_scoped_callee`: by the receiver's type, by an interface that one
type implements, by a method that an embedded type promotes, else by place (`ByPlace`):
a name that is unique, the caller's own file, the file the qualifier names, and
otherwise the first function of the name. Numbers give the alphabetical order that
decides the first. The type of a call's result is what the function called declares
(`ResultType`) or its name suggests (`FactoryHint`).

`TakeChanges`, `ReadChanged`, `UpdateChanged`, `Reread` and `Updated` are
`process_file_changes` and `update_call_graph`: remove the changed files' functions,
insert the new ones with their declarations, resolve the calls of the changed files,
find by bare name the other files whose calls can change, and read each of those again,
as it is by then. Types are not looked at in this, so a file's calls can rest on
declarations other files no longer have. The history variable `readWith` keeps, for each
file, what was known of types when its calls were last resolved; `Rebuilt` is the graph
built from nothing with that knowledge. When no type changed since, that is what
`build_from_files` makes.

### `QueryCache`: three structures, three locks

`entries`, `dependents` and `lruOrder` are visited one at a time, as the code
does, in `remove` (`RemoveEntry`, `RemoveFile`, `RemoveRecent`), in
`insert_with_files` (`CheckRoom`, `Evict`, `Register`, `MarkRecent`, `Store`), in an
invalidation (`CollectKeys`, `InvalidateKey`, `DropFile`) and in `clear`. A query reads `symbols` at once, or the files
one by one. The watcher lists a change before it invalidates. Each answer lists
every file, the worst case for invalidation. An insertion is `raced` when its key
is being removed, or entries are being invalidated, between its first read and its
end; the properties are about the others.

### `Worktrees`: on first use

One primary repository, and paths at which linked worktrees come and go.
`order`/`repoState` is `RepoRegistry`, `indexJobs` the per-worktree locks.
A call (`ensure_repo_indexed`) refreshes the registry against git's list, waits
for the lock, looks at the state again, waits for the primaries, walks file by
file, verifies that the worktree is still registered, asks the watcher to watch.
`RefreshCompare`, `RefreshDrop` and `RefreshRegister` are `refresh_worktrees`, which
calls and the watcher run. `Reindex...` is `reindex_all` with its locks. The watcher drains `commands`,
then its events. `reindexJobs` holds the jobs `reindex_all` has still to wait for, each
with its place in the registry, and `ReindexLock` takes the first. `disturbed`, `orphaned` and `replaced` are history: worktrees that
were changed under a reindex, written after they went, and removed and added again.

### `ControlFlow`, `DataFlow`, `ProgramAnalysis`: a function and what is said of it

A function is a tree of statements: plain ones with what they read and write,
jumps, `if` with its `else if` chain, the loops, `match` and `switch`, `try`.
`Built` is `CfgBuilder::build_from_function`, handler by handler, on a record with
the blocks, the edges, the loop stack and the current block. `DataFlow` runs the
analyses of `cfg.rs` and `dfg.rs` on a graph. Blocks are kept in a hash map, whose
order differs between processes, so each worklist is a set of which any member may
be next; that includes the code's queues, and more orders than they can produce
after the first round. `FlowOfProgram` is the meaning of a function, defined from
the tree alone, and the properties compare it with the graph and the results with
the graph's paths.

### `LspClient`: a call, a server, a guard

A call takes the registered server or starts one, enters its request in the table,
takes the lock of the server's input, writes, and waits. The reader task looks up
the id of each message: an answer goes to whoever waits under that id, an error, a
null result or the server's own request with that id ends the wait without one.
`Timeout` is `send_request`'s, around the wait only; `Cancel` is that of
`find_references`, around everything. `get_symbol_definition` and `find_references`
hold a read guard of the symbol map across the call. A task that wants to write the
map blocks its thread until the guards are gone; `Workers` is the number of threads
of the runtime, and `WorkerFree` guards every step of a task.

The server may answer in any order, late, never, ask questions of its own, stop
reading, write what is not understood, or end. A message is shorter than what a
pipe takes at once, so it is written as a whole or not at all.

## Runs

| Run | Question | Answer |
|---|---|---|
| `index_offline` | Edits while the server is down, crashes anywhere in start, walk, reindex and save, call graph on: are reused rows and graph right? | Yes, but for a start from torn rows (below). |
| `index_fresh` | The same for search documents, and for symbols reused file by file (call graph off), if an edit never brings back an earlier content. | Yes. |
| `index_watched` | Edits while the server is down and while the watcher runs: does everything catch up, whatever batches, edits and saves interleave, and is nothing left behind when there is nothing left to do? | Yes, if no edit comes during the walk. |
| `commit_protocol` | Do reads see returned writes, is `clear` total, is the promise kept? | Yes, when commits succeed. |
| `commit_oneindexer` | One version per file, and no search that waits for ever, when commits may fail? | Yes. |
| `query_cache` | Is an entry current, and can it be evicted, when its insertion met no removal and no invalidation? | Yes, with every other interleaving of two queries, a removal and the watcher. |
| `worktree_calls` | Is a worktree that is Ready complete and watched, one that is gone dropped, work shared, and does every call return? | Yes, but for worktrees that a reindex or a removal disturbed. |
| `call_graph` | Is the updated graph the rebuilt one, once the watcher is through? | For names that are identifiers, yes as far as functions come and go; with regard to types, each file's calls are as of its last reading. |
| `flow_functions` | Does the graph of a function lead where its statements may go, and do the analyses find what holds along its paths, whatever order their worklists take? | Yes, but for what the next two runs and the last part of this text show. |
| `flow_wrapped` | Is unreachable code never run? | No: a `break;` in an expression statement has no edge. |
| `flow_rewrites` | Is a dead store never read? | No: what reaches a block that rewrites the variable is not kept. |
| `lsp_calls` | Does each call get its own answer, can it be told, and does it return? | Yes: `find_references` whatever the server does, the others if it reads. |

### Bounds, and why they are enough

Two files suffice for every property of `IndexStore`, each of which relates the
views of one file; the second one is there so that one file's save, batch or walk
can carry the other along. Two contents make a change and a revert, three or four
make chains of distinct contents. Two edits and two stops cover a crash during the
start that follows a crash; `index_fresh` has three edits. In `TantivyIndex` two
operations per replacement make four operations two replacements of a file, by one
thread in turn or by two at once; one clear and one stop can fall anywhere; the
operations are numbered, and a stop rewinds the number to what was committed.

`query_cache` has two queries, a key answered from the symbols and one from the
files, one file that changes once, and room for one entry: enough for a removal, an
insertion, an eviction and an invalidation of the same key to overlap in any way,
and for a file to be invalidated while the second key is being registered.
`worktree_calls` has one path, present or not at startup and added or removed once
after it, two calls, one `reindex_all` and two files, so that a walk can
be interrupted. `call_graph` has three files in two directories, each of which may hold
any of five contents or be gone: a caller through a result and through a variable, two
makers of the same name that declare different results, and two types, one of which
embeds the other in one of the contents and not in another; an interface; a path that
matches a qualifier; and one name that `bare_name` cannot take apart. Every resolution
occurs among the 216 initial graphs. Two edits are two batches, or one and an edit
between reading and reading again.
`flow_functions` has 33 functions of at most nine lines: each loop holds each jump in
an `if` or an arm, three of them are inside another loop, `else if`, `match` and
`try` are taken with and without their optional parts, and in one a block writes the
variable twice. Many have a block that reads the variable and then writes it. They are
small enough to take every order of the worklists.
`lsp_calls` has a call that holds the guard and waits, one that is made twice and
gives up, one writer, two threads, two server processes so that a second can be
started, and a pipe that one message fills; two calls of `find_references` make an
answer to the first arrive during the second.

Runs whose environment is bounded stop when the edits, stops or calls are used up,
so they switch the deadlock check off; so do the analyses, which end. The runs of
`TantivyIndex` keep it on: searches go on for ever.

### Fairness

In `IndexStore` the walk, the watcher and the saves are tasks and threads of a
multi-threaded runtime, none of which waits for another except by the scope that
joins a save, so each is weakly fair. Nothing is assumed of the user: edits,
restarts, searches and tool calls may or may not come. In `TantivyIndex` a search or
clear waits for `parking_lot` mutexes, which hand a contended lock on after at most
half a millisecond, so a waiting thread that finds the lock free again and again
gets it: strong fairness of `Refresh` and of `Clear`. An indexing thread goes on
with what it began, and nothing makes it begin.

In `Worktrees` calls, refreshes and a `reindex_all` that has begun go on, weakly
fair; the worktree locks are tokio mutexes, which queue their waiters, hence strong
fairness of the two steps that take one. With `startMode = "reindex"` the startup
itself calls `reindex_all`, so it begins. In `DataFlow` the loop over a worklist
runs until it is empty: weak fairness of the whole step, none of the choice of a
block. In `LspClient` a task that can go on does, a timer included, and a thread
that waits for the map gets it once no guard is held; nothing is assumed of the
server. `EveryCallReturns` states its premise, `ServersKeepReading`, in the formula.
The calls of a run are bounded: without a bound guards that overlap for ever would
starve a writer, as readers of a `dashmap` pass waiting writers.

## Proofs

Each proof module EXTENDS the module it is about. What is proved holds for every
value of the constants that the named assumptions admit.

- `IndexStore_proofs`: `TypeCorrect`; with `EditPhases \subseteq {"down"}`,
  `OfflineRowsTruthful` and `OfflineSymbolsCurrent`, the latter also with reverts, a
  reindex and the call graph on, where no run checks it. Neither is inductive. `OfflineInv` adds what carries them: a row, wherever it is held (on
  disk, preloaded, gathered by a save), records the symbols of the content its hash
  belongs to, its mtime is not ahead of the file's, and an equal mtime means the
  present content; symbols on their way from the walk into `symbols` and from there
  into a save are those of the files, because no file changes while the server is
  up; a graph that was loaded means that every file is unchanged.
  `OfflineInvariant` proves it inductive, one lemma per group of actions. On it rest two
  more. `OfflineGraphCurrent` (`ReadyGraphCurrentUnlessTorn`): `OfflineGraphInv` says that
  a stamp belongs to one save, that the rows a save gathers and the graph it reads are of
  the present files, and hence that rows and snapshot of one stamp are `Paired`: every
  file's nodes are the functions of the content its row was hashed from. A graph loaded
  under unchanged rows is then the files'; one that is not loaded is built on an empty
  one. `OfflineDocumentsCurrent`, with `~ Reverts` and `MaxReindexes = 0`: `DocumentsInv`
  says that a row of this format whose file is unchanged speaks for the documents in
  memory and for those committed. An edit makes every recorded row of its file speak for
  nothing (`Numbered`: no hash is ahead of the file's mtime), a save writes rows only
  after the commit, and an index that is not warm holds no document a row could speak
  for. `WatchedIsCurrent` (`SettledIsCurrent`) is about a server that stays up, and files
  edited before its start or once it is ready (`EditPhases \subseteq {"down", "ready"}`,
  `WatchEnabled`, `MaxStops = 0`, `MaxReindexes = 0`). Four views have to agree once
  nothing is left to do, and none of them is compared with the files at the end, so
  `WatchedInv` says who still knows of each difference. Of a file's events the last one
  tells whether it is there, and a batch holds one source of a file, the present one
  unless a later event waits (`EventsInv`, `SourcesInv`). Once no event of a file waits
  (`Heard`), its symbols and documents are those of the file (`MemoryInv`); the graph is that of
  `registered`, and `registered` is the file's unless the batch has a source of it
  (`RegisteredInv`); what a save under way hands on of the file is present, and the row is unless the batch with
  its change has still to be saved (`RowsInv`): a save reads the symbols in one step and
  sizes and times in another, and what it writes of a file edited in between is put
  right by the save of the batch with that file's event.
  `WatchedGraphCurrent` is the part about the graph alone, which holds earlier: as soon as the
  watcher is through, whatever a save has still to do. These
  invariants were model-checked with two files before they were proved. What goes wrong with edits
  at other times, with reverts, or with a reindex or a stop in between is told in the
  last part of this text.
- `TantivyIndex_proofs`: `TypeCorrect`; `FreshReads` (`ReadsSeeWrites` when commits
  succeed), from `FreshInv`, itself proved as `FreshInvariant`: a write that returned is on disk, or announced by
  `dirty`, or about to be committed by the holder of `refresh`; what is on disk is
  loaded, or its holder is about to reload; a reader past a step has what that step
  guarantees; `Implements`: `Spec => Fresh` when commits succeed, action by action:
  most steps stutter, `Buffered` writes, `Mark` returns, `Reload` publishes, `Stop`
  restarts. `ClearsAreTotal`, when commits succeed: a document that a clear should have
  removed is either uncommitted and about to be deleted by the clear under way, or was
  added after it. `OneIndexerOneVersion`, with one indexing thread and whatever fails:
  in the buffer and on disk a file's documents are of one version, unless the thread is
  between its delete and its add, because a commit takes the buffer as a whole.
- `QueryCache_proofs`: `CacheTypes`, `CacheInvariant`, `CacheUnracedCurrent`. An
  entry can only be trusted to be invalidated if its key is in its files' sets, so
  `CacheInv` says of an insertion that met nothing that the files it has registered
  with know its key and that what it read is not older than what was settled, of an
  entry that its files know it or the invalidation under way has it on its list, and
  of an insertion that did meet a removal that it is marked. `CacheUnracedEvictable`
  adds of the same insertions that from `MarkRecent` on the key stays in the queue
  until a removal of that key takes it out, which makes the insertion raced.
- `CallGraph_proofs`: `GraphInvHolds`, `IndexesAlwaysAgree`, `SettledGraphIsRebuilt`,
  for any contents and names. `GraphInv` says that a file the watcher has nothing to
  do with any more has its functions and declarations in the graph and, unless it is
  still to be read again, the edges that resolving its calls now gives with the types
  known at its last reading. The lemmas that carry it are `ResolvedByName`, that a call
  resolves alike under two indexes that agree on the name called and on the name whose
  result it is called on, and `CallNames`, that the second is called in the same
  function: hence reading only the callers of changed names suffices.
- `DataFlow_proofs`: `FlowInvHolds`, the invariant of the worklists: what is not
  pending agrees with its neighbours; and `ResultsAreRight`: when the analyses end,
  reaching definitions and liveness solve their equations, and are contained in
  every solution, and the reached blocks are the least set closed under edges.
  The second half needs the facts to stay below an arbitrary solution, which every
  visit keeps because the equations are monotone. `ReachingFollowsPaths`,
  `LivenessFollowsPaths` and `ChainsFollowPaths` then compare the results with paths.
  `From(S, E)`, what paths along `E` reach from `S`, takes as many rounds as there are
  blocks; `FromMeans` proves that it is the least set that holds `S` and is closed under
  `E`, since a round that adds nothing is the last and a set of n blocks cannot grow
  n + 1 times. The paths are stated from the statements (`Overwritten`, `ReadFirst`), not
  from the code's sets. `ReachesWhereItIsKept` and `LiveTowardsReading` say along which
  paths the code's own sets lead: from every definition, overwritten or not, and towards
  the blocks that read a variable and never write it. The first agrees with `Survives`
  for the last definition of a variable in a block, the second lies within `Needing`.
  What the theorems leave out is what the code gets wrong (below). `ReportsFollowPaths`
  carries this to the reports: outside the blocks that write the variable themselves,
  where `flow_rewrites` finds them wrong, no dead store is read and a use is called
  uninitialized just when no path brings a definition to it. `VisitsAlwaysProgress`
  (`VisitsProgress`) is the variant behind `AnalysisEnds`: what is found at a block
  follows from what its neighbours have by now (`Follows`), so a visit never takes
  anything back, and one that adds nothing shortens the worklist. There are finitely many
  facts and blocks, so every order comes to its end; that last step is about finite
  sequences and fairness and stays with TLC, and so does the end of the dominator passes.
- `Dominators_proofs`: `DominatorsAreSound`. `compute_dominators` takes blocks in
  hash-map order and compares their numbers, so no order of the passes can be relied
  on. The invariant says that the immediate dominators found so far form a tree that
  hangs from the entry (ranks fall along it), that the two fingers of
  `intersect_dominators` come to a block on both their branches, and that once no pass
  changes anything a block's dominator is above every predecessor. The blocks that
  paths come to without passing `a` then never contain one below `a` in the tree. The
  converse is false (see `DominatorsComplete` below), and `DominatorsAreFoundInOrder` says
  how far it holds: a block that was made before all the blocks it dominates
  (`MadeFirst`) is reported for every one of them. A finger of
  `intersect_dominators` passes such a block only if the other stands at an earlier one;
  so fingers that start at blocks it dominates stay among them (`MeetStays`,
  `CommonStays`), and at every moment of every pass the dominator kept for each of these
  blocks but the first is one of them (`OrderInv`). `LoopsAreFoundInOrder` concludes that every loop
  is found by a back edge if each strongly connected set of blocks that can be reached has
  a head that dominates it and was made first (`HeadedLoops`), which is so in each of
  the 33 graphs of `flow_functions`.
- `Worktrees_proofs`: `RegisteredOnce`, `RemovedLeavesNothing`, `ReadyMeansComplete`,
  `ReadyMeansWatched`, all from `WorktreesInvariant`, for any number of worktrees, calls
  and `reindex_all`; and `CallsShareTheWork`, for one `reindex_all`. The invariant says
  where a call can be while it holds a lock, refreshes or drops (`CallInv`, `LockInv`),
  what the registry and git's lists can name (`RegistryInv`, `EnteredInv`), and of
  worktrees that were never removed: a walk that no `reindex_all` disturbed has written
  what it is through with, and every `reindex_all` that has begun meanwhile still waits
  for its lock (`WalkInv`); one that is Ready is complete or will be walked again
  (`ReadyInv`) and is watched or the watcher has been or will be asked (`WatchInv`).
  `RemovedIsDropped` is inductive together with the types and `CallInv`. The hypothesis
  `OneReindexer` is needed, as the last part of this text shows.
- `LspClient_proofs`: `LspInvHolds`, `AnswersAlwaysMatch`, `WaitersAlwaysHeard`.
  `IdsName` is what makes them inductive: of all the requests a server's table, the
  pipe, the server and the calls know, no two have the same id, and all ids are
  below the next; so what is looked up by id is the caller's own request however
  long ago an earlier one was given up. This holds with any number of calls,
  servers and threads, and without fairness.

Only model-checked, because out of the prover's reach: the liveness properties (fairness,
`ENABLED`), the end of the dominator passes among them, and anything in a module with
`RECURSIVE` operators, which are `ControlFlow` and `ProgramAnalysis` (the construction of
the graph descends into statements): `UnreachableIsNeverRun` and `GraphFlowsAsProgram`.
The dominator passes have no variant we know of: a block's new dominator need not be
above its old one, so neither the sets of dominators nor the tree shrink visit by visit.

## Further disagreements seen in the model

No run is spent on these. Each can be reproduced with the constants named, the
others as in the cfg of the component's run.

Index. Each is a configuration of `MCIndexStore` with two files and two contents
(three without reverts).

- Snapshot and rows: `ReadyGraphCurrent` fails with `EditPhases = {"down"}`, no watch,
  call graph on, one edit, two stops. Rows and stamp are separate transactions
  (`persist.rs:346`), and `engine/mod.rs:3039` takes the stamp to tell saves apart.
  With three stops and a reindex the wrong graph stays: `reindex` keeps it and saves it
  with rows of the same stamp (`engine/mod.rs:1453`), and the next start, whose rows and
  stamp agree, loads it. So a snapshot remembers, as history, the start its graph is of.
- Reindex adds: `ReadyGraphCurrent` fails with `EditPhases = {"ready"}`, no watch, one
  edit, one reindex: the graph is collected on top of the old (`engine/mod.rs:1453`).
  `reindex_all` keeps the graphs of all repositories likewise (`engine/mod.rs:1424`).
- Rows of uncommitted documents: `ReadyDocumentsCurrent` fails with
  `EditPhases = {"ready"}`, watch, one edit, one stop: the watcher saves rows
  (`engine/mod.rs:3409`) before anything commits the documents.
- Metadata ahead of symbols: `ReadySymbolsCurrent` and, with the call graph on,
  `ReadyGraphCurrentUnlessTorn` fail with `EditPhases = {"ready"}`, watch, two edits, one
  stop: a save records the metadata of changes still in the buffer
  (`engine/mod.rs:3074`); `RowsTruthful` fails the same way with
  `EditPhases = {"walking"}`.
- Documents of a deleted file: the watcher's `Deleted` (`engine/mod.rs:3359`) leaves the
  file's documents in both indexes, and the save that follows drops its row, which
  `drop_removed_files` goes by, although `engine/indexing.rs:862` says that "those of
  files gone since the last run must go explicitly".
- `ReadyDocumentsCurrent` fails with `Reverts = TRUE` and two stops: a changed file
  is walked and committed, the server dies before the save, and the change is taken
  back; the rows then call the file unchanged. It fails with one reindex and one stop,
  too: `reindex` deletes the documents, a search commits that in the middle of the
  walk, the server dies, and the rows of the last save call the partial index complete.

Search indexes. `ReadsSeeWrites` fails with `CommitsCanFail = TRUE` and one indexing
thread: the flag is already down (`tantivy_index.rs:422`). `OneVersionPerFile` fails with
two indexing threads: walk and watcher replace a file by two writer calls each
(`engine/mod.rs:3317`).

Query cache. `ChangeInvalidates`, which leaves out no raced entry, fails: an insertion
whose key is being removed loses its registrations to the removal
(`query_cache.rs:355`), and a search that read a file before its change and stores its
answer after the invalidation keeps it until it expires (`engine/mod.rs:2370`). Two
insertions can both see room and exceed the capacity by the number of queries
(`query_cache.rs:287`). The files an entry depends on are those of its results, so a
change that makes another file match invalidates nothing (`engine/mod.rs:2074`).

Worktrees. `CheckoutRegistered` fails with one call, no `reindex_all` and
`StartModes = {"walk"}`: `docs/configuration.md:143` says that a worktree inside a watched
tree is registered as soon as its `.git` file appears, and the watcher passes over a
file with no source extension (`persist.rs:713`). A worktree removed and added again
between two looks of a call is taken for the same one; `RemoveWorktree` followed by
`CreateWorktree` at one path leaves the path in `watched_paths` and the new
directory unwatched (`persist.rs:668`); what is edited in a worktree while it is
walked is not looked at again. Two `reindex_all` calls take the worktree locks in the
registry's order of the moment, which can differ between them (`engine/mod.rs:1433`).
`CallsShareWork` fails with two `reindex_all` that overlap (`Reindexers = {r1, r2}`): both
have listed the jobs before a call made the worktree Ready, so neither waits for its
lock; the first fails to walk it and sets it `Failed` (`engine/mod.rs:1394`), a second call
finds it so and begins, the other sets it Ready, and the call indexes what is Ready.

Call graph. `SettledIsRebuilt` leaves out what fails (`Followed`): `bare_name` gives back
the whole key of a function like Ruby's `valid?`, no file is found to call it, and its
callers' edges stay (`engine/mod.rs:3446`). With `readWith` replaced by what the files
declare now it fails too: a file is not read again when a result type changes elsewhere
("The price", `engine/mod.rs:3425`), and, which the comment does not mention, when a
struct gains or loses an embedded type, an interface changes, or a type gains or loses
another method of the interface (`callgraph.rs:2050`).

Analyses. `DominatorsComplete` fails with `Graphs <- MCElseIfOnly`: Cooper's algorithm
compares positions in a reverse postorder, `intersect_dominators` the numbers blocks
were created with (`cfg.rs:270`). A handler of `try` skips the `finally` part
(`cfg.rs:1749`), and `break` in a `switch` leaves the loop around it. In one block a
definition is tied to later lines only, so a read that a loop brings back above the
write is not seen (`dfg.rs:612`).

Without `~ Overwritten(d)`, `ReachingIsPathwise` fails for `x = 1; x = 2` in one block:
GEN holds every definition of the block and KILL takes none of them away
(`dfg.rs:350`, `494`), so the first is said to reach the block's end and what follows,
where `dfg.rs:115` has "Definitions reaching the exit of this block" and
`tool_metadata.rs:1564` "which variable assignments reach each point in the code". Uses
behind the block are tied to it, and a dead store passes as read. In the same way a use
that its own block writes before it is tied to definitions from before the block, since
`definition_reaches_use` compares lines inside one block only.
With `Needing(v) \subseteq live`, `LivenessIsPathwise` fails for `x = x + 1` in a loop:
`use_before_def` is the uses less everything the block defines (`dfg.rs:530`), whatever
the order, where `dfg.rs:121` has "Variables used before defined in this block"; so `x` is
not live at the block's start nor in front of it. The tools do not print the live
sets.

Language servers. With `Workers = 1`, that is as many threads as writers, both
liveness properties of `lsp_calls` fail: a task holding the guard of the symbol map
waits for the server, a writer blocks the last thread, and neither the answer nor a
timeout is handled any more (`engine/mod.rs:2689`, `2166`). Without
`ServersKeepReading` `EveryCallReturns` fails: `send_request`'s timeout begins after
the write (`lsp.rs:262`). Two calls that find no server start one each
(`lsp.rs:127`); one that has ended stays registered and every later call fails
(`lsp.rs:121`); entries of calls that gave up are never removed. A `null` result
reads as no result, so the call fails with "Response channel closed" where it means to
return nothing (`lsp.rs:216`).

## Not modelled

Several repositories in one index; `--reindex` beyond its order; the TF-IDF and
normalized-document snapshots, which go by the same stamp as the call graph's; neural
vectors; the shared temporary file of two simultaneous snapshot writes; two writes of
one size within one second, which `needs_reindex` cannot tell apart; a file that
cannot be read for another reason than being gone; git's own files.

Of the analyses: `let x = if ...` as one statement of two, labelled jumps, arms that
are not blocks, use after move, the extraction of variables from the text of a line,
parameters (the model's functions have none: what `find_dead_stores` and
`find_uninitialized_uses` skip for them, `dfg.rs:628`, `653`, never arises), the lists of
nodes that wrap a body in JavaScript and C; type inference, taint, security rules and supply-chain checks,
which are tables of patterns over text. Of the call graph: its queries (callers, paths,
metrics), package-qualified calls and their import tables, field types, aliases and chains
of more than one call, foreign locals, and what Rust and BSL call sites add. Of the language
server client: a message written in parts, `shutdown_all`, which nothing calls, and the
conversion of results.

Most of the repository's lines are such tables, parsers, formats and pure reads, in
which no step depends on another's: tree-sitter extraction, embeddings, 1C dumps,
remote repositories, the servers' dispatch, configuration, the knowledge graph, the web
frontend. The list of components with the reasons is in `PROJECT.json`.

## Plan

What is left, in this order.

1. `SnapshotFile`: `write_snapshot` with two savers, one temporary name and a mapped
   reader (`persist.rs:408`), to replace the atomic `SaveGraphWrite`.
2. `WatchPipeline`: notify queue, debounce buffer and channel with its capacity,
   refining `pending` of `IndexStore`; the two watchers' deduplication rules compared
   (`persist.rs:555`).
3. Composition: `IndexStore` with `TantivyIndex` in place of `documents` and
   `committed`, and the walk beside the watcher (`engine/indexing.rs:211`).
4. Pure algorithms against their definitions: the Merkle tree of `incremental.rs`, rank
   fusion of `hybrid_search.rs`, the call graph's path queries.
