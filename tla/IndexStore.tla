----------------------------- MODULE IndexStore -----------------------------
(***************************************************************************)
(* One repository of narsil-mcp run with --persist (and, if the constants  *)
(* say so, --watch and --call-graph) across restarts of the server: what   *)
(* the walk of src/engine/indexing.rs takes from the last save, what       *)
(* save_index_filtered writes, what the watcher changes in between, and    *)
(* what is left when the process ends between two of these steps.          *)
(*                                                                         *)
(* The content of a file is a number, its `text'; 0 is no file.  Indexed   *)
(* data is represented by the text it was computed from: symbols[f] = 2    *)
(* says that memory holds the symbols the parser extracts from text 2.     *)
(* Search documents and call-graph nodes are sets of texts, because both   *)
(* can hold the traces of several contents of one file.                    *)
(*                                                                         *)
(* What ends with the process: symbols, fileCache, graph, uncommitted      *)
(* search documents, the tasks.  What outlives it: the files on disk, the  *)
(* SQLite rows and meta values, the call-graph snapshot file, the          *)
(* committed search documents.                                             *)
(***************************************************************************)
EXTENDS Naturals, FiniteSets

CONSTANTS
  Files,             \* the source files of the repository
  Texts,             \* what a file can hold, positive numbers
  EditPhases,        \* when the user edits files: "down", "walking", "ready"
  WatchEnabled,      \* --watch
  CallGraphEnabled,  \* --call-graph
  Reverts,           \* an edit can bring back an earlier content
  MaxEdits,          \* bound on edits
  MaxStops,          \* bound on exits, kills and crashes of the server
  MaxReindexes       \* bound on calls of the `reindex' tool

NoText == 0

ASSUME TextsAssumption == Texts \subseteq Nat \ {NoText}
ASSUME FlagsAssumption ==
  /\ WatchEnabled \in BOOLEAN
  /\ CallGraphEnabled \in BOOLEAN
  /\ Reverts \in BOOLEAN
ASSUME BoundsAssumption ==
  MaxEdits \in Nat /\ MaxStops \in Nat /\ MaxReindexes \in Nat

Content == Texts \cup {NoText}

\* A row of the `files' table with the file's rows of the `symbols' table.
\* `hash' is the text the recorded content hash belongs to.
Row == [mtime : Nat, hash : Content, symbols : Content]
NoRow == [mtime |-> 0, hash |-> NoText, symbols |-> NoText]

\* The tasks that save: the one that walked (startup or `reindex'), the watcher.
Savers == {"walk", "watch"}

VARIABLES
  \* the repository on disk, and the environment's counters
  disk, edits, stops, reindexes,
  \* what outlives the process
  rows, format, stamp, snapshot, committed, rowsStamp,
  \* the engine's memory
  up, ready, symbols, hasSymbols, fileCache, graph, registered, documents,
  \* the walk
  walkPc, walkBy, walkEdits, persisted, todo, acc, indexed, searchWarm, graphLoaded, changed,
  \* the watcher
  pending, watchPc, watchBatch, watchSources,
  \* the saves
  lastStamp, savePc, saveStamp, saveSymbols, saveFiles, saveRows,
  graphPc, saveGraph

envVars     == <<disk, edits, stops, reindexes>>
storeVars   == <<rows, format, stamp, snapshot, rowsStamp>>
memoryVars  == <<symbols, hasSymbols, fileCache, graph, registered, documents>>
walkVars    == <<walkPc, walkBy, walkEdits, persisted, todo, acc, indexed, searchWarm,
                 graphLoaded, changed>>
watchVars   == <<pending, watchPc, watchBatch, watchSources>>
saveVars    == <<lastStamp, savePc, saveStamp, saveSymbols, saveFiles, saveRows,
                 graphPc, saveGraph>>
vars == <<envVars, storeVars, committed, up, ready, memoryVars, walkVars, watchVars, saveVars>>

OnDisk(f) == disk[f].text # NoText

EmptyGraph == [f \in Files |-> {}]
NoFunctions == [f \in Files |-> NoText]
NoSnapshot == [stamp |-> 0, nodes |-> EmptyGraph, registered |-> NoFunctions, torn |-> FALSE]
NoRows == [f \in Files |-> NoRow]
Change == {"none", "modified", "deleted"}
NoChanges == [f \in Files |-> "none"]

\* `torn' is history, not code, here and in a snapshot: the rows and the stamp that the
\* graph was loaded by are of different saves, or the snapshot is of such a graph.
NothingPersisted == [warm |-> FALSE, format |-> FALSE, rows |-> NoRows, stamp |-> 0,
                     torn |-> FALSE]

Recorded(rs) == {f \in Files : rs[f] # NoRow}

\* PersistedIndex::needs_reindex: size and mtime are trusted before the hash.
NeedsReindex(row, f) ==
  /\ row.mtime # disk[f].mtime
  /\ row.hash # disk[f].text

\* unchanged_since: recorded, there to be read, and not in need of reindexing.
UnchangedSince(rs, f) ==
  /\ rs[f] # NoRow
  /\ OnDisk(f)
  /\ ~ NeedsReindex(rs[f], f)

\* Neither task is saving.
Idle == [s \in Savers |-> "idle"]

-----------------------------------------------------------------------------
Init ==
  /\ disk \in [Files -> [text : Content \cap {NoText, 1}, mtime : {1}]]
  /\ edits = 0 /\ stops = 0 /\ reindexes = 0
  /\ rows = NoRows /\ format = FALSE /\ stamp = 0 /\ rowsStamp = 0
  /\ snapshot = NoSnapshot
  /\ committed = [f \in Files |-> {}]
  /\ up = FALSE /\ ready = FALSE
  /\ symbols = NoFunctions /\ hasSymbols = FALSE /\ fileCache = {}
  /\ graph = EmptyGraph /\ registered = NoFunctions
  /\ documents = [f \in Files |-> {}]
  /\ walkPc = "off" /\ walkBy = "startup" /\ walkEdits = 0 /\ persisted = NothingPersisted
  /\ todo = {} /\ acc = NoFunctions /\ indexed = {} /\ searchWarm = FALSE /\ graphLoaded = FALSE
  /\ changed = FALSE
  /\ pending = NoChanges
  /\ watchPc = "idle" /\ watchBatch = NoChanges /\ watchSources = {}
  /\ lastStamp = 0 /\ savePc = Idle /\ graphPc = Idle
  /\ saveStamp = [s \in Savers |-> 0]
  /\ saveSymbols = [s \in Savers |-> NoFunctions]
  /\ saveFiles = [s \in Savers |-> {}]
  /\ saveRows = [s \in Savers |-> NoRows]
  /\ saveGraph = [s \in Savers |-> NoSnapshot]

-----------------------------------------------------------------------------
(* The environment: edits and the end of the process. *)

Phase == IF ~ up THEN "down" ELSE IF ready THEN "ready" ELSE "walking"

\* The user writes, creates or removes a file; a write moves mtime on.  The
\* running watcher sees the event, and a later event of the same file replaces
\* one its debounce buffer still holds.
Edit(f, text) ==
  /\ Phase \in EditPhases
  /\ edits < MaxEdits
  /\ text # disk[f].text
  /\ Reverts \/ text \in {NoText, disk[f].mtime + 1}
  /\ edits' = edits + 1
  /\ disk' = [disk EXCEPT ![f] = [text |-> text, mtime |-> @.mtime + 1]]
  /\ pending' = IF up /\ WatchEnabled
                THEN [pending EXCEPT ![f] = IF text = NoText THEN "deleted" ELSE "modified"]
                ELSE pending
  /\ UNCHANGED <<stops, reindexes, storeVars, committed, up, ready, memoryVars, walkVars,
                 watchPc, watchBatch, watchSources, saveVars>>

\* The process ends: nothing is flushed on exit, so an exit, a kill and a crash
\* all leave what was committed before.
Stop ==
  /\ up /\ stops < MaxStops
  /\ stops' = stops + 1
  /\ up' = FALSE /\ ready' = FALSE
  /\ symbols' = NoFunctions /\ hasSymbols' = FALSE /\ fileCache' = {}
  /\ graph' = EmptyGraph /\ registered' = NoFunctions
  /\ documents' = committed
  /\ walkPc' = "off" /\ todo' = {}
  /\ pending' = NoChanges
  /\ watchPc' = "idle" /\ watchBatch' = NoChanges /\ watchSources' = {}
  /\ savePc' = Idle /\ graphPc' = Idle
  /\ UNCHANGED <<disk, edits, reindexes, storeVars, committed, walkBy, walkEdits, persisted,
                 acc, indexed, searchWarm, graphLoaded, changed, lastStamp,
                 saveStamp, saveSymbols, saveFiles, saveRows, saveGraph>>

\* Any search, count or statistics call commits what is pending first.
Search ==
  /\ up /\ committed # documents
  /\ committed' = documents
  /\ UNCHANGED <<envVars, storeVars, up, ready, memoryVars, walkVars, watchVars, saveVars>>

-----------------------------------------------------------------------------
(* Startup and the walk. *)

\* with_options: the rows of the last save become the symbols served until the
\* walk is done; index_repo_warm gets them as `persisted'.
Boot ==
  /\ ~ up
  /\ up' = TRUE /\ ready' = FALSE
  /\ persisted' = [warm |-> Recorded(rows) # {}, format |-> format, rows |-> rows,
                   stamp |-> stamp, torn |-> rowsStamp # stamp \/ snapshot.torn]
  /\ hasSymbols' = (Recorded(rows) # {})
  /\ symbols' = [f \in Files |-> rows[f].symbols]
  /\ walkPc' = "begin" /\ walkBy' = "startup"
  /\ UNCHANGED <<envVars, storeVars, committed, fileCache, graph, registered, documents,
                 walkEdits, todo, acc, indexed, searchWarm, graphLoaded, changed, watchVars,
                 saveVars>>

\* Only an index of this build's format is reused.
SameFormat == persisted.warm /\ persisted.format

\* (Mutant: any snapshot will do.)
AnySnapshot == snapshot.stamp # 0

\* A snapshot with another stamp is not from the same save.
SnapshotOfTheSave == persisted.stamp # 0 /\ snapshot.stamp = persisted.stamp

\* prepare_search_state, walk_repo_files, drop_removed_files, restore_unchanged.
WalkBegin ==
  /\ walkPc = "begin"
  /\ LET listed == {f \in Files : OnDisk(f)}
         gone   == Recorded(persisted.rows) \ listed
         warm   == SameFormat /\ \E f \in Files : documents[f] # {}
         load   == /\ CallGraphEnabled /\ warm
                   /\ gone = {}
                   /\ \A f \in listed : UnchangedSince(persisted.rows, f)
                   /\ SnapshotOfTheSave
     IN  /\ searchWarm' = warm
         /\ documents' = [f \in Files |-> IF warm /\ f \notin gone THEN documents[f] ELSE {}]
         /\ committed' = IF SameFormat THEN documents ELSE committed
         /\ graphLoaded' = load
         /\ graph' = IF load THEN snapshot.nodes ELSE graph
         /\ registered' = IF load THEN snapshot.registered ELSE registered
         /\ todo' = listed
         /\ persisted' = [persisted EXCEPT !.torn = @ /\ (load \/ walkBy = "reindex")]
  /\ acc' = NoFunctions /\ indexed' = {} /\ changed' = ~ persisted.warm
  /\ walkPc' = "files" /\ walkEdits' = edits
  /\ UNCHANGED <<envVars, storeVars, up, ready, symbols, hasSymbols, fileCache,
                 walkBy, watchVars, saveVars>>

\* (Mutant: recorded symbols are reused unseen.)
RecordedSymbols(f) ==
  IF SameFormat /\ persisted.rows[f].symbols # NoText
  THEN persisted.rows[f].symbols
  ELSE disk[f].text

\* The symbols of a file: from the persisted index, or from the parser.
FileSymbols(f) ==
  IF \/ graphLoaded
     \/ /\ ~ CallGraphEnabled /\ SameFormat
        /\ persisted.rows[f].symbols # NoText
        /\ ~ NeedsReindex(persisted.rows[f], f)
  THEN persisted.rows[f].symbols
  ELSE disk[f].text

\* (Mutant: new documents on top of the old ones.)
AddedOnTop(f) == documents[f] \cup {disk[f].text}

\* The documents a changed file leaves: its old ones go first if there can be any.
Reindexed(f) == (IF searchWarm THEN {} ELSE documents[f]) \cup {disk[f].text}

\* prepare_file, index_prepared_file and both call-graph passes of one file.
\* A file that is gone by now is skipped; the documents of an unchanged file
\* are kept, those of a changed one replaced.
WalkFile(f) ==
  /\ walkPc = "files" /\ f \in todo
  /\ todo' = todo \ {f}
  /\ IF ~ OnDisk(f)
     THEN UNCHANGED <<fileCache, acc, indexed, changed, documents, graph, registered>>
     ELSE LET unchanged == searchWarm /\ UnchangedSince(persisted.rows, f)
              parse == CallGraphEnabled /\ ~ graphLoaded
          IN  /\ indexed' = indexed \cup {f} /\ fileCache' = fileCache \cup {f}
              /\ acc' = [acc EXCEPT ![f] = FileSymbols(f)]
              /\ changed' = (changed \/ ~ unchanged)
              /\ documents' = IF unchanged THEN documents
                              ELSE [documents EXCEPT ![f] = Reindexed(f)]
              /\ graph' = IF parse THEN [graph EXCEPT ![f] = @ \cup {disk[f].text}] ELSE graph
              /\ registered' = IF parse THEN [registered EXCEPT ![f] = disk[f].text]
                                        ELSE registered
  /\ UNCHANGED <<envVars, storeVars, committed, up, ready, symbols, hasSymbols, walkPc, walkBy,
                 walkEdits, persisted, searchWarm, graphLoaded, watchVars, saveVars>>

\* (Mutant: only cached files keep an entry.)
WalkInsertCached ==
  /\ walkPc = "files" /\ todo = {}
  /\ symbols' = [f \in fileCache |-> acc[f]] /\ hasSymbols' = TRUE
  /\ walkPc' = IF walkBy = "startup" THEN "commit" ELSE "save"
  /\ UNCHANGED <<envVars, storeVars, committed, up, ready, fileCache, graph, registered, documents,
                 walkBy, walkEdits, persisted, todo, acc, indexed, searchWarm, graphLoaded,
                 changed, watchVars, saveVars>>

\* self.symbols.insert: the walk's symbols replace whatever is there.
WalkInsert ==
  /\ walkPc = "files" /\ todo = {}
  /\ symbols' = acc /\ hasSymbols' = TRUE
  /\ walkPc' = IF walkBy = "startup" THEN "commit" ELSE "save"
  /\ UNCHANGED <<envVars, storeVars, committed, up, ready, fileCache, graph, registered, documents,
                 walkBy, walkEdits, persisted, todo, acc, indexed, searchWarm, graphLoaded,
                 changed, watchVars, saveVars>>

\* load_startup_call_graph: an empty graph takes the snapshot, whatever its stamp.
TakesStartupGraph == CallGraphEnabled /\ graph = EmptyGraph /\ snapshot.stamp # 0

\* complete_initialization after the walk: commit the search indexes, look for a
\* snapshot of the graph, save if the walk found work.
WalkCommit ==
  /\ walkPc = "commit"
  /\ committed' = documents
  /\ graph' = IF TakesStartupGraph THEN snapshot.nodes ELSE graph
  /\ registered' = IF TakesStartupGraph THEN snapshot.registered ELSE registered
  /\ LET save == changed \/ Cardinality(indexed) # Cardinality(Recorded(persisted.rows))
     IN  /\ walkPc' = IF save THEN "save" ELSE "done"
         /\ ready' = ~ save
  /\ UNCHANGED <<envVars, storeVars, up, symbols, hasSymbols, fileCache, documents, walkBy,
                 walkEdits, persisted, todo, acc, indexed, searchWarm, graphLoaded, changed,
                 watchVars, saveVars>>

\* reindex(Some(name)): the symbols go, the call graph stays, and the walk
\* starts without a persisted index.
Reindex ==
  /\ ready /\ walkPc = "done"
  /\ reindexes < MaxReindexes
  /\ reindexes' = reindexes + 1
  /\ symbols' = NoFunctions /\ hasSymbols' = FALSE
  /\ persisted' = [NothingPersisted EXCEPT !.torn = persisted.torn]
  /\ walkPc' = "begin" /\ walkBy' = "reindex"
  /\ UNCHANGED <<disk, edits, stops, storeVars, committed, up, ready, fileCache, graph, registered,
                 documents, walkEdits, todo, acc, indexed, searchWarm, graphLoaded, changed,
                 watchVars, saveVars>>

-----------------------------------------------------------------------------
(* The watcher: process_file_changes, for a batch of delivered changes. *)

\* The loop takes a flushed debounce buffer from the channel.
WatchReceive(batch) ==
  /\ up /\ watchPc = "idle"
  /\ \A f \in batch : pending[f] # "none"
  /\ watchBatch' = [f \in Files |-> IF f \in batch THEN pending[f] ELSE "none"]
  /\ pending' = [f \in Files |-> IF f \in batch THEN "none" ELSE pending[f]]
  /\ watchPc' = "files" /\ watchSources' = {}
  /\ UNCHANGED <<envVars, storeVars, committed, up, ready, memoryVars, walkVars, saveVars>>

\* A created or modified file that cannot be read any more is passed over.
WatchSkip(f) ==
  /\ watchBatch[f] = "modified" /\ ~ OnDisk(f)
  /\ UNCHANGED <<symbols, fileCache, documents, watchSources>>

WatchModified(f) ==
  /\ watchBatch[f] = "modified" /\ OnDisk(f)
  /\ symbols' = IF hasSymbols THEN [symbols EXCEPT ![f] = disk[f].text] ELSE symbols
  /\ fileCache' = fileCache \cup {f}
  /\ documents' = [documents EXCEPT ![f] = {disk[f].text}]
  /\ watchSources' = watchSources \cup {[file |-> f, text |-> disk[f].text]}

\* (Mutant: the symbols of a deleted file stay, too.)
WatchDeletedKeeps(f) ==
  /\ watchBatch[f] = "deleted"
  /\ fileCache' = fileCache \ {f}
  /\ watchSources' = watchSources \cup {[file |-> f, text |-> NoText]}
  /\ UNCHANGED <<symbols, documents>>

\* The search documents of a deleted file stay.
WatchDeleted(f) ==
  /\ watchBatch[f] = "deleted"
  /\ symbols' = [symbols EXCEPT ![f] = NoText]
  /\ fileCache' = fileCache \ {f}
  /\ watchSources' = watchSources \cup {[file |-> f, text |-> NoText]}
  /\ UNCHANGED documents

WatchFile(f) ==
  /\ watchPc = "files"
  /\ WatchSkip(f) \/ WatchModified(f) \/ WatchDeleted(f)
  /\ watchBatch' = [watchBatch EXCEPT ![f] = "none"]
  /\ UNCHANGED <<envVars, storeVars, committed, up, ready, hasSymbols, graph, registered, walkVars,
                 pending, watchPc, saveVars>>

\* (Mutant: the old functions of a changed file are not removed.)
GraphAdded(source) == graph[source.file] \cup ({source.text} \ {NoText})

\* update_call_graph: remove_functions_for_file knows the functions registered
\* for the file, then the new content's functions are added.
GraphAfter(source) == (graph[source.file] \ {registered[source.file]}) \cup ({source.text} \ {NoText})

\* The batch is through: one update of the call graph, and a save if any file
\* was reindexed or removed.
WatchGraph ==
  /\ watchPc = "files" /\ watchBatch = NoChanges
  /\ watchPc' = IF watchSources # {} THEN "save" ELSE "idle"
  /\ LET of(f) == CHOOSE source \in watchSources : source.file = f
         updated == IF CallGraphEnabled THEN {source.file : source \in watchSources} ELSE {}
     IN  /\ graph' = [f \in Files |-> IF f \in updated THEN GraphAfter(of(f)) ELSE graph[f]]
         /\ registered' = [f \in Files |-> IF f \in updated THEN of(f).text ELSE registered[f]]
  /\ watchSources' = {}
  /\ UNCHANGED <<envVars, storeVars, committed, up, ready, symbols, hasSymbols, fileCache, documents,
                 walkVars, pending, watchBatch, saveVars>>

-----------------------------------------------------------------------------
(* save_index_filtered, by task s.  The call-graph snapshot is written by a *)
(* scoped thread of its own while the rows are gathered and replaced.       *)

WantsSave(s) == IF s = "walk" THEN walkPc = "save" ELSE watchPc = "save"

\* Every save has a stamp of its own.
SaveBegin(s) ==
  /\ WantsSave(s) /\ savePc[s] = "idle"
  /\ lastStamp' = lastStamp + 1
  /\ saveStamp' = [saveStamp EXCEPT ![s] = lastStamp + 1]
  /\ savePc' = [savePc EXCEPT ![s] = "symbols"]
  /\ graphPc' = [graphPc EXCEPT ![s] = IF CallGraphEnabled THEN "read" ELSE "idle"]
  /\ UNCHANGED <<envVars, storeVars, committed, up, ready, memoryVars, walkVars, watchVars,
                 saveSymbols, saveFiles, saveRows, saveGraph>>

SaveGraphRead(s) ==
  /\ graphPc[s] = "read"
  /\ saveGraph' = [saveGraph EXCEPT ![s] = [stamp |-> saveStamp[s], nodes |-> graph,
                                            registered |-> registered,
                                            torn |-> persisted.torn]]
  /\ graphPc' = [graphPc EXCEPT ![s] = "write"]
  /\ UNCHANGED <<envVars, storeVars, committed, up, ready, memoryVars, walkVars, watchVars,
                 lastStamp, savePc, saveStamp, saveSymbols, saveFiles, saveRows>>

\* write_snapshot's rename: the file changes as a whole.
SaveGraphWrite(s) ==
  /\ graphPc[s] = "write"
  /\ snapshot' = saveGraph[s]
  /\ graphPc' = [graphPc EXCEPT ![s] = "idle"]
  /\ UNCHANGED <<envVars, rows, format, stamp, rowsStamp, committed, up, ready, memoryVars,
                 walkVars, watchVars, lastStamp, savePc, saveStamp, saveSymbols, saveFiles,
                 saveRows, saveGraph>>

\* by_file: the symbols grouped by file, and every file of file_cache.
SaveSymbols(s) ==
  /\ savePc[s] = "symbols"
  /\ saveSymbols' = [saveSymbols EXCEPT ![s] = symbols]
  /\ saveFiles' = [saveFiles EXCEPT ![s] = fileCache \cup {f \in Files : symbols[f] # NoText}]
  /\ savePc' = [savePc EXCEPT ![s] = "stat"]
  /\ UNCHANGED <<envVars, storeVars, committed, up, ready, memoryVars, walkVars, watchVars,
                 lastStamp, saveStamp, saveRows, graphPc, saveGraph>>

\* (Mutant: the content hash of the previous save is kept whatever changed.)
SaveStatOldHash(s) ==
  /\ savePc[s] = "stat"
  /\ saveRows' = [saveRows EXCEPT ![s] =
       [f \in Files |->
          IF f \in saveFiles[s] /\ OnDisk(f)
          THEN [mtime |-> disk[f].mtime,
                hash |-> IF rows[f] # NoRow THEN rows[f].hash ELSE disk[f].text,
                symbols |-> saveSymbols[s][f]]
          ELSE NoRow]]
  /\ savePc' = [savePc EXCEPT ![s] = "rows"]
  /\ UNCHANGED <<envVars, storeVars, committed, up, ready, memoryVars, walkVars, watchVars,
                 lastStamp, saveStamp, saveSymbols, saveFiles, graphPc, saveGraph>>

\* The metadata is that of the file on disk now.  The content hash of the
\* previous save is kept when size and mtime are still those of that save.
SaveStat(s) ==
  /\ savePc[s] = "stat"
  /\ saveRows' = [saveRows EXCEPT ![s] =
       [f \in Files |->
          IF f \in saveFiles[s] /\ OnDisk(f)
          THEN [mtime |-> disk[f].mtime,
                hash |-> IF rows[f].mtime = disk[f].mtime THEN rows[f].hash ELSE disk[f].text,
                symbols |-> saveSymbols[s][f]]
          ELSE NoRow]]
  /\ savePc' = [savePc EXCEPT ![s] = "rows"]
  /\ UNCHANGED <<envVars, storeVars, committed, up, ready, memoryVars, walkVars, watchVars,
                 lastStamp, saveStamp, saveSymbols, saveFiles, graphPc, saveGraph>>

\* IndexStore::save: one transaction for the rows, one each for the meta values
\* (the format before the stamp).
SaveRows(s) ==
  /\ savePc[s] = "rows"
  /\ rows' = saveRows[s] /\ rowsStamp' = saveStamp[s]
  /\ savePc' = [savePc EXCEPT ![s] = "format"]
  /\ UNCHANGED <<envVars, format, stamp, snapshot, committed, up, ready, memoryVars, walkVars,
                 watchVars, lastStamp, saveStamp, saveSymbols, saveFiles, saveRows, graphPc,
                 saveGraph>>

SaveFormat(s) ==
  /\ savePc[s] = "format"
  /\ format' = TRUE
  /\ savePc' = [savePc EXCEPT ![s] = "stamp"]
  /\ UNCHANGED <<envVars, rows, stamp, snapshot, rowsStamp, committed, up, ready, memoryVars,
                 walkVars, watchVars, lastStamp, saveStamp, saveSymbols, saveFiles, saveRows,
                 graphPc, saveGraph>>

SaveStamp(s) ==
  /\ savePc[s] = "stamp"
  /\ stamp' = saveStamp[s]
  /\ savePc' = [savePc EXCEPT ![s] = "join"]
  /\ UNCHANGED <<envVars, rows, format, snapshot, rowsStamp, committed, up, ready, memoryVars,
                 walkVars, watchVars, lastStamp, saveStamp, saveSymbols, saveFiles, saveRows,
                 graphPc, saveGraph>>

\* The scope joins the snapshot thread, and the task goes on: startup becomes
\* ready, the watcher takes the next change.
SaveEnd(s) ==
  /\ savePc[s] = "join" /\ graphPc[s] = "idle"
  /\ savePc' = [savePc EXCEPT ![s] = "idle"]
  /\ IF s = "walk"
     THEN walkPc' = "done" /\ ready' = TRUE /\ UNCHANGED watchPc
     ELSE watchPc' = "idle" /\ UNCHANGED <<walkPc, ready>>
  /\ UNCHANGED <<envVars, storeVars, committed, up, memoryVars, walkBy, walkEdits, persisted, todo,
                 acc, indexed, searchWarm, graphLoaded, changed, pending, watchBatch, watchSources,
                 lastStamp, saveStamp, saveSymbols, saveFiles, saveRows, graphPc, saveGraph>>

Save(s) ==
  \/ SaveBegin(s) \/ SaveGraphRead(s) \/ SaveGraphWrite(s) \/ SaveSymbols(s) \/ SaveStat(s)
  \/ SaveRows(s) \/ SaveFormat(s) \/ SaveStamp(s) \/ SaveEnd(s)

-----------------------------------------------------------------------------
Walk == WalkBegin \/ (\E f \in Files : WalkFile(f)) \/ WalkInsert \/ WalkCommit
Watch ==
  \/ \E batch \in (SUBSET Files) \ {{}} : WatchReceive(batch)
  \/ \E f \in Files : WatchFile(f)
  \/ WatchGraph

Next ==
  \/ \E f \in Files, text \in Content : Edit(f, text)
  \/ Stop \/ Boot \/ Search \/ Reindex
  \/ Walk \/ Watch
  \/ \E s \in Savers : Save(s)

Spec == Init /\ [][Next]_vars

\* The tasks the runtime schedules keep going; edits, exits, starts and tool
\* calls are up to the user.
Fairness ==
  /\ WF_vars(Walk) /\ WF_vars(Watch)
  /\ \A s \in Savers : WF_vars(Save(s))

FairSpec == Spec /\ Fairness

-----------------------------------------------------------------------------
(* Properties. *)

GraphSnapshot == [stamp : Nat, nodes : [Files -> SUBSET Texts], registered : [Files -> Content],
                  torn : BOOLEAN]

EnvTypeOK ==
  /\ disk \in [Files -> [text : Content, mtime : Nat]]
  /\ edits \in Nat /\ stops \in Nat /\ reindexes \in Nat

StoreTypeOK ==
  /\ rows \in [Files -> Row] /\ format \in BOOLEAN /\ stamp \in Nat /\ rowsStamp \in Nat
  /\ snapshot \in GraphSnapshot

MemoryTypeOK ==
  /\ committed \in [Files -> SUBSET Texts] /\ documents \in [Files -> SUBSET Texts]
  /\ up \in BOOLEAN /\ ready \in BOOLEAN
  /\ symbols \in [Files -> Content] /\ hasSymbols \in BOOLEAN /\ fileCache \subseteq Files
  /\ graph \in [Files -> SUBSET Texts] /\ registered \in [Files -> Content]

WalkTypeOK ==
  /\ walkPc \in {"off", "begin", "files", "commit", "save", "done"}
  /\ walkBy \in {"startup", "reindex"} /\ walkEdits \in Nat
  /\ persisted \in [warm : BOOLEAN, format : BOOLEAN, rows : [Files -> Row],
                    stamp : Nat, torn : BOOLEAN]
  /\ todo \subseteq Files /\ acc \in [Files -> Content] /\ indexed \subseteq Files
  /\ searchWarm \in BOOLEAN /\ graphLoaded \in BOOLEAN /\ changed \in BOOLEAN

WatchTypeOK ==
  /\ pending \in [Files -> Change] /\ watchBatch \in [Files -> Change]
  /\ watchPc \in {"idle", "files", "save"}
  /\ watchSources \in SUBSET [file : Files, text : Content]

SaveTypeOK ==
  /\ lastStamp \in Nat
  /\ savePc \in [Savers -> {"idle", "symbols", "stat", "rows", "format", "stamp", "join"}]
  /\ graphPc \in [Savers -> {"idle", "read", "write"}]
  /\ saveStamp \in [Savers -> Nat] /\ saveSymbols \in [Savers -> [Files -> Content]]
  /\ saveFiles \in [Savers -> SUBSET Files] /\ saveRows \in [Savers -> [Files -> Row]]
  /\ saveGraph \in [Savers -> GraphSnapshot]

\* Every variable keeps its type through crashes, restarts and saves.
TypeOK ==
  EnvTypeOK /\ StoreTypeOK /\ MemoryTypeOK /\ WalkTypeOK /\ WatchTypeOK /\ SaveTypeOK

\* The index has had its chance: the last walk is over and, in watch mode, the
\* watcher is through with every event; without it, nothing was edited since.
Settled ==
  /\ ready /\ walkPc = "done"
  /\ IF WatchEnabled THEN watchPc = "idle" /\ pending = NoChanges ELSE edits = walkEdits

\* restore_unchanged: of a file that did not change since the last save, `the
\* symbols in SQLite are those the parser would extract'.
RowsTruthful ==
  \A f \in Files :
    UnchangedSince(rows, f) /\ rows[f].symbols # NoText => rows[f].symbols = disk[f].text

\* /ready holds traffic `until the answers are current': the symbols of every
\* file, none for a file that is gone.
ReadySymbolsCurrent ==
  Settled => \A f \in Files : symbols[f] = disk[f].text

\* PreparedFile::unchanged, `the search documents on disk are this file's
\* current ones': once ready, each file is found by its content and no other.
ReadyDocumentsCurrent ==
  Settled => \A f \in Files : OnDisk(f) => documents[f] = {disk[f].text}

GraphCurrent == \A f \in Files : graph[f] = {disk[f].text} \ {NoText}

\* restore_unchanged, `the call graph this walk would build is the persisted
\* one': once ready, the call graph is the one the files define, for a
\* repository that has any.
ReadyGraphCurrent ==
  Settled /\ CallGraphEnabled /\ (\E f \in Files : OnDisk(f)) => GraphCurrent

\* The same, leaving out a graph that was loaded by rows and a stamp of different saves,
\* by this start or by the one whose graph the snapshot is.
ReadyGraphCurrentUnlessTorn == persisted.torn \/ ReadyGraphCurrent

\* The inductive invariant behind RowsTruthful and ReadySymbolsCurrent while
\* files are edited only when the server is down.  A recorded row, wherever it
\* is held, belongs to a content the file had, and to its present one if mtime
\* says so; walk and save hand the present symbols on from one to the next.
Truthful(rs) ==
  \A f \in Files :
    /\ rs[f].symbols = rs[f].hash
    /\ rs[f].mtime <= disk[f].mtime
    /\ rs[f].mtime = disk[f].mtime /\ OnDisk(f) => rs[f].hash = disk[f].text

OfSymbols(m) == \A f \in Files : m[f] = disk[f].text

OfflineInv ==
  /\ \A f \in Files : disk[f].mtime # 0
  /\ pending = NoChanges /\ watchPc = "idle"
  /\ savePc["watch"] = "idle"
  /\ savePc["walk"] # "idle" => walkPc = "save"
  /\ walkPc # "off" => up
  /\ Truthful(rows) /\ Truthful(persisted.rows) /\ Truthful(saveRows["walk"])
  /\ walkPc = "files" =>
       \A f \in Files : IF f \in todo THEN OnDisk(f) ELSE acc[f] = disk[f].text
  /\ walkPc = "files" /\ graphLoaded =>
       \A f \in Files : OnDisk(f) => UnchangedSince(persisted.rows, f)
  /\ walkPc \in {"commit", "save", "done"} => OfSymbols(symbols)
  /\ savePc["walk"] = "stat" => OfSymbols(saveSymbols["walk"])

\* What memory and the saved rows say of every file is what is on disk.
Current ==
  /\ Settled
  /\ \A f \in Files :
       /\ symbols[f] = disk[f].text
       /\ rows[f].symbols = disk[f].text
       /\ OnDisk(f) => documents[f] = {disk[f].text} /\ rows[f].mtime = disk[f].mtime
  /\ CallGraphEnabled => GraphCurrent

\* Whenever the index has had its chance, that is what they say: no edit, batch or save of
\* the watcher leaves one of them behind (process_file_changes, save_index_filtered).
SettledIsCurrent == Settled => Current

\* Watch mode catches up: once the edits are over, the index in memory and the
\* saved rows become current and stay so.
EventuallyCurrent == <>[](~ up) \/ <>[]Current
=============================================================================
