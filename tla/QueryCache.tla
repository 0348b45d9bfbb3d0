----------------------------- MODULE QueryCache -----------------------------
(***************************************************************************)
(* The query cache (src/cache/query_cache.rs) as the engine uses it: a     *)
(* query that misses computes its answer from `symbols' or from the files  *)
(* on disk and inserts it with the files it lists; the watcher, done with  *)
(* a changed file, invalidates the entries of that file.                   *)
(*                                                                         *)
(* insert_with_files, remove and invalidate_for_file are not atomic: the   *)
(* entries, the reverse index from files to keys and the LRU queue are     *)
(* three structures with locks of their own, and each step here is one     *)
(* visit to one of them.                                                   *)
(*                                                                         *)
(* A file's content is its version, a number that an edit increments; an   *)
(* answer is the version it saw of every file.  Every answer lists every   *)
(* file, so that an entry depends on them all.                             *)
(***************************************************************************)
EXTENDS Naturals, FiniteSets, SequencesExt

CONSTANTS
  CachedFiles,   \* the indexed files
  QueryKeys,     \* distinct queries: name, options
  SymbolKeys,    \* those answered from `symbols' (find_symbols); the others read files
  Queriers,      \* threads that answer queries
  Watcher,       \* the watcher's task
  NoKey, NoFile, \* no query, no file
  Capacity,      \* of the cache
  MaxVersion     \* bound on edits: the last version of a file

ASSUME QueryKeysAssumption == SymbolKeys \subseteq QueryKeys
ASSUME NothingAssumption == NoKey \notin QueryKeys /\ NoFile \notin CachedFiles
ASSUME QueriersAssumption == Watcher \notin Queriers
ASSUME CapacityAssumption == Capacity \in Nat \ {0} /\ MaxVersion \in Nat \ {0}

Version == 0 .. MaxVersion
Answer == [CachedFiles -> Version]
Nothing == [f \in CachedFiles |-> 0]

\* Files an answer lists, which are those the entry depends on.
DependentFiles(answer) == {f \in CachedFiles : answer[f] # 0}

Actors == Queriers \cup {Watcher}

VARIABLES
  onDisk,        \* the files
  listed,        \* `symbols' and file_cache, kept current by the watcher
  settled,       \* history: the version whose change the watcher has dealt with
  entries,       \* QueryCache.store: the keys it has, and their answers
  answers,       \*   (Nothing for a key it does not have)
  dependents,    \* QueryCache.file_dependencies
  lruOrder,      \* QueryCache.lru_order, most recent last
  at, asked,     \* what each querier does, and the key of its query
  unread, found, \*   the files it has still to read, the answer so far
  unregistered,  \*   listed files whose set has still to get the key
  removing, removed, removedFiles,         \* remove() as run by each actor
  watchAt, changedFile, changedTo, doomed, \* one change of process_file_changes
  overlapped,    \* history: the insertion met a removal of its key or an invalidation
  raced          \* history: the keys whose insertion did

fileVars  == <<onDisk, listed, settled>>
storeVars == <<entries, answers, raced>>
queryVars == <<at, asked, unread, found, unregistered>>
removeVars == <<removing, removed, removedFiles>>
watchVars == <<watchAt, changedFile, changedTo, doomed>>
queryCacheVars == <<fileVars, storeVars, dependents, lruOrder, queryVars, removeVars,
                    watchVars, overlapped>>

CacheInit ==
  /\ onDisk = [f \in CachedFiles |-> 1]
  /\ listed = onDisk /\ settled = onDisk
  /\ entries = {} /\ answers = [k \in QueryKeys |-> Nothing]
  /\ dependents = [f \in CachedFiles |-> {}]
  /\ lruOrder = <<>>
  /\ at = [t \in Queriers |-> "idle"] /\ asked = [t \in Queriers |-> NoKey]
  /\ unread = [t \in Queriers |-> {}] /\ found = [t \in Queriers |-> Nothing]
  /\ unregistered = [t \in Queriers |-> {}]
  /\ removing = [a \in Actors |-> "no"] /\ removed = [a \in Actors |-> NoKey]
  /\ removedFiles = [a \in Actors |-> {}]
  /\ watchAt = "idle" /\ changedFile = NoFile /\ changedTo = 0 /\ doomed = {}
  /\ overlapped = [t \in Queriers |-> FALSE] /\ raced = {}

-----------------------------------------------------------------------------
(* History: an insertion races when, between its first read and its end, its *)
(* key is being removed or entries are being invalidated.                    *)

InFlight(t) == at[t] \in {"read", "check", "evict", "register", "store"}
Removing(k) == \E a \in Actors : removing[a] # "no" /\ removed[a] = k
Invalidating ==
  \/ watchAt \in {"remove", "purge"}
  \/ \E t \in Queriers : at[t] \in {"clearFiles", "clearRecent"}

\* The insertions of `keys' under way have met one of these.
Meet(keys) ==
  overlapped' = [t \in Queriers |-> overlapped[t] \/ (InFlight(t) /\ asked[t] \in keys)]

-----------------------------------------------------------------------------
(* remove(key), run by a query that evicts or meets an expired entry and by *)
(* the watcher: the entry, its files' sets, the LRU queue.                   *)

\* lru.retain: the queue holds a key at most once.
Without(order, k) ==
  IF Contains(order, k)
  THEN RemoveAt(order, CHOOSE i \in DOMAIN order : order[i] = k)
  ELSE order

StartRemoval(a, k) ==
  /\ removing' = [removing EXCEPT ![a] = "entry"]
  /\ removed' = [removed EXCEPT ![a] = k]
  /\ UNCHANGED removedFiles

EndRemoval(a) ==
  /\ removing' = [removing EXCEPT ![a] = "no"]
  /\ removed' = [removed EXCEPT ![a] = NoKey]

RemoveEntry(a) ==
  LET k == removed[a] IN
  /\ removing[a] = "entry"
  /\ \/ /\ k \in entries
        /\ entries' = entries \ {k}
        /\ answers' = [answers EXCEPT ![k] = Nothing]
        /\ raced' = raced \ {k}
        /\ removing' = [removing EXCEPT ![a] = "files"]
        /\ removedFiles' = [removedFiles EXCEPT ![a] = DependentFiles(answers[k])]
        /\ UNCHANGED removed
     \/ /\ k \notin entries
        /\ EndRemoval(a)
        /\ UNCHANGED <<storeVars, removedFiles>>
  /\ UNCHANGED <<fileVars, dependents, lruOrder, queryVars, watchVars, overlapped>>

RemoveFile(a) ==
  /\ removing[a] = "files"
  /\ \E f \in removedFiles[a] :
       /\ dependents' = [dependents EXCEPT ![f] = @ \ {removed[a]}]
       /\ removedFiles' = [removedFiles EXCEPT ![a] = @ \ {f}]
  /\ UNCHANGED <<fileVars, storeVars, lruOrder, queryVars, removing, removed, watchVars,
                 overlapped>>

RemoveRecent(a) ==
  /\ removing[a] = "files" /\ removedFiles[a] = {}
  /\ lruOrder' = Without(lruOrder, removed[a])
  /\ EndRemoval(a)
  /\ UNCHANGED <<fileVars, storeVars, dependents, queryVars, removedFiles, watchVars,
                 overlapped>>

-----------------------------------------------------------------------------
(* A query. *)

\* The key moves to the back of the queue.
Touched(k) == Append(Without(lruOrder, k), k)

\* get() with a hit: the entry's lock is held until the queue is updated.
Hit(t, k) ==
  /\ at[t] = "idle" /\ k \in entries
  /\ lruOrder' = Touched(k)
  /\ UNCHANGED <<fileVars, storeVars, dependents, queryVars, removeVars, watchVars, overlapped>>

\* get() with an entry older than the TTL: removed, and the query goes on.
Expired(t, k) ==
  /\ at[t] = "idle" /\ k \in entries
  /\ StartRemoval(t, k)
  /\ at' = [at EXCEPT ![t] = "expired"] /\ asked' = [asked EXCEPT ![t] = k]
  /\ Meet({k})
  /\ UNCHANGED <<fileVars, storeVars, dependents, lruOrder, unread, found, unregistered,
                 watchVars>>

Miss(t, k) ==
  /\ \/ at[t] = "idle" /\ k \notin entries
     \/ at[t] = "expired" /\ asked[t] = k /\ removing[t] = "no"
  /\ at' = [at EXCEPT ![t] = "compute"] /\ asked' = [asked EXCEPT ![t] = k]
  /\ UNCHANGED <<fileVars, storeVars, dependents, lruOrder, unread, found, unregistered,
                 removeVars, watchVars, overlapped>>

StartReading(t) ==
  overlapped' = [overlapped EXCEPT ![t] = Removing(asked[t]) \/ Invalidating]

\* find_symbols answers from `symbols' and holds its guard until it returns; while
\* reindex_all clears the cache the table is empty and the query fails.
ReadSymbols(t) ==
  /\ at[t] = "compute" /\ asked[t] \in SymbolKeys
  /\ \A u \in Queriers : at[u] \notin {"clearFiles", "clearRecent"}
  /\ at' = [at EXCEPT ![t] = "check"]
  /\ found' = [found EXCEPT ![t] = listed]
  /\ StartReading(t)
  /\ UNCHANGED <<fileVars, storeVars, dependents, lruOrder, asked, unread, unregistered,
                 removeVars, watchVars>>

\* search_code reads the files one by one and holds nothing.
ReadFiles(t) ==
  /\ at[t] = "compute" /\ asked[t] \notin SymbolKeys
  /\ at' = [at EXCEPT ![t] = "read"]
  /\ unread' = [unread EXCEPT ![t] = CachedFiles]
  /\ StartReading(t)
  /\ UNCHANGED <<fileVars, storeVars, dependents, lruOrder, asked, found, unregistered,
                 removeVars, watchVars>>

ReadFile(t) ==
  /\ at[t] = "read"
  /\ \/ \E f \in unread[t] :
          /\ found' = [found EXCEPT ![t] = [@ EXCEPT ![f] = onDisk[f]]]
          /\ unread' = [unread EXCEPT ![t] = @ \ {f}]
          /\ UNCHANGED at
     \/ /\ unread[t] = {}
        /\ at' = [at EXCEPT ![t] = "check"]
        /\ UNCHANGED <<found, unread>>
  /\ UNCHANGED <<fileVars, storeVars, dependents, lruOrder, asked, unregistered, removeVars,
                 watchVars, overlapped>>

\* insert_with_files: is there room?
CheckRoom(t) ==
  /\ at[t] = "check"
  /\ at' = [at EXCEPT ![t] = IF asked[t] \notin entries /\ Cardinality(entries) >= Capacity
                             THEN "evict" ELSE "register"]
  /\ unregistered' = [unregistered EXCEPT ![t] = DependentFiles(found[t])]
  /\ UNCHANGED <<fileVars, storeVars, dependents, lruOrder, asked, unread, found, removeVars,
                 watchVars, overlapped>>

\* (Mutant: what is evicted leaves the queue only.)
EvictFromQueue(t) ==
  /\ at[t] = "evict"
  /\ at' = [at EXCEPT ![t] = "register"]
  /\ lruOrder' = IF lruOrder = <<>> THEN lruOrder ELSE Tail(lruOrder)
  /\ UNCHANGED <<fileVars, storeVars, dependents, asked, unread, found, unregistered,
                 removeVars, watchVars, overlapped>>

\* evict_lru: the head of the queue, if it has one, is removed like any entry.
Evict(t) ==
  /\ at[t] = "evict"
  /\ at' = [at EXCEPT ![t] = "register"]
  /\ \/ lruOrder = <<>> /\ UNCHANGED <<lruOrder, removeVars, overlapped>>
     \/ /\ lruOrder # <<>>
        /\ lruOrder' = Tail(lruOrder)
        /\ StartRemoval(t, Head(lruOrder))
        /\ Meet({Head(lruOrder)})
  /\ UNCHANGED <<fileVars, storeVars, dependents, asked, unread, found, unregistered,
                 watchVars>>

Register(t) ==
  /\ at[t] = "register" /\ removing[t] = "no"
  /\ \E f \in unregistered[t] :
       /\ dependents' = [dependents EXCEPT ![f] = @ \cup {asked[t]}]
       /\ unregistered' = [unregistered EXCEPT ![t] = @ \ {f}]
  /\ UNCHANGED <<fileVars, storeVars, lruOrder, at, asked, unread, found, removeVars,
                 watchVars, overlapped>>

MarkRecent(t) ==
  /\ at[t] = "register" /\ removing[t] = "no" /\ unregistered[t] = {}
  /\ lruOrder' = Touched(asked[t])
  /\ at' = [at EXCEPT ![t] = "store"]
  /\ UNCHANGED <<fileVars, storeVars, dependents, asked, unread, found, unregistered,
                 removeVars, watchVars, overlapped>>

EndQuery(t) ==
  /\ at' = [at EXCEPT ![t] = "idle"]
  /\ asked' = [asked EXCEPT ![t] = NoKey]
  /\ found' = [found EXCEPT ![t] = Nothing]
  /\ overlapped' = [overlapped EXCEPT ![t] = FALSE]
  /\ UNCHANGED <<unread, unregistered>>

\* The entry is in; a query of `symbols' lets the guard go.
Store(t) ==
  LET k == asked[t] IN
  /\ at[t] = "store"
  /\ entries' = entries \cup {k}
  /\ answers' = [answers EXCEPT ![k] = found[t]]
  /\ raced' = IF overlapped[t] THEN raced \cup {k} ELSE raced \ {k}
  /\ EndQuery(t)
  /\ UNCHANGED <<fileVars, dependents, lruOrder, removeVars, watchVars>>

-----------------------------------------------------------------------------
(* clear(), the three structures one after another, which reindex_all calls *)
(* when it has cleared `symbols', waiting for the queries' guards.           *)

Guarded == \E t \in Queriers : InFlight(t) /\ asked[t] \in SymbolKeys

ClearEntries(t) ==
  /\ at[t] = "idle" /\ ~ Guarded
  /\ entries' = {} /\ answers' = [k \in QueryKeys |-> Nothing] /\ raced' = {}
  /\ at' = [at EXCEPT ![t] = "clearFiles"]
  /\ Meet(QueryKeys)
  /\ UNCHANGED <<fileVars, dependents, lruOrder, asked, unread, found, unregistered,
                 removeVars, watchVars>>

ClearFiles(t) ==
  /\ at[t] = "clearFiles"
  /\ dependents' = [f \in CachedFiles |-> {}]
  /\ at' = [at EXCEPT ![t] = "clearRecent"]
  /\ UNCHANGED <<fileVars, storeVars, lruOrder, asked, unread, found, unregistered,
                 removeVars, watchVars, overlapped>>

ClearRecent(t) ==
  /\ at[t] = "clearRecent"
  /\ lruOrder' = <<>>
  /\ EndQuery(t)
  /\ UNCHANGED <<fileVars, storeVars, dependents, removeVars, watchVars>>

-----------------------------------------------------------------------------
(* Edits, and the watcher's handling of one changed file. *)

Edit(f) ==
  /\ onDisk[f] < MaxVersion
  /\ onDisk' = [onDisk EXCEPT ![f] = @ + 1]
  /\ UNCHANGED <<listed, settled, storeVars, dependents, lruOrder, queryVars, removeVars,
                 watchVars, overlapped>>

ReadChange(f) ==
  /\ watchAt = "idle" /\ settled[f] # onDisk[f]
  /\ watchAt' = "list" /\ changedFile' = f /\ changedTo' = onDisk[f]
  /\ UNCHANGED <<fileVars, storeVars, dependents, lruOrder, queryVars, removeVars, doomed,
                 overlapped>>

\* symbols.get_mut waits for the guards of the queries.
ListChange ==
  /\ watchAt = "list" /\ ~ Guarded
  /\ listed' = [listed EXCEPT ![changedFile] = changedTo]
  /\ watchAt' = "collect"
  /\ UNCHANGED <<onDisk, settled, storeVars, dependents, lruOrder, queryVars, removeVars,
                 changedFile, changedTo, doomed, overlapped>>

\* invalidate_for_file: the keys of the file ...
CollectKeys ==
  /\ watchAt = "collect"
  /\ watchAt' = "remove" /\ doomed' = dependents[changedFile]
  /\ Meet(QueryKeys)
  /\ UNCHANGED <<fileVars, storeVars, dependents, lruOrder, queryVars, removeVars,
                 changedFile, changedTo>>

\* ... are removed one by one ...
InvalidateKey ==
  /\ watchAt \in {"remove", "purge"} /\ removing[Watcher] = "no"
  /\ \E k \in doomed :
       /\ StartRemoval(Watcher, k)
       /\ doomed' = doomed \ {k}
       /\ Meet({k})
  /\ UNCHANGED <<fileVars, storeVars, dependents, lruOrder, queryVars, watchAt, changedFile,
                 changedTo>>

EndChange ==
  watchAt' = "idle" /\ changedFile' = NoFile /\ changedTo' = 0 /\ UNCHANGED doomed

\* (Mutant: the set of the file goes first.)
DropFileFirst ==
  /\ watchAt = "remove" /\ removing[Watcher] = "no"
  /\ dependents' = [dependents EXCEPT ![changedFile] = {}]
  /\ settled' = [settled EXCEPT ![changedFile] = changedTo]
  /\ watchAt' = "idle" /\ changedFile' = NoFile /\ changedTo' = 0 /\ doomed' = {}
  /\ UNCHANGED <<onDisk, listed, storeVars, lruOrder, queryVars, removeVars, overlapped>>

\* ... and then the set of the file as a whole.
DropFile ==
  /\ watchAt = "remove" /\ doomed = {} /\ removing[Watcher] = "no"
  /\ dependents' = [dependents EXCEPT ![changedFile] = {}]
  /\ settled' = [settled EXCEPT ![changedFile] = changedTo]
  /\ EndChange
  /\ UNCHANGED <<onDisk, listed, storeVars, lruOrder, queryVars, removeVars, overlapped>>

\* invalidate_for_repo, when the watcher finds a worktree: every key of the repository.
CollectRepo ==
  /\ watchAt = "idle"
  /\ watchAt' = "purge" /\ doomed' = entries
  /\ Meet(QueryKeys)
  /\ UNCHANGED <<fileVars, storeVars, dependents, lruOrder, queryVars, removeVars,
                 changedFile, changedTo>>

RepoInvalidated ==
  /\ watchAt = "purge" /\ doomed = {} /\ removing[Watcher] = "no"
  /\ EndChange
  /\ UNCHANGED <<fileVars, storeVars, dependents, lruOrder, queryVars, removeVars, overlapped>>

-----------------------------------------------------------------------------
Querying(t) ==
  \/ \E k \in QueryKeys : Hit(t, k) \/ Expired(t, k) \/ Miss(t, k)
  \/ ReadSymbols(t) \/ ReadFiles(t) \/ ReadFile(t)
  \/ CheckRoom(t) \/ Evict(t) \/ Register(t) \/ MarkRecent(t) \/ Store(t)
  \/ ClearEntries(t) \/ ClearFiles(t) \/ ClearRecent(t)

Watching ==
  \/ \E f \in CachedFiles : ReadChange(f)
  \/ ListChange \/ CollectKeys \/ InvalidateKey \/ DropFile \/ CollectRepo \/ RepoInvalidated

Removals == \E a \in Actors : RemoveEntry(a) \/ RemoveFile(a) \/ RemoveRecent(a)

CacheNext ==
  \/ \E t \in Queriers : Querying(t)
  \/ Watching
  \/ Removals
  \/ \E f \in CachedFiles : Edit(f)

CacheSpec == CacheInit /\ [][CacheNext]_queryCacheVars

-----------------------------------------------------------------------------
\* Every variable keeps its type.
CacheShape ==
  /\ onDisk \in [CachedFiles -> Version]
  /\ listed \in [CachedFiles -> Version]
  /\ settled \in [CachedFiles -> Version]
  /\ entries \subseteq QueryKeys
  /\ answers \in [QueryKeys -> Answer]
  /\ dependents \in [CachedFiles -> SUBSET QueryKeys]
  /\ lruOrder \in Seq(QueryKeys)
  /\ at \in [Queriers -> {"idle", "expired", "compute", "read", "check", "evict", "register",
                          "store", "clearFiles", "clearRecent"}]
  /\ asked \in [Queriers -> QueryKeys \cup {NoKey}]
  /\ \A t \in Queriers : at[t] \notin {"idle", "clearFiles", "clearRecent"} => asked[t] # NoKey
  /\ unread \in [Queriers -> SUBSET CachedFiles]
  /\ \A t \in Queriers : at[t] # "read" => unread[t] = {}
  /\ found \in [Queriers -> Answer]
  /\ unregistered \in [Queriers -> SUBSET CachedFiles]
  /\ removing \in [Actors -> {"no", "entry", "files"}]
  /\ removed \in [Actors -> QueryKeys \cup {NoKey}]
  /\ \A a \in Actors : removing[a] # "no" => removed[a] # NoKey
  /\ removedFiles \in [Actors -> SUBSET CachedFiles]
  /\ watchAt \in {"idle", "list", "collect", "remove", "purge"}
  /\ changedFile \in CachedFiles \cup {NoFile} /\ changedTo \in Version
  /\ watchAt \in {"list", "collect", "remove"} => changedFile # NoFile
  /\ doomed \subseteq QueryKeys
  /\ overlapped \in [Queriers -> BOOLEAN]
  /\ raced \subseteq QueryKeys

\* An entry whose insertion overlapped no removal of its key and no invalidation
\* is never older than the last change of a listed file that the watcher has dealt
\* with (insert_with_files: "When any of these files change, the entry will be
\* invalidated").
UnracedCurrent ==
  \A k \in entries \ raced : \A f \in DependentFiles(answers[k]) :
    answers[k][f] >= settled[f]

\* Such an entry is in the LRU queue, or an actor is about to remove it: the
\* cache can always make room of it.
UnracedEvictable ==
  \A k \in entries \ raced :
    \/ Contains(lruOrder, k)
    \/ \E a \in Actors : removing[a] = "entry" /\ removed[a] = k

\* What insert_with_files promises of every entry, and keeps only without the race.
ChangeInvalidates ==
  \A k \in entries : \A f \in DependentFiles(answers[k]) : answers[k][f] >= settled[f]

-----------------------------------------------------------------------------
(* Why UnracedCurrent holds. *)

\* The watcher lags behind the files, never the other way.
WatcherLags ==
  /\ \A f \in CachedFiles : settled[f] <= listed[f] /\ listed[f] <= onDisk[f]
  /\ watchAt = "list" => listed[changedFile] <= changedTo
                          /\ changedTo <= onDisk[changedFile]
  /\ watchAt \in {"collect", "remove"} => changedTo = listed[changedFile]

\* While an insertion is not marked, nobody removes its key or invalidates.
UnmarkedAlone ==
  \A t \in Queriers : InFlight(t) /\ ~ overlapped[t] =>
    /\ ~ Invalidating
    /\ \A a \in Actors : removing[a] # "no" => removed[a] # asked[t]

\* Its answer is current, and the files it is done with know the key.
UnmarkedGood ==
  \A t \in Queriers : InFlight(t) /\ ~ overlapped[t] =>
    /\ \A f \in CachedFiles \ unread[t] : found[t][f] >= settled[f]
    /\ at[t] \in {"evict", "register"} =>
         \A f \in DependentFiles(found[t]) \ unregistered[t] :
           asked[t] \in dependents[f]
    /\ at[t] = "store" =>
         \A f \in DependentFiles(found[t]) : asked[t] \in dependents[f]

\* The files of an entry know its key; an invalidation under way has it on its list.
UnracedKnown ==
  \A k \in entries \ raced : \A f \in DependentFiles(answers[k]) :
    /\ k \in dependents[f]
    /\ watchAt = "remove" /\ changedFile = f =>
         \/ k \in doomed
         \/ removing[Watcher] = "entry" /\ removed[Watcher] = k

\* What is inserted while its key's removal or a clear has still to visit the
\* other structures is marked.
GoneRaced ==
  /\ (\E t \in Queriers : at[t] \in {"clearFiles", "clearRecent"}) => entries \subseteq raced
  /\ \A a \in Actors :
       removing[a] = "files" /\ removed[a] \in entries => removed[a] \in raced

\* Why UnracedEvictable holds: an unmarked insertion has its key in the queue before
\* the entry is there, and a thread has at most one removal under way, before it
\* computes or registers anything.
EvictableInv ==
  /\ UnracedEvictable
  /\ \A t \in Queriers : at[t] = "store" /\ ~ overlapped[t] => Contains(lruOrder, asked[t])
  /\ \A t \in Queriers : removing[t] # "no" => at[t] \in {"expired", "register"}

\* Together they are inductive: no step of a query, a removal, a clear or the watcher
\* breaks them (the cache's part in query_cache.rs, the guard's in find_symbols).
CacheInv ==
  /\ WatcherLags /\ UnmarkedAlone /\ GoneRaced
  /\ UnmarkedGood /\ UnracedKnown /\ UnracedCurrent
  /\ EvictableInv
=============================================================================
