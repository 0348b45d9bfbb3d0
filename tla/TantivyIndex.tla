---------------------------- MODULE TantivyIndex ----------------------------
(***************************************************************************)
(* The commit protocol of src/tantivy_index.rs, which src/trigram.rs       *)
(* repeats: indexing threads buffer documents in the writer and set        *)
(* `dirty'; a search commits and reloads first, under the `refresh' lock.  *)
(* The process can end between any two steps.                              *)
(*                                                                         *)
(* Adds and deletes are numbered in the order the writer takes them.  A    *)
(* document is the file it was made from and the number of its add.        *)
(***************************************************************************)
EXTENDS Naturals, Sequences

CONSTANTS
  Indexers,        \* threads that replace the documents of files
  Searchers,       \* threads that search or count
  Committers,      \* threads that call commit() or clear()
  NoThread,        \* a free lock
  Files,
  CommitsCanFail,  \* tantivy may report an error (a full disk)
  MaxOps,          \* bound on adds and deletes
  MaxClears,       \* bound on clear()
  MaxStops         \* bound on exits and crashes

Threads == Indexers \cup Searchers \cup Committers

ASSUME ThreadsAssumption ==
  /\ NoThread \notin Threads
  /\ Indexers \cap Searchers = {} /\ Indexers \cap Committers = {}
  /\ Searchers \cap Committers = {}
ASSUME CommitsCanFailAssumption == CommitsCanFail \in BOOLEAN
ASSUME BoundsAssumption == MaxOps \in Nat /\ MaxClears \in Nat /\ MaxStops \in Nat

VARIABLES
  buffer,     \* what the writer holds since the last commit
  committed,  \* the index on disk
  snapshot,   \* what the reader has loaded
  dirty, refresh, writer,
  pc,
  file,       \* the file an indexer is replacing
  ops,        \* adds and deletes the writer took
  clears, stops,
  \* history: the last operation of each indexer, the last one that returned,
  \* what had returned when a read or a clear was called
  op, returned, floor, doomed

lockVars    == <<refresh, writer>>
indexVars   == <<buffer, committed, snapshot>>
historyVars == <<op, returned, floor, doomed>>
vars == <<indexVars, dirty, lockVars, pc, file, ops, clears, stops, historyVars>>

Document == [file : Files, number : Nat]
Operation == [kind : {"add", "delete"}, file : Files, number : Nat]

\* An index holds documents; `upTo' is the last operation it takes into account.
Empty == [docs |-> {}, upTo |-> 0]

\* tantivy's commit: a delete takes the documents added before it.
Added == {[file |-> buffer[i].file, number |-> buffer[i].number] :
            i \in {i \in DOMAIN buffer : buffer[i].kind = "add"}}
DeletedLater(doc) ==
  \E i \in DOMAIN buffer :
    /\ buffer[i].kind = "delete" /\ buffer[i].file = doc.file
    /\ buffer[i].number > doc.number
Flushed ==
  [docs |-> {doc \in committed.docs \cup Added : ~ DeletedLater(doc)}, upTo |-> ops]

-----------------------------------------------------------------------------
Init ==
  /\ buffer = <<>> /\ committed = Empty /\ snapshot = Empty
  /\ dirty = FALSE /\ refresh = NoThread /\ writer = NoThread
  /\ pc = [t \in Threads |-> "idle"]
  /\ file \in [Indexers -> Files]
  /\ ops = 0 /\ clears = 0 /\ stops = 0
  /\ op = [t \in Indexers |-> 0] /\ returned = 0
  /\ floor = [t \in Searchers \cup Committers |-> 0]
  /\ doomed = [t \in Committers |-> {}]

Goto(t, label) == pc' = [pc EXCEPT ![t] = label]

-----------------------------------------------------------------------------
(* Indexing: a file's documents are replaced by delete_file and add.  Each  *)
(* holds the writer's lock for its tantivy call and sets `dirty' after it.  *)

\* (Mutant: the new documents go on top of the old ones.)
ReplaceOnTop(t, f) ==
  /\ pc[t] = "idle" /\ ops + 2 <= MaxOps
  /\ file' = [file EXCEPT ![t] = f]
  /\ Goto(t, "add")
  /\ UNCHANGED <<indexVars, dirty, lockVars, ops, clears, stops, historyVars>>

Replace(t, f) ==
  /\ pc[t] = "idle" /\ ops + 2 <= MaxOps
  /\ file' = [file EXCEPT ![t] = f]
  /\ Goto(t, "delete")
  /\ UNCHANGED <<indexVars, dirty, lockVars, ops, clears, stops, historyVars>>

Buffered(t, kind) ==
  /\ writer = NoThread
  /\ ops < MaxOps
  /\ ops' = ops + 1
  /\ buffer' = Append(buffer, [kind |-> kind, file |-> file[t], number |-> ops + 1])
  /\ op' = [op EXCEPT ![t] = ops + 1]
  /\ UNCHANGED <<committed, snapshot, dirty, lockVars, file, clears, stops, returned, floor,
                 doomed>>

DeleteFile(t) ==
  /\ pc[t] = "delete" /\ Buffered(t, "delete")
  /\ Goto(t, "mark_deleted")

Add(t) ==
  /\ pc[t] = "add" /\ Buffered(t, "add")
  /\ Goto(t, "mark_added")

\* (Mutant: only the add sets the flag.)
MarkAdds(t) ==
  /\ pc[t] \in {"mark_deleted", "mark_added"}
  /\ dirty' = (dirty \/ pc[t] = "mark_added")
  /\ returned' = IF op[t] > returned THEN op[t] ELSE returned
  /\ Goto(t, IF pc[t] = "mark_deleted" THEN "add" ELSE "idle")
  /\ UNCHANGED <<indexVars, lockVars, file, ops, clears, stops, op, floor, doomed>>

\* dirty.store(true), and the call returns.
Mark(t) ==
  /\ pc[t] \in {"mark_deleted", "mark_added"}
  /\ dirty' = TRUE
  /\ returned' = IF op[t] > returned THEN op[t] ELSE returned
  /\ Goto(t, IF pc[t] = "mark_deleted" THEN "add" ELSE "idle")
  /\ UNCHANGED <<indexVars, lockVars, file, ops, clears, stops, op, floor, doomed>>

-----------------------------------------------------------------------------
(* Searches and commits: ensure_fresh, commit, commit_locked. *)

Call(t) ==
  /\ t \in Searchers \cup Committers
  /\ pc[t] = "idle"
  /\ floor' = [floor EXCEPT ![t] = returned]
  /\ Goto(t, "lock")
  /\ UNCHANGED <<indexVars, dirty, lockVars, file, ops, clears, stops, op, returned, doomed>>

\* (Mutant: a clean index is read without waiting for the lock.)
LockIfDirty(t) ==
  /\ pc[t] = "lock"
  /\ IF dirty
     THEN refresh = NoThread /\ refresh' = t /\ Goto(t, "swap")
     ELSE Goto(t, "read") /\ UNCHANGED refresh
  /\ UNCHANGED <<indexVars, dirty, writer, file, ops, clears, stops, historyVars>>

Lock(t) ==
  /\ pc[t] = "lock" /\ refresh = NoThread
  /\ refresh' = t
  /\ Goto(t, "swap")
  /\ UNCHANGED <<indexVars, dirty, writer, file, ops, clears, stops, historyVars>>

\* commit_locked: nothing to do for a clean index.
SwapClean(t) ==
  /\ pc[t] = "swap" /\ ~ dirty
  /\ refresh' = NoThread
  /\ Goto(t, "read")
  /\ UNCHANGED <<indexVars, dirty, writer, file, ops, clears, stops, historyVars>>

SwapDirty(t) ==
  /\ pc[t] = "swap" /\ dirty
  /\ dirty' = FALSE
  /\ Goto(t, "commit")
  /\ UNCHANGED <<indexVars, lockVars, file, ops, clears, stops, historyVars>>

Commit(t) ==
  /\ pc[t] = "commit" /\ writer = NoThread
  /\ committed' = Flushed /\ buffer' = <<>>
  /\ Goto(t, "reload")
  /\ UNCHANGED <<snapshot, dirty, lockVars, file, ops, clears, stops, historyVars>>

\* (Mutant: a commit that fails is tried again.)
RetryCommit(t) ==
  /\ CommitsCanFail
  /\ pc[t] = "commit" /\ writer = NoThread
  /\ refresh' = NoThread /\ dirty' = TRUE
  /\ Goto(t, "lock")
  /\ UNCHANGED <<indexVars, writer, file, ops, clears, stops, historyVars>>

\* The flag stays down; a search only logs the error and reads on.
CommitFails(t) ==
  /\ CommitsCanFail
  /\ pc[t] = "commit" /\ writer = NoThread
  /\ refresh' = NoThread
  /\ Goto(t, "read")
  /\ UNCHANGED <<indexVars, dirty, writer, file, ops, clears, stops, historyVars>>

Reload(t) ==
  /\ pc[t] = "reload"
  /\ snapshot' = committed
  /\ refresh' = NoThread
  /\ Goto(t, "read")
  /\ UNCHANGED <<buffer, committed, dirty, writer, file, ops, clears, stops, historyVars>>

\* The commit is on disk, but the reader goes on with what it had loaded.
ReloadFails(t) ==
  /\ CommitsCanFail
  /\ pc[t] = "reload"
  /\ refresh' = NoThread
  /\ Goto(t, "read")
  /\ UNCHANGED <<indexVars, dirty, writer, file, ops, clears, stops, historyVars>>

\* The search itself holds no lock; for commit() this is the return.
Read(t) ==
  /\ pc[t] = "read"
  /\ Goto(t, "idle")
  /\ UNCHANGED <<indexVars, dirty, lockVars, file, ops, clears, stops, historyVars>>

-----------------------------------------------------------------------------
(* clear: both locks for the whole of it. *)

\* Documents whose add returned before the call.
Returned == {doc \in committed.docs \cup Added : doc.number <= returned}

CallClear(t) ==
  /\ t \in Committers
  /\ pc[t] = "idle" /\ clears < MaxClears
  /\ clears' = clears + 1
  /\ doomed' = [doomed EXCEPT ![t] =
       {doc \in Returned : \A i \in Indexers : pc[i] = "mark_added" => op[i] # doc.number}]
  /\ Goto(t, "lock_clear")
  /\ UNCHANGED <<indexVars, dirty, lockVars, file, ops, stops, op, returned, floor>>

LockClear(t) ==
  /\ pc[t] = "lock_clear" /\ refresh = NoThread
  /\ refresh' = t
  /\ Goto(t, "lock_writer")
  /\ UNCHANGED <<indexVars, dirty, writer, file, ops, clears, stops, historyVars>>

LockWriter(t) ==
  /\ pc[t] = "lock_writer" /\ writer = NoThread
  /\ writer' = t
  /\ Goto(t, "flush")
  /\ UNCHANGED <<indexVars, dirty, refresh, file, ops, clears, stops, historyVars>>

\* (Mutant: what is buffered is not flushed before the delete.)
SkipFlush(t) ==
  /\ pc[t] = "flush"
  /\ dirty' = FALSE
  /\ Goto(t, "delete_all")
  /\ UNCHANGED <<indexVars, lockVars, file, ops, clears, stops, historyVars>>

\* Documents still buffered land in a segment first.
Flush(t) ==
  /\ pc[t] = "flush"
  /\ dirty' = FALSE
  /\ IF dirty THEN committed' = Flushed /\ buffer' = <<>> ELSE UNCHANGED <<committed, buffer>>
  /\ Goto(t, "delete_all")
  /\ UNCHANGED <<snapshot, lockVars, file, ops, clears, stops, historyVars>>

\* delete_all_documents leaves the buffer alone, the commit after it does not.
DeleteAll(t) ==
  /\ pc[t] = "delete_all"
  /\ committed' = [docs |-> {doc \in Added : ~ DeletedLater(doc)}, upTo |-> ops]
  /\ buffer' = <<>>
  /\ writer' = NoThread
  /\ Goto(t, "reload_clear")
  /\ UNCHANGED <<snapshot, dirty, refresh, file, ops, clears, stops, historyVars>>

ReloadClear(t) ==
  /\ pc[t] = "reload_clear"
  /\ snapshot' = committed
  /\ refresh' = NoThread
  /\ Goto(t, "cleared")
  /\ UNCHANGED <<buffer, committed, dirty, writer, file, ops, clears, stops, historyVars>>

\* Any of the three tantivy calls fails: clear returns the error as it is.
ClearFails(t) ==
  /\ CommitsCanFail
  /\ pc[t] \in {"flush", "delete_all", "reload_clear"}
  /\ pc[t] = "flush" => dirty
  /\ dirty' = (dirty /\ pc[t] # "flush")
  /\ refresh' = NoThread /\ writer' = NoThread
  /\ doomed' = [doomed EXCEPT ![t] = {}]
  /\ Goto(t, "idle")
  /\ UNCHANGED <<indexVars, file, ops, clears, stops, op, returned, floor>>

ReturnClear(t) ==
  /\ pc[t] = "cleared"
  /\ doomed' = [doomed EXCEPT ![t] = {}]
  /\ Goto(t, "idle")
  /\ UNCHANGED <<indexVars, dirty, lockVars, file, ops, clears, stops, op, returned, floor>>

-----------------------------------------------------------------------------
\* The process ends and the index is opened again: what was committed is there.
Stop ==
  /\ stops < MaxStops
  /\ stops' = stops + 1
  /\ buffer' = <<>> /\ snapshot' = committed /\ dirty' = FALSE
  /\ refresh' = NoThread /\ writer' = NoThread
  /\ pc' = [t \in Threads |-> "idle"]
  /\ ops' = committed.upTo /\ returned' = committed.upTo
  /\ doomed' = [t \in Committers |-> {}]
  /\ UNCHANGED <<committed, file, clears, op, floor>>

Index(t) == (\E f \in Files : Replace(t, f)) \/ DeleteFile(t) \/ Add(t) \/ Mark(t)
Refresh(t) ==
  \/ Lock(t) \/ SwapClean(t) \/ SwapDirty(t)
  \/ Commit(t) \/ CommitFails(t) \/ Reload(t) \/ ReloadFails(t)
  \/ Read(t)
Clear(t) ==
  \/ LockClear(t) \/ LockWriter(t) \/ Flush(t) \/ DeleteAll(t) \/ ReloadClear(t)
  \/ ClearFails(t) \/ ReturnClear(t)

Next ==
  \/ \E t \in Indexers : Index(t)
  \/ \E t \in Searchers \cup Committers : Call(t) \/ Refresh(t)
  \/ \E t \in Committers : CallClear(t) \/ Clear(t)
  \/ Stop

Spec == Init /\ [][Next]_vars

\* Threads are scheduled, and parking_lot hands a contended mutex on in turn.
Fairness ==
  /\ \A t \in Indexers : WF_vars(DeleteFile(t) \/ Add(t) \/ Mark(t))
  /\ \A t \in Searchers \cup Committers : SF_vars(Refresh(t))
  /\ \A t \in Committers : SF_vars(Clear(t))

FairSpec == Spec /\ Fairness

-----------------------------------------------------------------------------
(* Properties. *)

Labels ==
  {"idle", "delete", "mark_deleted", "add", "mark_added",
   "lock", "swap", "commit", "reload", "read",
   "lock_clear", "lock_writer", "flush", "delete_all", "reload_clear", "cleared"}

IndexTypeOK ==
  /\ buffer \in Seq(Operation)
  /\ committed \in [docs : SUBSET Document, upTo : Nat]
  /\ snapshot \in [docs : SUBSET Document, upTo : Nat]
  /\ dirty \in BOOLEAN

ThreadTypeOK ==
  /\ refresh \in Threads \cup {NoThread} /\ writer \in Threads \cup {NoThread}
  /\ pc \in [Threads -> Labels]
  /\ file \in [Indexers -> Files]

HistoryTypeOK ==
  /\ ops \in Nat /\ clears \in Nat /\ stops \in Nat
  /\ op \in [Indexers -> Nat] /\ returned \in Nat
  /\ floor \in [Searchers \cup Committers -> Nat]
  /\ doomed \in [Committers -> SUBSET Document]

\* Every variable keeps its type, wherever the process ends: the locks, the
\* threads and the writer's buffer start afresh, the rest is what was committed.
TypeOK == IndexTypeOK /\ ThreadTypeOK /\ HistoryTypeOK

\* ensure_fresh, `so a read sees every write': a read answers from an index that
\* has every add and delete that had returned when it was called.
ReadsSeeWrites ==
  \A t \in Searchers : pc[t] = "read" => floor[t] <= snapshot.upTo

\* The inductive invariant behind it, for an index whose commits succeed.  What
\* returned and is not on disk is announced by `dirty' or is being flushed by the
\* holder of `refresh'; what is on disk and not loaded is about to be.
HoldsRefresh ==
  {"swap", "commit", "reload", "lock_writer", "flush", "delete_all", "reload_clear"}

HolderAt(labels) == refresh # NoThread /\ pc[refresh] \in labels

OrderInv == returned <= ops /\ committed.upTo <= ops /\ snapshot.upTo <= committed.upTo

HolderInv == \A t \in Threads : pc[t] \in HoldsRefresh => refresh = t

MarkInv == \A t \in Indexers : pc[t] \in {"mark_deleted", "mark_added"} => op[t] <= ops

AnnouncedInv == dirty \/ HolderAt({"commit", "delete_all"}) \/ returned <= committed.upTo

LoadedInv ==
  HolderAt({"reload", "delete_all", "reload_clear"}) \/ snapshot.upTo = committed.upTo

FloorInv ==
  \A t \in Searchers :
    /\ pc[t] \in {"lock", "swap", "commit"} => floor[t] <= returned
    /\ pc[t] = "reload" => floor[t] <= committed.upTo
    /\ pc[t] = "read" => floor[t] <= snapshot.upTo

FreshInv == OrderInv /\ HolderInv /\ MarkInv /\ AnnouncedInv /\ LoadedInv /\ FloorInv

\* clear, `landing them in a segment first makes the delete total': no document
\* whose add returned before the call is in the index or comes back.
ClearIsTotal ==
  \A t \in Committers :
    pc[t] = "cleared" => doomed[t] \cap (committed.docs \cup snapshot.docs \cup Added) = {}

\* Why, for an index whose commits succeed: a buffered document is announced by
\* `dirty', is being flushed, or its add has not returned yet, so that clear lands
\* what it has to delete in a segment before it deletes, whoever clears beside it.
PendingInv ==
  \A doc \in Added :
    \/ dirty \/ HolderAt({"commit"})
    \/ \E i \in Indexers : pc[i] = "mark_added" /\ op[i] = doc.number

Clearing == {"lock_clear", "lock_writer", "flush", "delete_all", "reload_clear", "cleared"}

ClearUnderWay(t) ==
  /\ pc[t] \in Clearing => \A doc \in doomed[t] : doc.number <= ops
  /\ pc[t] \in {"lock_clear", "lock_writer", "flush"} =>
       doomed[t] \cap Added = {} \/ dirty \/ HolderAt({"commit"})
  /\ pc[t] = "delete_all" => doomed[t] \cap Added = {}
  /\ pc[t] \in {"reload_clear", "cleared"} => doomed[t] \cap (committed.docs \cup Added) = {}
  /\ pc[t] = "cleared" => doomed[t] \cap snapshot.docs = {}

ClearInv == PendingInv /\ \A t \in Committers : ClearUnderWay(t)

\* delete_file, `a changed file can be re-indexed without leaving its previous
\* symbols behind': no search finds two versions of a file.
OnePerFile(docs) == \A d1, d2 \in docs : d1.file = d2.file => d1 = d2

OneVersionPerFile == OnePerFile(snapshot.docs)

\* Why, with one indexer, whatever fails: the next commit would leave one version of
\* a file, and none of a file between its delete and its add; the writer numbers
\* what it takes after all it took before, across restarts too.
VersionInv ==
  /\ committed.upTo <= ops
  /\ \A doc \in committed.docs : doc.number <= committed.upTo
  /\ \A i \in DOMAIN buffer : buffer[i].number <= ops
  /\ OnePerFile(committed.docs) /\ OnePerFile(Flushed.docs) /\ OneVersionPerFile
  /\ \A t \in Indexers :
       pc[t] \in {"mark_deleted", "add"} => \A doc \in Flushed.docs : doc.file # file[t]

\* Every search is answered, unless the process ends.
EverySearchReturns ==
  \A t \in Searchers : pc[t] = "lock" ~> pc[t] = "idle"

\* The protocol implements what callers are promised.
Promise == INSTANCE FreshIndex WITH
  written <- ops,
  shown <- snapshot.upTo,
  reading <- {t \in Searchers : pc[t] # "idle"},
  floor <- [t \in Searchers |-> floor[t]]

Fresh == Promise!Spec
=============================================================================
