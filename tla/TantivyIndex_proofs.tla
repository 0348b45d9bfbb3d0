------------------------- MODULE TantivyIndex_proofs -------------------------
(* Theorems about TantivyIndex, for any threads, files and bounds. *)
EXTENDS TantivyIndex, TLAPS

-----------------------------------------------------------------------------
(* Type correctness. *)

\* What is buffered and what a commit leaves are sets of documents.
LEMMA FlushedType ==
  ASSUME TypeOK
  PROVE  /\ Added \in SUBSET Document
         /\ Flushed \in [docs : SUBSET Document, upTo : Nat]
         /\ Flushed.upTo = ops
<1>1. /\ buffer \in Seq(Operation) /\ committed.docs \in SUBSET Document
      /\ ops \in Nat
  BY DEF TypeOK, IndexTypeOK, HistoryTypeOK
<1>2. \A i \in DOMAIN buffer : buffer[i] \in Operation
  BY <1>1
<1>3. \A i \in DOMAIN buffer : [file |-> buffer[i].file, number |-> buffer[i].number] \in Document
  BY <1>2 DEF Operation, Document
<1>4. Added \in SUBSET Document
  BY <1>3 DEF Added
<1> QED
  BY <1>1, <1>4 DEF Flushed

\* Where a thread that moves on is, and the others.
LEMMA GotoEffect ==
  ASSUME ThreadTypeOK, NEW t \in Threads, NEW label \in Labels, Goto(t, label)
  PROVE  /\ pc' \in [Threads -> Labels]
         /\ pc'[t] = label
         /\ \A u \in Threads : u # t => pc'[u] = pc[u]
BY DEF ThreadTypeOK, Goto

\* A writer that has just committed holds no operation.
LEMMA EmptyBuffer == <<>> \in Seq(Operation)
  OBVIOUS

LEMMA IndexersTypeOK ==
  ASSUME TypeOK, NEW t \in Indexers, Index(t)
  PROVE  TypeOK'
<1>1. t \in Threads
  BY DEF Threads
<1>2. IndexTypeOK /\ ThreadTypeOK /\ HistoryTypeOK
  BY DEF TypeOK
<1>3. ASSUME NEW kind \in {"add", "delete"}, Buffered(t, kind)
      PROVE  /\ IndexTypeOK' /\ HistoryTypeOK'
             /\ UNCHANGED <<refresh, writer, file>>
  <2>1. [kind |-> kind, file |-> file[t], number |-> ops + 1] \in Operation
    BY <1>2 DEF ThreadTypeOK, HistoryTypeOK, Operation
  <2>2. buffer' \in Seq(Operation)
    BY <1>2, <1>3, <2>1 DEF Buffered, IndexTypeOK
  <2> QED
    BY <1>2, <1>3, <2>2 DEF Buffered, IndexTypeOK, HistoryTypeOK, lockVars
<1>4. CASE \E f \in Files : Replace(t, f)
  <2> PICK f \in Files : Replace(t, f)
    BY <1>4
  <2>1. pc' \in [Threads -> Labels]
    BY <1>1, <1>2, GotoEffect DEF Replace, Labels
  <2> QED
    BY <1>2, <2>1 DEF TypeOK, IndexTypeOK, ThreadTypeOK, HistoryTypeOK, Replace,
                      indexVars, lockVars, historyVars
<1>5. CASE DeleteFile(t)
  <2>1. pc' \in [Threads -> Labels]
    BY <1>1, <1>2, <1>5, GotoEffect DEF DeleteFile, Labels
  <2> QED
    BY <1>2, <1>3, <1>5, <2>1 DEF DeleteFile, TypeOK, ThreadTypeOK
<1>6. CASE Add(t)
  <2>1. pc' \in [Threads -> Labels]
    BY <1>1, <1>2, <1>6, GotoEffect DEF Add, Labels
  <2> QED
    BY <1>2, <1>3, <1>6, <2>1 DEF Add, TypeOK, ThreadTypeOK
<1>7. CASE Mark(t)
  <2>1. pc' \in [Threads -> Labels]
    BY <1>1, <1>2, <1>7, GotoEffect DEF Mark, Labels
  <2>2. returned' \in Nat
    BY <1>2, <1>7 DEF Mark, HistoryTypeOK
  <2> QED
    BY <1>2, <1>7, <2>1, <2>2 DEF TypeOK, IndexTypeOK, ThreadTypeOK, HistoryTypeOK, Mark,
                                  indexVars, lockVars
<1> QED
  BY <1>4, <1>5, <1>6, <1>7 DEF Index

LEMMA RefreshTypeOK ==
  ASSUME TypeOK, NEW t \in Searchers \cup Committers, Call(t) \/ Refresh(t)
  PROVE  TypeOK'
<1>1. t \in Threads
  BY DEF Threads
<1>2. IndexTypeOK /\ ThreadTypeOK /\ HistoryTypeOK
  BY DEF TypeOK
<1>3. pc' \in [Threads -> Labels]
  BY <1>1, <1>2, GotoEffect
     DEF Call, Refresh, Lock, SwapClean, SwapDirty, Commit, CommitFails, Reload, ReloadFails, Read, Labels
<1>4. ThreadTypeOK'
  BY <1>1, <1>2, <1>3
     DEF Call, Refresh, Lock, SwapClean, SwapDirty, Commit, CommitFails, Reload, ReloadFails, Read,
         ThreadTypeOK, lockVars
<1>5. HistoryTypeOK'
  BY <1>2
     DEF Call, Refresh, Lock, SwapClean, SwapDirty, Commit, CommitFails, Reload, ReloadFails, Read,
         HistoryTypeOK, historyVars
<1>6. IndexTypeOK'
  <2>1. CASE Commit(t)
    <3>1. committed' \in [docs : SUBSET Document, upTo : Nat] /\ buffer' = <<>>
      BY <2>1, FlushedType DEF Commit
    <3> QED
      BY <1>2, <2>1, <3>1 DEF Commit, IndexTypeOK
  <2>2. CASE Reload(t)
    BY <1>2, <2>2 DEF Reload, IndexTypeOK
  <2>3. CASE Call(t) \/ Lock(t) \/ SwapClean(t) \/ SwapDirty(t) \/ CommitFails(t) \/ ReloadFails(t) \/ Read(t)
    BY <1>2, <2>3 DEF Call, Lock, SwapClean, SwapDirty, CommitFails, ReloadFails, Read,
                      IndexTypeOK, indexVars
  <2> QED
    BY <2>1, <2>2, <2>3 DEF Refresh
<1> QED
  BY <1>4, <1>5, <1>6 DEF TypeOK

LEMMA ClearTypeOK ==
  ASSUME TypeOK, NEW t \in Committers, CallClear(t) \/ Clear(t)
  PROVE  TypeOK'
<1>1. t \in Threads
  BY DEF Threads
<1>2. IndexTypeOK /\ ThreadTypeOK /\ HistoryTypeOK
  BY DEF TypeOK
<1>3. pc' \in [Threads -> Labels]
  BY <1>1, <1>2, GotoEffect
     DEF CallClear, Clear, LockClear, LockWriter, Flush, DeleteAll, ReloadClear, ClearFails, ReturnClear, Labels
<1>4. ThreadTypeOK'
  BY <1>1, <1>2, <1>3
     DEF CallClear, Clear, LockClear, LockWriter, Flush, DeleteAll, ReloadClear, ClearFails, ReturnClear,
         ThreadTypeOK, lockVars
<1>5. HistoryTypeOK'
  <2>1. CASE CallClear(t)
    <3>1. Added \in SUBSET Document /\ committed.docs \in SUBSET Document
      BY <1>2, FlushedType DEF IndexTypeOK
    <3>2. Returned \in SUBSET Document
      BY <3>1 DEF Returned
    <3>3. doomed' \in [Committers -> SUBSET Document]
      BY <1>2, <2>1, <3>2 DEF CallClear, HistoryTypeOK
    <3>4. UNCHANGED <<ops, stops, op, returned, floor>> /\ clears' = clears + 1
      BY <2>1 DEF CallClear
    <3> QED
      BY <1>2, <3>3, <3>4 DEF HistoryTypeOK
  <2>2. CASE Clear(t)
    BY <1>2, <2>2
       DEF Clear, LockClear, LockWriter, Flush, DeleteAll, ReloadClear, ClearFails, ReturnClear,
           HistoryTypeOK, historyVars
  <2> QED
    BY <2>1, <2>2
<1>6. IndexTypeOK'
  <2>1. CASE Flush(t)
    BY <1>2, <2>1, FlushedType, EmptyBuffer DEF Flush, IndexTypeOK
  <2>2. CASE DeleteAll(t)
    <3>1. committed' \in [docs : SUBSET Document, upTo : Nat]
      BY <1>2, <2>2, FlushedType DEF DeleteAll, HistoryTypeOK
    <3> QED
      BY <1>2, <2>2, <3>1, EmptyBuffer DEF DeleteAll, IndexTypeOK
  <2>3. CASE ReloadClear(t)
    BY <1>2, <2>3 DEF ReloadClear, IndexTypeOK
  <2>4. CASE CallClear(t) \/ LockClear(t) \/ LockWriter(t) \/ ReturnClear(t)
    BY <1>2, <2>4 DEF CallClear, LockClear, LockWriter, ReturnClear, IndexTypeOK, indexVars
  <2>5. CASE ClearFails(t)
    BY <1>2, <2>5 DEF ClearFails, IndexTypeOK, indexVars
  <2> QED
    BY <2>1, <2>2, <2>3, <2>4, <2>5 DEF Clear
<1> QED
  BY <1>4, <1>5, <1>6 DEF TypeOK

LEMMA StopTypeOK ==
  ASSUME TypeOK, Stop
  PROVE  TypeOK'
<1>1. pc' \in [Threads -> Labels]
  BY DEF Stop, Labels
<1>2. committed.upTo \in Nat
  BY DEF TypeOK, IndexTypeOK
<1>3. IndexTypeOK'
  BY EmptyBuffer DEF TypeOK, IndexTypeOK, Stop
<1>4. ThreadTypeOK'
  BY <1>1 DEF TypeOK, ThreadTypeOK, Stop
<1>5. HistoryTypeOK'
  BY <1>2 DEF TypeOK, HistoryTypeOK, Stop
<1> QED
  BY <1>3, <1>4, <1>5 DEF TypeOK

LEMMA InitTypeOK == Init => TypeOK
<1> SUFFICES ASSUME Init PROVE TypeOK
  OBVIOUS
<1>1. IndexTypeOK
  BY EmptyBuffer DEF Init, IndexTypeOK, Empty
<1>2. ThreadTypeOK
  BY DEF Init, ThreadTypeOK, Labels
<1>3. HistoryTypeOK
  BY DEF Init, HistoryTypeOK
<1> QED
  BY <1>1, <1>2, <1>3 DEF TypeOK

\* Every variable of the commit protocol keeps its type, whatever the threads do
\* and wherever the process ends.
THEOREM TypeCorrect == Spec => []TypeOK
<1>1. TypeOK /\ [Next]_vars => TypeOK'
  <2> SUFFICES ASSUME TypeOK, [Next]_vars PROVE TypeOK'
    OBVIOUS
  <2>1. CASE UNCHANGED vars
    BY <2>1 DEF TypeOK, IndexTypeOK, ThreadTypeOK, HistoryTypeOK, vars,
                indexVars, lockVars, historyVars
  <2> QED
    BY <2>1, IndexersTypeOK, RefreshTypeOK, ClearTypeOK, StopTypeOK DEF Next
<1> QED
  BY <1>1, InitTypeOK, PTL DEF Spec

-----------------------------------------------------------------------------
(* A read sees every write that returned before it, when commits succeed.  *)

\* What the invariant counts and compares are numbers.
LEMMA NumberTypes ==
  ASSUME TypeOK
  PROVE  /\ ops \in Nat /\ returned \in Nat
         /\ committed.upTo \in Nat /\ snapshot.upTo \in Nat
         /\ op \in [Indexers -> Nat]
         /\ \A t \in Searchers : floor[t] \in Nat
BY DEF TypeOK, IndexTypeOK, HistoryTypeOK

\* Whoever is where the code holds `refresh' is the one HolderAt speaks of.
LEMMA Holding ==
  ASSUME TypeOK, HolderInv, NEW t \in Threads, pc[t] \in HoldsRefresh
  PROVE  /\ refresh = t
         /\ \A labels : HolderAt(labels) <=> pc[t] \in labels
BY ThreadsAssumption DEF HolderInv, HolderAt

\* A free `refresh' has no holder, and nobody is where the code holds it.
LEMMA FreeRefresh ==
  ASSUME HolderInv, refresh = NoThread
  PROVE  /\ \A labels : ~ HolderAt(labels)
         /\ \A t \in Threads : pc[t] \notin HoldsRefresh
BY ThreadsAssumption DEF HolderInv, HolderAt

\* A step of a thread that does not hold `refresh' and does not take it leaves
\* its holder where it was.
LEMMA HolderElsewhere ==
  ASSUME TypeOK, HolderInv, NEW t \in Threads, NEW label \in Labels \ HoldsRefresh,
         pc[t] \notin HoldsRefresh, Goto(t, label), refresh' = refresh
  PROVE  /\ HolderInv'
         /\ \A labels \in SUBSET HoldsRefresh : HolderAt(labels) => HolderAt(labels)'
<1>1. /\ pc'[t] = label
      /\ \A u \in Threads : u # t => pc'[u] = pc[u]
  BY GotoEffect DEF TypeOK
<1>2. refresh \in Threads \cup {NoThread}
  BY DEF TypeOK, ThreadTypeOK
<1> QED
  BY <1>1, <1>2 DEF HolderInv, HolderAt

\* The labels AnnouncedInv and LoadedInv ask for are among those.
LEMMA HolderLabels ==
  /\ {"commit", "delete_all"} \in SUBSET HoldsRefresh
  /\ {"reload", "delete_all", "reload_clear"} \in SUBSET HoldsRefresh
BY DEF HoldsRefresh

\* What an indexer buffers is announced before its call returns.
LEMMA IndexFresh ==
  ASSUME TypeOK, FreshInv, NEW t \in Indexers, Index(t)
  PROVE  FreshInv'
<1>1. t \in Threads /\ t \notin Searchers
  BY ThreadsAssumption DEF Threads
<1>2. PICK label \in {"delete", "mark_deleted", "add", "mark_added", "idle"} :
        /\ Goto(t, label)
        /\ pc[t] \in {"idle", "delete", "mark_deleted", "add", "mark_added"}
  BY DEF Index, Replace, DeleteFile, Add, Mark
<1>3. UNCHANGED <<committed, snapshot, refresh, floor>>
  BY DEF Index, Replace, DeleteFile, Add, Mark, Buffered, indexVars, lockVars, historyVars
<1>4. /\ label \in Labels \ HoldsRefresh /\ pc[t] \notin HoldsRefresh
  BY <1>2 DEF Labels, HoldsRefresh
<1>5. /\ HolderInv'
      /\ \A labels \in SUBSET HoldsRefresh : HolderAt(labels) => HolderAt(labels)'
  BY <1>1, <1>2, <1>3, <1>4, HolderElsewhere DEF FreshInv
<1>6. /\ pc'[t] = label
      /\ \A u \in Threads : u # t => pc'[u] = pc[u]
  BY <1>1, <1>2, <1>4, GotoEffect DEF TypeOK
<1>7. LoadedInv'
  BY <1>3, <1>5, HolderLabels DEF FreshInv, LoadedInv
<1>8. \A u \in Searchers : pc'[u] = pc[u]
  BY <1>1, <1>6 DEF Threads
<1>9. \A u \in Indexers : u # t => pc'[u] = pc[u]
  BY <1>6 DEF Threads
<1>0. /\ ops \in Nat /\ returned \in Nat /\ committed.upTo \in Nat /\ snapshot.upTo \in Nat
      /\ op \in [Indexers -> Nat]
  BY NumberTypes
<1>10. CASE Mark(t)
  <2>1. /\ dirty' = TRUE /\ UNCHANGED <<ops, op>>
        /\ pc[t] \in {"mark_deleted", "mark_added"}
        /\ returned' = IF op[t] > returned THEN op[t] ELSE returned
    BY <1>10 DEF Mark
  <2>2. op[t] \in Nat /\ op[t] <= ops
    BY <1>0, <2>1 DEF FreshInv, MarkInv
  <2>3. returned <= returned' /\ returned' <= ops /\ returned' \in Nat
    <3>1. returned <= ops
      BY DEF FreshInv, OrderInv
    <3> QED
      BY <1>0, <2>1, <2>2, <3>1
  <2>4. OrderInv'
    BY <1>3, <2>1, <2>3 DEF FreshInv, OrderInv
  <2>5. label \in {"add", "idle"}
    BY <1>2, <1>6, <1>10, GotoEffect, <1>1 DEF Mark, TypeOK, Labels
  <2>6. MarkInv'
    BY <1>6, <1>9, <2>1, <2>5 DEF FreshInv, MarkInv
  <2>7. FloorInv'
    <3> SUFFICES ASSUME NEW u \in Searchers
                 PROVE  /\ pc'[u] \in {"lock", "swap", "commit"} => floor'[u] <= returned'
                        /\ pc'[u] = "reload" => floor'[u] <= committed'.upTo
                        /\ pc'[u] = "read" => floor'[u] <= snapshot'.upTo
      BY DEF FloorInv
    <3>1. /\ pc[u] \in {"lock", "swap", "commit"} => floor[u] <= returned
          /\ pc[u] = "reload" => floor[u] <= committed.upTo
          /\ pc[u] = "read" => floor[u] <= snapshot.upTo
      BY DEF FreshInv, FloorInv
    <3>2. floor[u] \in Nat
      BY NumberTypes
    <3>3. floor[u] <= returned => floor[u] <= returned'
      BY <1>0, <2>3, <3>2
    <3> QED
      BY <1>3, <1>8, <3>1, <3>3
  <2> QED
    BY <1>5, <1>7, <2>1, <2>4, <2>6, <2>7 DEF FreshInv, AnnouncedInv
<1>11. CASE (\E f \in Files : Replace(t, f)) \/ DeleteFile(t) \/ Add(t)
  <2>1. UNCHANGED <<returned, dirty>>
    BY <1>11 DEF Replace, DeleteFile, Add, Buffered, historyVars
  <2>2. \/ UNCHANGED <<ops, op>> /\ label = "delete"
        \/ ops' = ops + 1 /\ op' = [op EXCEPT ![t] = ops + 1]
    BY <1>1, <1>4, <1>11, GotoEffect, <1>6 DEF Replace, DeleteFile, Add, Buffered, historyVars,
       Labels, TypeOK
  <2>3. AnnouncedInv'
    BY <1>3, <1>5, <2>1, HolderLabels DEF FreshInv, AnnouncedInv
  <2>4. OrderInv'
    <3>1. returned <= ops /\ committed.upTo <= ops /\ snapshot.upTo <= committed.upTo
      BY DEF FreshInv, OrderInv
    <3>2. returned <= ops' /\ committed.upTo <= ops'
      BY <1>0, <2>2, <3>1
    <3> QED
      BY <1>3, <2>1, <3>1, <3>2 DEF OrderInv
  <2>5. MarkInv'
    <3> SUFFICES ASSUME NEW u \in Indexers, pc'[u] \in {"mark_deleted", "mark_added"}
                 PROVE  op'[u] <= ops'
      BY DEF MarkInv
    <3>1. CASE u = t
      BY <1>0, <1>6, <2>2, <3>1
    <3>2. CASE u # t
      <4>1. op[u] <= ops /\ op[u] \in Nat
        BY <1>0, <1>9, <3>2 DEF FreshInv, MarkInv
      <4>2. op[u] <= ops'
        BY <1>0, <2>2, <4>1
      <4> QED
        BY <1>0, <2>2, <3>2, <4>2
    <3> QED
      BY <3>1, <3>2
  <2>6. FloorInv'
    BY <1>3, <1>8, <2>1 DEF FreshInv, FloorInv
  <2> QED
    BY <1>5, <1>7, <2>3, <2>4, <2>5, <2>6 DEF FreshInv
<1> QED
  BY <1>10, <1>11 DEF Index

\* A search or a commit flushes and loads what is announced, under `refresh'.
LEMMA RefreshFresh ==
  ASSUME ~ CommitsCanFail, TypeOK, FreshInv, NEW t \in Searchers \cup Committers,
         Call(t) \/ Refresh(t)
  PROVE  FreshInv'
<1>1. t \in Threads /\ t \notin Indexers /\ t # NoThread
  BY ThreadsAssumption DEF Threads
<1>2. UNCHANGED <<ops, op, returned>>
  BY DEF Call, Refresh, Lock, SwapClean, SwapDirty, Commit, CommitFails, Reload, ReloadFails, Read, historyVars
<1>3. PICK label \in {"lock", "swap", "read", "commit", "reload", "idle"} : Goto(t, label)
  BY DEF Call, Refresh, Lock, SwapClean, SwapDirty, Commit, CommitFails, Reload, ReloadFails, Read
<1>4. /\ pc'[t] = label
      /\ \A u \in Threads : u # t => pc'[u] = pc[u]
  BY <1>1, <1>3, GotoEffect DEF TypeOK, Labels
<1>5. MarkInv'
  BY <1>1, <1>2, <1>4 DEF FreshInv, MarkInv, Threads
<1>6. HolderInv /\ OrderInv /\ AnnouncedInv /\ LoadedInv /\ FloorInv
  BY DEF FreshInv
<1>7. \A u \in Searchers : u # t => pc'[u] = pc[u]
  BY <1>4 DEF Threads
<1>8. /\ ops \in Nat /\ returned \in Nat /\ committed.upTo \in Nat /\ snapshot.upTo \in Nat
      /\ returned <= ops /\ committed.upTo <= ops /\ snapshot.upTo <= committed.upTo
  BY <1>6, NumberTypes DEF OrderInv
<1>9. \A u \in Searchers :
        /\ floor[u] \in Nat
        /\ pc[u] \in {"lock", "swap", "commit"} => floor[u] <= returned
        /\ pc[u] = "reload" => floor[u] <= committed.upTo
        /\ pc[u] = "read" => floor[u] <= snapshot.upTo
  BY <1>6, NumberTypes DEF FloorInv
<1>10. CASE Call(t)
  <2>1. /\ UNCHANGED <<committed, snapshot, dirty, refresh>>
        /\ floor' = [floor EXCEPT ![t] = returned]
        /\ pc[t] = "idle" /\ Goto(t, "lock")
    BY <1>10 DEF Call, indexVars, lockVars
  <2>2. pc'[t] = "lock"
    BY <1>1, <2>1, GotoEffect DEF TypeOK, Labels
  <2>3. /\ HolderInv'
        /\ \A labels \in SUBSET HoldsRefresh : HolderAt(labels) => HolderAt(labels)'
    <3>1. "lock" \in Labels \ HoldsRefresh /\ pc[t] \notin HoldsRefresh
      BY <2>1 DEF Labels, HoldsRefresh
    <3> QED
      BY <1>1, <1>6, <2>1, <3>1, HolderElsewhere
  <2>4. AnnouncedInv' /\ LoadedInv'
    BY <1>2, <1>6, <2>1, <2>3, HolderLabels DEF AnnouncedInv, LoadedInv
  <2>5. OrderInv'
    BY <1>2, <1>6, <2>1 DEF OrderInv
  <2>6. FloorInv'
    <3> SUFFICES ASSUME NEW u \in Searchers
                 PROVE  /\ pc'[u] \in {"lock", "swap", "commit"} => floor'[u] <= returned'
                        /\ pc'[u] = "reload" => floor'[u] <= committed'.upTo
                        /\ pc'[u] = "read" => floor'[u] <= snapshot'.upTo
      BY DEF FloorInv
    <3>1. floor \in [Searchers \cup Committers -> Nat]
      BY DEF TypeOK, HistoryTypeOK
    <3>2. CASE u = t
      <4>1. floor'[t] = returned
        BY <2>1, <3>1
      <4> QED
        BY <1>2, <1>8, <2>2, <3>2, <4>1
    <3>3. CASE u # t
      <4>1. floor'[u] = floor[u]
        BY <2>1, <3>1, <3>3
      <4> QED
        BY <1>2, <1>7, <1>9, <2>1, <3>3, <4>1
    <3> QED
      BY <3>2, <3>3
  <2> QED
    BY <1>5, <2>3, <2>4, <2>5, <2>6 DEF FreshInv
<1>11. CASE Lock(t)
  <2>1. /\ UNCHANGED <<committed, snapshot, dirty, floor>>
        /\ refresh = NoThread /\ refresh' = t
        /\ pc[t] = "lock" /\ Goto(t, "swap")
    BY <1>11 DEF Lock, indexVars, historyVars
  <2>2. pc'[t] = "swap"
    BY <1>1, <2>1, GotoEffect DEF TypeOK, Labels
  <2>3. HolderInv'
    BY <1>4, <1>6, <2>1, FreeRefresh DEF HolderInv
  <2>4. AnnouncedInv' /\ LoadedInv'
    BY <1>2, <1>6, <2>1, FreeRefresh DEF AnnouncedInv, LoadedInv
  <2>5. OrderInv'
    BY <1>2, <1>6, <2>1 DEF OrderInv
  <2>6. FloorInv'
    BY <1>2, <1>7, <1>9, <2>1, <2>2 DEF FloorInv
  <2> QED
    BY <1>5, <2>3, <2>4, <2>5, <2>6 DEF FreshInv
<1>12. CASE SwapClean(t)
  <2>1. /\ UNCHANGED <<committed, snapshot, dirty, floor>>
        /\ ~ dirty /\ refresh' = NoThread
        /\ pc[t] = "swap" /\ Goto(t, "read")
    BY <1>12 DEF SwapClean, indexVars, historyVars
  <2>2. pc'[t] = "read"
    BY <1>1, <2>1, GotoEffect DEF TypeOK, Labels
  <2>3. refresh = t /\ \A labels : HolderAt(labels) <=> pc[t] \in labels
    BY <1>1, <1>6, <2>1, Holding DEF HoldsRefresh
  <2>4. returned <= committed.upTo /\ snapshot.upTo = committed.upTo
    BY <1>6, <2>1, <2>3 DEF AnnouncedInv, LoadedInv
  <2>5. HolderInv'
    BY <1>4, <1>6, <2>2, <2>3 DEF HolderInv, HoldsRefresh
  <2>6. AnnouncedInv' /\ LoadedInv' /\ OrderInv'
    BY <1>2, <1>6, <2>1, <2>4 DEF AnnouncedInv, LoadedInv, OrderInv
  <2>7. FloorInv'
    <3> SUFFICES ASSUME NEW u \in Searchers
                 PROVE  /\ pc'[u] \in {"lock", "swap", "commit"} => floor'[u] <= returned'
                        /\ pc'[u] = "reload" => floor'[u] <= committed'.upTo
                        /\ pc'[u] = "read" => floor'[u] <= snapshot'.upTo
      BY DEF FloorInv
    <3>1. floor[u] <= returned => floor[u] <= snapshot.upTo
      BY <1>8, <1>9, <2>4
    <3> QED
      BY <1>2, <1>7, <1>9, <2>1, <2>2, <3>1
  <2> QED
    BY <1>5, <2>5, <2>6, <2>7 DEF FreshInv
<1>13. CASE SwapDirty(t)
  <2>1. /\ UNCHANGED <<committed, snapshot, refresh, floor>>
        /\ dirty' = FALSE
        /\ pc[t] = "swap" /\ Goto(t, "commit")
    BY <1>13 DEF SwapDirty, indexVars, lockVars, historyVars
  <2>2. pc'[t] = "commit"
    BY <1>1, <2>1, GotoEffect DEF TypeOK, Labels
  <2>3. refresh = t /\ \A labels : HolderAt(labels) <=> pc[t] \in labels
    BY <1>1, <1>6, <2>1, Holding DEF HoldsRefresh
  <2>4. HolderInv'
    BY <1>4, <1>6, <2>1, <2>3 DEF HolderInv
  <2>5. AnnouncedInv'
    BY <1>1, <2>1, <2>2, <2>3 DEF AnnouncedInv, HolderAt
  <2>6. LoadedInv' /\ OrderInv'
    BY <1>2, <1>6, <2>1, <2>3 DEF LoadedInv, OrderInv
  <2>7. FloorInv'
    BY <1>2, <1>7, <1>9, <2>1, <2>2 DEF FloorInv
  <2> QED
    BY <1>5, <2>4, <2>5, <2>6, <2>7 DEF FreshInv
<1>14. CASE Commit(t)
  <2>1. /\ UNCHANGED <<snapshot, dirty, refresh, floor>>
        /\ committed' = Flushed
        /\ pc[t] = "commit" /\ Goto(t, "reload")
    BY <1>14 DEF Commit, lockVars, historyVars
  <2>2. pc'[t] = "reload"
    BY <1>1, <2>1, GotoEffect DEF TypeOK, Labels
  <2>3. refresh = t /\ \A labels : HolderAt(labels) <=> pc[t] \in labels
    BY <1>1, <1>6, <2>1, Holding DEF HoldsRefresh
  <2>4. committed'.upTo = ops
    BY <2>1, FlushedType
  <2>5. HolderInv'
    BY <1>4, <1>6, <2>1, <2>3 DEF HolderInv
  <2>6. AnnouncedInv' /\ LoadedInv'
    BY <1>1, <1>2, <1>8, <2>1, <2>2, <2>3, <2>4 DEF AnnouncedInv, LoadedInv, HolderAt
  <2>7. OrderInv'
    <3>1. snapshot.upTo <= ops
      BY <1>8
    <3> QED
      BY <1>2, <1>8, <2>1, <2>4, <3>1 DEF OrderInv
  <2>8. FloorInv'
    <3> SUFFICES ASSUME NEW u \in Searchers
                 PROVE  /\ pc'[u] \in {"lock", "swap", "commit"} => floor'[u] <= returned'
                        /\ pc'[u] = "reload" => floor'[u] <= committed'.upTo
                        /\ pc'[u] = "read" => floor'[u] <= snapshot'.upTo
      BY DEF FloorInv
    <3>1. /\ floor[u] <= returned => floor[u] <= ops
          /\ floor[u] <= committed.upTo => floor[u] <= ops
      BY <1>8, <1>9
    <3> QED
      BY <1>2, <1>7, <1>9, <2>1, <2>2, <2>4, <3>1
  <2> QED
    BY <1>5, <2>5, <2>6, <2>7, <2>8 DEF FreshInv
<1>15. CASE Reload(t)
  <2>1. /\ UNCHANGED <<committed, dirty, floor>>
        /\ snapshot' = committed /\ refresh' = NoThread
        /\ pc[t] = "reload" /\ Goto(t, "read")
    BY <1>15 DEF Reload, historyVars
  <2>2. pc'[t] = "read"
    BY <1>1, <2>1, GotoEffect DEF TypeOK, Labels
  <2>3. refresh = t /\ \A labels : HolderAt(labels) <=> pc[t] \in labels
    BY <1>1, <1>6, <2>1, Holding DEF HoldsRefresh
  <2>4. HolderInv'
    BY <1>4, <1>6, <2>2, <2>3 DEF HolderInv, HoldsRefresh
  <2>5. AnnouncedInv' /\ LoadedInv' /\ OrderInv'
    BY <1>2, <1>6, <1>8, <2>1, <2>3 DEF AnnouncedInv, LoadedInv, OrderInv
  <2>6. FloorInv'
    <3> SUFFICES ASSUME NEW u \in Searchers
                 PROVE  /\ pc'[u] \in {"lock", "swap", "commit"} => floor'[u] <= returned'
                        /\ pc'[u] = "reload" => floor'[u] <= committed'.upTo
                        /\ pc'[u] = "read" => floor'[u] <= snapshot'.upTo
      BY DEF FloorInv
    <3>1. floor[u] <= snapshot.upTo => floor[u] <= committed.upTo
      BY <1>8, <1>9
    <3> QED
      BY <1>2, <1>7, <1>9, <2>1, <2>2, <3>1
  <2> QED
    BY <1>5, <2>4, <2>5, <2>6 DEF FreshInv
<1>16. CASE Read(t)
  <2>1. /\ UNCHANGED <<committed, snapshot, dirty, refresh, floor>>
        /\ pc[t] = "read" /\ Goto(t, "idle")
    BY <1>16 DEF Read, indexVars, lockVars, historyVars
  <2>2. pc'[t] = "idle"
    BY <1>1, <2>1, GotoEffect DEF TypeOK, Labels
  <2>3. /\ HolderInv'
        /\ \A labels \in SUBSET HoldsRefresh : HolderAt(labels) => HolderAt(labels)'
    <3>1. "idle" \in Labels \ HoldsRefresh /\ pc[t] \notin HoldsRefresh
      BY <2>1 DEF Labels, HoldsRefresh
    <3> QED
      BY <1>1, <1>6, <2>1, <3>1, HolderElsewhere
  <2>4. AnnouncedInv' /\ LoadedInv' /\ OrderInv'
    BY <1>2, <1>6, <2>1, <2>3, HolderLabels DEF AnnouncedInv, LoadedInv, OrderInv
  <2>5. FloorInv'
    BY <1>2, <1>7, <1>9, <2>1, <2>2 DEF FloorInv
  <2> QED
    BY <1>5, <2>3, <2>4, <2>5 DEF FreshInv
<1> QED
  BY <1>10, <1>11, <1>12, <1>13, <1>14, <1>15, <1>16 DEF Refresh, CommitFails, ReloadFails

\* A clear holds `refresh' throughout and leaves nothing unannounced.
LEMMA ClearFresh ==
  ASSUME ~ CommitsCanFail, TypeOK, FreshInv, NEW t \in Committers, CallClear(t) \/ Clear(t)
  PROVE  FreshInv'
<1>1. t \in Threads /\ t \notin Indexers /\ t \notin Searchers /\ t # NoThread
  BY ThreadsAssumption DEF Threads
<1>2. UNCHANGED <<ops, op, returned, floor>>
  BY DEF CallClear, Clear, LockClear, LockWriter, Flush, DeleteAll, ReloadClear, ClearFails, ReturnClear,
         historyVars
<1>3. PICK label \in {"lock_clear", "lock_writer", "flush", "delete_all", "reload_clear",
                      "cleared", "idle"} : Goto(t, label)
  BY DEF CallClear, Clear, LockClear, LockWriter, Flush, DeleteAll, ReloadClear, ClearFails, ReturnClear
<1>4. /\ pc'[t] = label
      /\ \A u \in Threads : u # t => pc'[u] = pc[u]
  BY <1>1, <1>3, GotoEffect DEF TypeOK, Labels
<1>5. MarkInv'
  BY <1>1, <1>2, <1>4 DEF FreshInv, MarkInv, Threads
<1>6. HolderInv /\ OrderInv /\ AnnouncedInv /\ LoadedInv /\ FloorInv
  BY DEF FreshInv
<1>7. \A u \in Searchers : pc'[u] = pc[u]
  BY <1>1, <1>4 DEF Threads
<1>8. /\ ops \in Nat /\ returned \in Nat /\ committed.upTo \in Nat /\ snapshot.upTo \in Nat
      /\ returned <= ops /\ committed.upTo <= ops /\ snapshot.upTo <= committed.upTo
  BY <1>6, NumberTypes DEF OrderInv
<1>9. \A u \in Searchers :
        /\ floor[u] \in Nat
        /\ pc[u] \in {"lock", "swap", "commit"} => floor[u] <= returned
        /\ pc[u] = "reload" => floor[u] <= committed.upTo
        /\ pc[u] = "read" => floor[u] <= snapshot.upTo
  BY <1>6, NumberTypes DEF FloorInv
<1>10. CASE CallClear(t) \/ ReturnClear(t)
  <2>1. /\ UNCHANGED <<committed, snapshot, dirty, refresh>>
        /\ pc[t] \in {"idle", "cleared"} /\ (Goto(t, "lock_clear") \/ Goto(t, "idle"))
    BY <1>10 DEF CallClear, ReturnClear, indexVars, lockVars
  <2>2. /\ HolderInv'
        /\ \A labels \in SUBSET HoldsRefresh : HolderAt(labels) => HolderAt(labels)'
    <3>1. /\ "lock_clear" \in Labels \ HoldsRefresh /\ "idle" \in Labels \ HoldsRefresh
          /\ pc[t] \notin HoldsRefresh
      BY <2>1 DEF Labels, HoldsRefresh
    <3> QED
      BY <1>1, <1>6, <2>1, <3>1, HolderElsewhere
  <2>3. AnnouncedInv' /\ LoadedInv' /\ OrderInv'
    BY <1>2, <1>6, <2>1, <2>2, HolderLabels DEF AnnouncedInv, LoadedInv, OrderInv
  <2>4. FloorInv'
    BY <1>2, <1>7, <1>9, <2>1 DEF FloorInv
  <2> QED
    BY <1>5, <2>2, <2>3, <2>4 DEF FreshInv
<1>11. CASE LockClear(t)
  <2>1. /\ UNCHANGED <<committed, snapshot, dirty>>
        /\ refresh = NoThread /\ refresh' = t
    BY <1>11 DEF LockClear, indexVars
  <2>2. HolderInv'
    BY <1>4, <1>6, <2>1, FreeRefresh DEF HolderInv
  <2>3. AnnouncedInv' /\ LoadedInv' /\ OrderInv'
    BY <1>2, <1>6, <2>1, FreeRefresh DEF AnnouncedInv, LoadedInv, OrderInv
  <2>4. FloorInv'
    BY <1>2, <1>7, <1>9, <2>1 DEF FloorInv
  <2> QED
    BY <1>5, <2>2, <2>3, <2>4 DEF FreshInv
<1>12. CASE LockWriter(t)
  <2>1. /\ UNCHANGED <<committed, snapshot, dirty, refresh>>
        /\ pc[t] = "lock_writer" /\ Goto(t, "flush")
    BY <1>12 DEF LockWriter, indexVars
  <2>2. refresh = t /\ \A labels : HolderAt(labels) <=> pc[t] \in labels
    BY <1>1, <1>6, <2>1, Holding DEF HoldsRefresh
  <2>3. HolderInv'
    BY <1>4, <1>6, <2>1, <2>2 DEF HolderInv
  <2>4. AnnouncedInv' /\ LoadedInv' /\ OrderInv'
    BY <1>2, <1>6, <2>1, <2>2 DEF AnnouncedInv, LoadedInv, OrderInv
  <2>5. FloorInv'
    BY <1>2, <1>7, <1>9, <2>1 DEF FloorInv
  <2> QED
    BY <1>5, <2>3, <2>4, <2>5 DEF FreshInv
<1>13. CASE Flush(t)
  <2>1. /\ UNCHANGED <<snapshot, refresh>>
        /\ committed' \in {Flushed, committed}
        /\ pc[t] = "flush" /\ Goto(t, "delete_all")
    BY <1>13 DEF Flush, lockVars
  <2>2. refresh = t
    BY <1>1, <1>6, <2>1, Holding DEF HoldsRefresh
  <2>3. pc'[t] = "delete_all"
    BY <1>1, <2>1, GotoEffect DEF TypeOK, Labels
  <2>4. /\ committed'.upTo \in Nat /\ committed'.upTo <= ops
        /\ committed.upTo <= committed'.upTo
    BY <1>8, <2>1, FlushedType
  <2>5. HolderInv'
    BY <1>4, <1>6, <2>1, <2>2 DEF HolderInv
  <2>6. AnnouncedInv' /\ LoadedInv'
    BY <1>1, <2>1, <2>2, <2>3 DEF AnnouncedInv, LoadedInv, HolderAt
  <2>7. OrderInv'
    <3>1. snapshot.upTo <= committed'.upTo
      BY <1>8, <2>4
    <3> QED
      BY <1>2, <1>8, <2>1, <2>4, <3>1 DEF OrderInv
  <2>8. FloorInv'
    <3> SUFFICES ASSUME NEW u \in Searchers
                 PROVE  /\ pc'[u] \in {"lock", "swap", "commit"} => floor'[u] <= returned'
                        /\ pc'[u] = "reload" => floor'[u] <= committed'.upTo
                        /\ pc'[u] = "read" => floor'[u] <= snapshot'.upTo
      BY DEF FloorInv
    <3>1. floor[u] <= committed.upTo => floor[u] <= committed'.upTo
      BY <1>8, <1>9, <2>4
    <3> QED
      BY <1>2, <1>7, <1>9, <2>1, <3>1
  <2> QED
    BY <1>5, <2>5, <2>6, <2>7, <2>8 DEF FreshInv
<1>14. CASE DeleteAll(t)
  <2>1. /\ UNCHANGED <<snapshot, dirty, refresh>>
        /\ committed'.upTo = ops
        /\ pc[t] = "delete_all" /\ Goto(t, "reload_clear")
    BY <1>14 DEF DeleteAll
  <2>2. refresh = t
    BY <1>1, <1>6, <2>1, Holding DEF HoldsRefresh
  <2>3. pc'[t] = "reload_clear"
    BY <1>1, <2>1, GotoEffect DEF TypeOK, Labels
  <2>4. HolderInv'
    BY <1>4, <1>6, <2>1, <2>2 DEF HolderInv
  <2>5. AnnouncedInv' /\ LoadedInv'
    BY <1>1, <1>2, <1>8, <2>1, <2>2, <2>3 DEF AnnouncedInv, LoadedInv, HolderAt
  <2>6. OrderInv'
    <3>1. snapshot.upTo <= ops
      BY <1>8
    <3> QED
      BY <1>2, <1>8, <2>1, <3>1 DEF OrderInv
  <2>7. FloorInv'
    <3> SUFFICES ASSUME NEW u \in Searchers
                 PROVE  /\ pc'[u] \in {"lock", "swap", "commit"} => floor'[u] <= returned'
                        /\ pc'[u] = "reload" => floor'[u] <= committed'.upTo
                        /\ pc'[u] = "read" => floor'[u] <= snapshot'.upTo
      BY DEF FloorInv
    <3>1. floor[u] <= committed.upTo => floor[u] <= ops
      BY <1>8, <1>9
    <3> QED
      BY <1>2, <1>7, <1>9, <2>1, <3>1
  <2> QED
    BY <1>5, <2>4, <2>5, <2>6, <2>7 DEF FreshInv
<1>15. CASE ReloadClear(t)
  <2>1. /\ UNCHANGED <<committed, dirty>>
        /\ snapshot' = committed /\ refresh' = NoThread
        /\ pc[t] = "reload_clear" /\ Goto(t, "cleared")
    BY <1>15 DEF ReloadClear
  <2>2. pc'[t] = "cleared"
    BY <1>1, <2>1, GotoEffect DEF TypeOK, Labels
  <2>3. refresh = t /\ \A labels : HolderAt(labels) <=> pc[t] \in labels
    BY <1>1, <1>6, <2>1, Holding DEF HoldsRefresh
  <2>4. HolderInv'
    BY <1>4, <1>6, <2>2, <2>3 DEF HolderInv, HoldsRefresh
  <2>5. AnnouncedInv' /\ LoadedInv' /\ OrderInv'
    BY <1>2, <1>6, <1>8, <2>1, <2>3 DEF AnnouncedInv, LoadedInv, OrderInv
  <2>6. FloorInv'
    <3> SUFFICES ASSUME NEW u \in Searchers
                 PROVE  /\ pc'[u] \in {"lock", "swap", "commit"} => floor'[u] <= returned'
                        /\ pc'[u] = "reload" => floor'[u] <= committed'.upTo
                        /\ pc'[u] = "read" => floor'[u] <= snapshot'.upTo
      BY DEF FloorInv
    <3>1. floor[u] <= snapshot.upTo => floor[u] <= committed.upTo
      BY <1>8, <1>9
    <3> QED
      BY <1>2, <1>7, <1>9, <2>1, <3>1
  <2> QED
    BY <1>5, <2>4, <2>5, <2>6 DEF FreshInv
<1> QED
  BY <1>10, <1>11, <1>12, <1>13, <1>14, <1>15 DEF Clear, ClearFails

\* A restart knows what was committed, and nobody is reading.
LEMMA StopFresh ==
  ASSUME TypeOK, Stop
  PROVE  FreshInv'
<1>1. committed.upTo \in Nat
  BY DEF TypeOK, IndexTypeOK
<1>2. /\ \A t \in Threads : pc'[t] = "idle"
      /\ ops' = committed.upTo /\ returned' = committed.upTo
      /\ committed' = committed /\ snapshot' = committed
  BY DEF Stop
<1>3. OrderInv' /\ AnnouncedInv' /\ LoadedInv'
  BY <1>1, <1>2 DEF OrderInv, AnnouncedInv, LoadedInv
<1>4. HolderInv' /\ MarkInv' /\ FloorInv'
  BY <1>2 DEF HolderInv, MarkInv, FloorInv, HoldsRefresh, Threads
<1> QED
  BY <1>3, <1>4 DEF FreshInv

LEMMA InitFresh == Init => FreshInv
<1> SUFFICES ASSUME Init PROVE FreshInv
  OBVIOUS
<1>1. OrderInv /\ AnnouncedInv /\ LoadedInv
  BY DEF Init, Empty, OrderInv, AnnouncedInv, LoadedInv
<1>2. \A t \in Threads : pc[t] = "idle"
  BY DEF Init
<1>3. HolderInv /\ MarkInv /\ FloorInv
  BY <1>2 DEF HolderInv, MarkInv, FloorInv, HoldsRefresh, Threads
<1> QED
  BY <1>1, <1>3 DEF FreshInv

\* What returned is announced, being flushed, or on disk, in every reachable state
\* of an index whose commits succeed.
THEOREM FreshInvariant == ~ CommitsCanFail /\ Spec => []FreshInv
<1> SUFFICES ASSUME ~ CommitsCanFail
             PROVE  Spec => []FreshInv
  OBVIOUS
<1>1. TypeOK /\ FreshInv /\ [Next]_vars => FreshInv'
  <2> SUFFICES ASSUME TypeOK, FreshInv, [Next]_vars PROVE FreshInv'
    OBVIOUS
  <2>1. CASE UNCHANGED vars
    BY <2>1 DEF FreshInv, OrderInv, HolderInv, MarkInv, AnnouncedInv, LoadedInv, FloorInv,
                HolderAt, vars, indexVars, lockVars, historyVars
  <2> QED
    BY <2>1, IndexFresh, RefreshFresh, ClearFresh, StopFresh DEF Next
<1> QED
  BY <1>1, InitFresh, TypeCorrect, PTL DEF Spec

\* ensure_fresh's promise, for any number of indexing, searching and committing
\* threads: a read sees every write that had returned when it was called, unless
\* tantivy fails a commit.
THEOREM FreshReads == ~ CommitsCanFail /\ Spec => []ReadsSeeWrites
<1> SUFFICES ASSUME ~ CommitsCanFail
             PROVE  Spec => []ReadsSeeWrites
  OBVIOUS
<1>1. FreshInv => ReadsSeeWrites
  BY DEF FreshInv, FloorInv, ReadsSeeWrites
<1> QED
  BY <1>1, FreshInvariant, PTL

-----------------------------------------------------------------------------
(* clear() is total, when commits succeed: ClearInv, one lemma for each kind *)
(* of thread.                                                               *)

\* What the writer holds once it has taken one more operation.
LEMMA AddedGrows ==
  ASSUME TypeOK, NEW t \in Indexers, NEW kind \in {"add", "delete"}, Buffered(t, kind)
  PROVE  Added' \subseteq
           IF kind = "add" THEN Added \cup {[file |-> file[t], number |-> ops + 1]} ELSE Added
<1> DEFINE new == [kind |-> kind, file |-> file[t], number |-> ops + 1]
<1>1. buffer \in Seq(Operation)
  BY DEF TypeOK, IndexTypeOK
<1>2. buffer' = Append(buffer, new)
  BY DEF Buffered
<1>3. /\ DOMAIN buffer' = DOMAIN buffer \cup {Len(buffer) + 1}
      /\ \A i \in DOMAIN buffer : buffer'[i] = buffer[i]
      /\ buffer'[Len(buffer) + 1] = new
  BY <1>1, <1>2
<1>4. ASSUME NEW i \in DOMAIN buffer', buffer'[i].kind = "add"
      PROVE  [file |-> buffer'[i].file, number |-> buffer'[i].number] \in
               IF kind = "add" THEN Added \cup {[file |-> file[t], number |-> ops + 1]} ELSE Added
  <2>1. CASE i \in DOMAIN buffer
    BY <1>3, <1>4, <2>1 DEF Added
  <2>2. CASE i = Len(buffer) + 1
    BY <1>3, <1>4, <2>2
  <2> QED
    BY <1>3, <2>1, <2>2
<1> QED
  BY <1>4 DEF Added

\* A writer that has just committed has nothing to add.
LEMMA NothingAdded == buffer' = <<>> => Added' = {}
BY DEF Added

\* A clear that does not move notices a step only by what that step does to the
\* buffer, the index and the announcements.
LEMMA OtherClears ==
  ASSUME NEW u \in Committers, ClearUnderWay(u), pc'[u] = pc[u], doomed'[u] = doomed[u],
         ops \in Nat, ops' \in Nat, ops <= ops', doomed[u] \in SUBSET Document,
         pc[u] \in Clearing => doomed[u] \cap Added' \subseteq Added,
         committed'.docs \subseteq committed.docs \cup Added,
         dirty \/ HolderAt({"commit"}) =>
           dirty' \/ HolderAt({"commit"})' \/ Added' = {},
         snapshot' \in {snapshot, committed}
  PROVE  ClearUnderWay(u)'
<1>1. \A doc \in doomed[u] : doc.number \in Nat /\ (doc.number <= ops => doc.number <= ops')
  BY DEF Document
<1>2. pc[u] = "cleared" => doomed[u] \cap snapshot'.docs = {}
  BY DEF ClearUnderWay
<1> QED
  BY <1>1, <1>2 DEF ClearUnderWay, Clearing

\* Where a committer is and what it is to delete.
LEMMA DoomedTypes ==
  ASSUME TypeOK
  PROVE  /\ \A u \in Committers : u \in Threads /\ doomed[u] \in SUBSET Document
         /\ doomed \in [Committers -> SUBSET Document]
         /\ Added \in SUBSET Document
         /\ Flushed.docs \subseteq committed.docs \cup Added
BY FlushedType DEF TypeOK, HistoryTypeOK, Threads, Flushed

LEMMA IndexClears ==
  ASSUME TypeOK, FreshInv, ClearInv, NEW t \in Indexers, Index(t)
  PROVE  ClearInv'
<1>1. t \in Threads /\ t \notin Committers
  BY ThreadsAssumption DEF Threads
<1>2. PICK label \in {"delete", "mark_deleted", "add", "mark_added", "idle"} :
        /\ Goto(t, label)
        /\ pc[t] \in {"idle", "delete", "mark_deleted", "add", "mark_added"}
  BY DEF Index, Replace, DeleteFile, Add, Mark
<1>3. UNCHANGED <<committed, snapshot, refresh, doomed>>
  BY DEF Index, Replace, DeleteFile, Add, Mark, Buffered, indexVars, lockVars, historyVars
<1>4. HolderAt({"commit"}) => HolderAt({"commit"})'
  BY <1>1, <1>2, <1>3, HolderElsewhere DEF Labels, HoldsRefresh, FreshInv
<1>5. /\ pc'[t] = label
      /\ \A u \in Threads : u # t => pc'[u] = pc[u]
  BY <1>1, <1>2, GotoEffect DEF TypeOK, Labels
<1>6. \A u \in Committers : pc'[u] = pc[u]
  BY <1>1, <1>5 DEF Threads
<1>7. \A u \in Indexers : u # t => pc'[u] = pc[u]
  BY <1>5 DEF Threads
<1>8. ops \in Nat /\ op \in [Indexers -> Nat]
  BY NumberTypes
<1>9. CASE Mark(t)
  <2>1. dirty' = TRUE /\ UNCHANGED <<ops, buffer>>
    BY <1>9 DEF Mark, indexVars
  <2>2. PendingInv'
    BY <2>1 DEF PendingInv
  <2>3. Added' = Added
    BY <2>1 DEF Added
  <2>4. ASSUME NEW u \in Committers PROVE ClearUnderWay(u)'
    BY <1>3, <1>6, <1>8, <2>1, <2>3, DoomedTypes, OtherClears DEF ClearInv
  <2> QED
    BY <2>2, <2>4 DEF ClearInv
<1>10. CASE \E f \in Files : Replace(t, f)
  <2>1. UNCHANGED <<dirty, ops, buffer, op>> /\ pc[t] = "idle"
    BY <1>10 DEF Replace, indexVars, historyVars
  <2>2. Added' = Added
    BY <2>1 DEF Added
  <2>3. PendingInv'
    BY <1>4, <1>7, <2>1, <2>2 DEF ClearInv, PendingInv
  <2>4. ASSUME NEW u \in Committers PROVE ClearUnderWay(u)'
    BY <1>3, <1>4, <1>6, <1>8, <2>1, <2>2, DoomedTypes, OtherClears DEF ClearInv
  <2> QED
    BY <2>3, <2>4 DEF ClearInv
<1>11. ASSUME NEW kind \in {"add", "delete"}, Buffered(t, kind), pc[t] # "mark_added",
              kind = "add" => pc'[t] = "mark_added"
       PROVE  ClearInv'
  <2>1. ops' = ops + 1 /\ op' = [op EXCEPT ![t] = ops + 1] /\ UNCHANGED dirty
    BY <1>11 DEF Buffered
  <2>2. \A doc \in Added' : doc \in Added \/ (kind = "add" /\ doc.number = ops + 1)
    <3>1. Added' \subseteq
            IF kind = "add" THEN Added \cup {[file |-> file[t], number |-> ops + 1]} ELSE Added
      BY <1>11, AddedGrows
    <3> QED
      BY <3>1
  <2>3. PendingInv'
    <3> SUFFICES ASSUME NEW doc \in Added'
                 PROVE  \/ dirty' \/ HolderAt({"commit"})'
                        \/ \E i \in Indexers : pc'[i] = "mark_added" /\ op'[i] = doc.number
      BY DEF PendingInv
    <3>1. CASE doc \in Added
      <4>1. \A i \in Indexers : pc[i] = "mark_added" => pc'[i] = "mark_added" /\ op'[i] = op[i]
        BY <1>7, <1>8, <1>11, <2>1
      <4> QED
        BY <1>4, <2>1, <3>1, <4>1 DEF ClearInv, PendingInv
    <3>2. CASE kind = "add" /\ doc.number = ops + 1
      BY <1>8, <1>11, <2>1, <3>2
    <3> QED
      BY <2>2, <3>1, <3>2
  <2>4. ASSUME NEW u \in Committers PROVE ClearUnderWay(u)'
    <3>1. pc[u] \in Clearing => doomed[u] \cap Added' \subseteq Added
      <4>1. pc[u] \in Clearing => \A doc \in doomed[u] : doc.number <= ops /\ doc.number \in Nat
        BY DoomedTypes DEF ClearInv, ClearUnderWay, Document
      <4> QED
        BY <1>8, <2>2, <4>1
    <3> QED
      BY <1>3, <1>4, <1>6, <1>8, <2>1, <3>1, DoomedTypes, OtherClears DEF ClearInv
  <2> QED
    BY <2>3, <2>4 DEF ClearInv
<1>12. CASE DeleteFile(t)
  BY <1>11, <1>12 DEF DeleteFile
<1>13. CASE Add(t)
  <2>1. pc'[t] = "mark_added"
    BY <1>1, <1>13, GotoEffect DEF Add, TypeOK, Labels
  <2> QED
    BY <1>11, <1>13, <2>1 DEF Add
<1> QED
  BY <1>9, <1>10, <1>12, <1>13 DEF Index

LEMMA RefreshClears ==
  ASSUME ~ CommitsCanFail, TypeOK, FreshInv, ClearInv, NEW t \in Searchers \cup Committers,
         Call(t) \/ Refresh(t)
  PROVE  ClearInv'
<1>1. t \in Threads /\ t \notin Indexers
  BY ThreadsAssumption DEF Threads
<1>2. UNCHANGED <<ops, op, doomed>>
  BY DEF Call, Refresh, Lock, SwapClean, SwapDirty, Commit, CommitFails, Reload, ReloadFails,
         Read, historyVars
<1>3. PICK label \in {"lock", "swap", "read", "commit", "reload", "idle"} : Goto(t, label)
  BY DEF Call, Refresh, Lock, SwapClean, SwapDirty, Commit, CommitFails, Reload, ReloadFails, Read
<1>4. /\ pc'[t] = label
      /\ \A u \in Threads : u # t => pc'[u] = pc[u]
  BY <1>1, <1>3, GotoEffect DEF TypeOK, Labels
<1>5. \A u \in Indexers : pc'[u] = pc[u]
  BY <1>1, <1>4 DEF Threads
<1>6. t \in Committers => ClearUnderWay(t)'
  BY <1>4 DEF ClearUnderWay, Clearing
<1>7. \A u \in Committers : u # t => pc'[u] = pc[u]
  BY <1>4 DEF Threads
<1>8. ops \in Nat
  BY NumberTypes
<1>9. ASSUME UNCHANGED <<committed, buffer>>, snapshot' \in {snapshot, committed},
             dirty \/ HolderAt({"commit"}) => dirty' \/ HolderAt({"commit"})'
      PROVE  ClearInv'
  <2>1. Added' = Added
    BY <1>9 DEF Added
  <2>2. PendingInv'
    BY <1>2, <1>5, <1>9, <2>1 DEF ClearInv, PendingInv
  <2>3. ASSUME NEW u \in Committers, u # t PROVE ClearUnderWay(u)'
    BY <1>2, <1>7, <1>8, <1>9, <2>1, <2>3, DoomedTypes, OtherClears DEF ClearInv
  <2> QED
    BY <1>6, <2>2, <2>3 DEF ClearInv
<1>10. CASE Call(t) \/ Read(t)
  <2>1. UNCHANGED <<committed, buffer, snapshot, dirty, refresh>> /\ pc[t] \in {"idle", "read"}
    BY <1>10 DEF Call, Read, indexVars, lockVars
  <2>2. label \in {"lock", "idle"}
    BY <1>1, <1>4, <1>10, GotoEffect DEF Call, Read, TypeOK, Labels
  <2>3. HolderAt({"commit"}) => HolderAt({"commit"})'
    BY <1>1, <1>3, <2>1, <2>2, HolderElsewhere DEF Labels, HoldsRefresh, FreshInv
  <2> QED
    BY <1>9, <2>1, <2>3
<1>11. CASE Lock(t)
  <2>1. UNCHANGED <<committed, buffer, snapshot, dirty>> /\ refresh = NoThread
    BY <1>11 DEF Lock, indexVars
  <2>2. ~ HolderAt({"commit"})
    BY <2>1, FreeRefresh DEF FreshInv
  <2> QED
    BY <1>9, <2>1, <2>2
<1>12. CASE SwapClean(t)
  <2>1. UNCHANGED <<committed, buffer, snapshot, dirty>> /\ pc[t] = "swap"
    BY <1>12 DEF SwapClean, indexVars
  <2>2. ~ HolderAt({"commit"})
    BY <1>1, <2>1, Holding DEF FreshInv, HoldsRefresh
  <2> QED
    BY <1>9, <2>1, <2>2
<1>13. CASE SwapDirty(t)
  <2>1. /\ UNCHANGED <<committed, buffer, snapshot, refresh>> /\ pc[t] = "swap"
        /\ Goto(t, "commit")
    BY <1>13 DEF SwapDirty, indexVars, lockVars
  <2>2. pc'[t] = "commit" /\ refresh' = t
    BY <1>1, <2>1, GotoEffect, Holding DEF FreshInv, HoldsRefresh, TypeOK, Labels
  <2>3. HolderAt({"commit"})'
    BY <1>1, <2>2, ThreadsAssumption DEF HolderAt
  <2> QED
    BY <1>9, <2>1, <2>3
<1>14. CASE Commit(t)
  <2>1. committed' = Flushed /\ buffer' = <<>> /\ UNCHANGED snapshot
    BY <1>14 DEF Commit
  <2>2. Added' = {}
    BY <2>1, NothingAdded
  <2>3. PendingInv'
    BY <2>2 DEF PendingInv
  <2>4. ASSUME NEW u \in Committers, u # t PROVE ClearUnderWay(u)'
    BY <1>2, <1>7, <1>8, <2>1, <2>2, <2>4, DoomedTypes, OtherClears DEF ClearInv
  <2> QED
    BY <1>6, <2>3, <2>4 DEF ClearInv
<1>15. CASE Reload(t)
  <2>1. UNCHANGED <<committed, buffer, dirty>> /\ snapshot' = committed /\ pc[t] = "reload"
    BY <1>15 DEF Reload
  <2>2. ~ HolderAt({"commit"})
    BY <1>1, <2>1, Holding DEF FreshInv, HoldsRefresh
  <2> QED
    BY <1>9, <2>1, <2>2
<1> QED
  BY <1>10, <1>11, <1>12, <1>13, <1>14, <1>15 DEF Refresh, CommitFails, ReloadFails

\* clear() lands in a segment what it is to delete, and holds both locks until it
\* has deleted it.
LEMMA ClearClears ==
  ASSUME ~ CommitsCanFail, TypeOK, FreshInv, ClearInv, NEW t \in Committers,
         CallClear(t) \/ Clear(t)
  PROVE  ClearInv'
<1>1. t \in Threads /\ t \notin Indexers
  BY ThreadsAssumption DEF Threads
<1>2. UNCHANGED <<ops, op, returned>>
  BY DEF CallClear, Clear, LockClear, LockWriter, Flush, DeleteAll, ReloadClear, ClearFails,
         ReturnClear, historyVars
<1>3. PICK label \in Clearing \cup {"idle"} : Goto(t, label)
  BY DEF CallClear, Clear, LockClear, LockWriter, Flush, DeleteAll, ReloadClear, ClearFails,
         ReturnClear, Clearing
<1>4. /\ pc'[t] = label
      /\ \A u \in Threads : u # t => pc'[u] = pc[u]
  BY <1>1, <1>3, GotoEffect DEF TypeOK, Labels, Clearing
<1>5. \A u \in Indexers : pc'[u] = pc[u]
  BY <1>1, <1>4 DEF Threads
<1>6. \A u \in Committers : u # t => pc'[u] = pc[u] /\ doomed'[u] = doomed[u]
  <2>1. \A u \in Committers : u # t => doomed'[u] = doomed[u]
    BY DoomedTypes DEF CallClear, Clear, LockClear, LockWriter, Flush, DeleteAll, ReloadClear,
         ClearFails, ReturnClear, historyVars
  <2> QED
    BY <1>4, <2>1 DEF Threads
<1>7. ops \in Nat /\ returned \in Nat /\ returned <= ops
  BY NumberTypes DEF FreshInv, OrderInv
<1>8. ASSUME committed'.docs \subseteq committed.docs \cup Added,
             Added' \in {Added, {}}, snapshot' \in {snapshot, committed},
             dirty \/ HolderAt({"commit"}) =>
               dirty' \/ HolderAt({"commit"})' \/ Added' = {}
      PROVE  PendingInv' /\ \A u \in Committers : u # t => ClearUnderWay(u)'
  <2>1. PendingInv'
    BY <1>2, <1>5, <1>8 DEF ClearInv, PendingInv
  <2>2. ASSUME NEW u \in Committers, u # t PROVE ClearUnderWay(u)'
    BY <1>2, <1>6, <1>7, <1>8, <2>2, DoomedTypes, OtherClears DEF ClearInv
  <2> QED
    BY <2>1, <2>2
<1>9. ClearUnderWay(t) /\ PendingInv /\ HolderInv
  BY DEF ClearInv, FreshInv
<1>10. CASE CallClear(t)
  <2>1. /\ UNCHANGED <<committed, buffer, snapshot, dirty, refresh>> /\ pc[t] = "idle"
        /\ Goto(t, "lock_clear")
        /\ doomed'[t] =
             {doc \in Returned : \A i \in Indexers : pc[i] = "mark_added" => op[i] # doc.number}
    BY <1>10, DoomedTypes DEF CallClear, indexVars, lockVars
  <2>2. Added' = Added /\ pc'[t] = "lock_clear"
    BY <1>1, <2>1, GotoEffect DEF Added, TypeOK, Labels
  <2>3. HolderAt({"commit"}) => HolderAt({"commit"})'
    BY <1>1, <1>9, <2>1, HolderElsewhere DEF Labels, HoldsRefresh
  <2>4. \A doc \in doomed'[t] : doc.number <= ops
    <3>1. \A doc \in Returned : doc.number \in Nat /\ doc.number <= returned
      BY DoomedTypes DEF Returned, TypeOK, IndexTypeOK, Document
    <3> QED
      BY <1>7, <2>1, <3>1
  <2>5. doomed'[t] \cap Added = {} \/ dirty \/ HolderAt({"commit"})
    BY <1>9, <2>1 DEF PendingInv
  <2>6. ClearUnderWay(t)'
    BY <1>2, <2>1, <2>2, <2>3, <2>4, <2>5 DEF ClearUnderWay
  <2> QED
    BY <1>8, <2>1, <2>2, <2>3, <2>6 DEF ClearInv
<1>11. CASE LockClear(t)
  <2>1. /\ UNCHANGED <<committed, buffer, snapshot, dirty, doomed>> /\ pc[t] = "lock_clear"
        /\ refresh = NoThread /\ Goto(t, "lock_writer")
    BY <1>11 DEF LockClear, indexVars, historyVars
  <2>2. Added' = Added /\ pc'[t] = "lock_writer"
    BY <1>1, <2>1, GotoEffect DEF Added, TypeOK, Labels
  <2>3. ~ HolderAt({"commit"})
    BY <1>9, <2>1, FreeRefresh
  <2>4. ClearUnderWay(t)'
    BY <1>2, <1>9, <2>1, <2>2, <2>3 DEF ClearUnderWay, Clearing
  <2> QED
    BY <1>8, <2>1, <2>2, <2>3, <2>4 DEF ClearInv
<1>12. CASE LockWriter(t)
  <2>1. /\ UNCHANGED <<committed, buffer, snapshot, dirty, doomed, refresh>>
        /\ pc[t] = "lock_writer" /\ Goto(t, "flush")
    BY <1>12 DEF LockWriter, indexVars, historyVars
  <2>2. Added' = Added /\ pc'[t] = "flush"
    BY <1>1, <2>1, GotoEffect DEF Added, TypeOK, Labels
  <2>3. ~ HolderAt({"commit"})
    BY <1>1, <1>9, <2>1, Holding DEF HoldsRefresh
  <2>4. ClearUnderWay(t)'
    BY <1>2, <1>9, <2>1, <2>2, <2>3 DEF ClearUnderWay, Clearing
  <2> QED
    BY <1>8, <2>1, <2>2, <2>3, <2>4 DEF ClearInv
<1>13. CASE Flush(t)
  <2>1. /\ UNCHANGED <<snapshot, doomed>> /\ pc[t] = "flush" /\ Goto(t, "delete_all")
        /\ IF dirty THEN committed' = Flushed /\ buffer' = <<>> ELSE UNCHANGED <<committed, buffer>>
    BY <1>13 DEF Flush, historyVars
  <2>2. pc'[t] = "delete_all"
    BY <1>1, <2>1, GotoEffect DEF TypeOK, Labels
  <2>3. ~ HolderAt({"commit"})
    BY <1>1, <1>9, <2>1, Holding DEF HoldsRefresh
  <2>4. IF dirty THEN Added' = {} ELSE Added' = Added
    BY <2>1, NothingAdded DEF Added
  <2>5. committed'.docs \subseteq committed.docs \cup Added
    BY <2>1, DoomedTypes
  <2>6. ClearUnderWay(t)'
    BY <1>2, <1>9, <2>1, <2>2, <2>3, <2>4 DEF ClearUnderWay, Clearing
  <2> QED
    BY <1>8, <2>1, <2>3, <2>4, <2>5, <2>6 DEF ClearInv
<1>14. CASE DeleteAll(t)
  <2>1. /\ UNCHANGED <<snapshot, doomed>> /\ pc[t] = "delete_all" /\ Goto(t, "reload_clear")
        /\ committed'.docs \subseteq Added /\ buffer' = <<>>
    BY <1>14 DEF DeleteAll, historyVars
  <2>2. Added' = {} /\ pc'[t] = "reload_clear"
    BY <1>1, <2>1, GotoEffect, NothingAdded DEF TypeOK, Labels
  <2>3. ClearUnderWay(t)'
    BY <1>2, <1>9, <2>1, <2>2 DEF ClearUnderWay, Clearing
  <2> QED
    BY <1>8, <2>1, <2>2, <2>3 DEF ClearInv
<1>15. CASE ReloadClear(t)
  <2>1. /\ UNCHANGED <<committed, buffer, dirty, doomed>> /\ snapshot' = committed
        /\ pc[t] = "reload_clear" /\ Goto(t, "cleared")
    BY <1>15 DEF ReloadClear, historyVars
  <2>2. Added' = Added /\ pc'[t] = "cleared"
    BY <1>1, <2>1, GotoEffect DEF Added, TypeOK, Labels
  <2>3. ~ HolderAt({"commit"})
    BY <1>1, <1>9, <2>1, Holding DEF HoldsRefresh
  <2>4. ClearUnderWay(t)'
    BY <1>2, <1>9, <2>1, <2>2 DEF ClearUnderWay, Clearing
  <2> QED
    BY <1>8, <2>1, <2>2, <2>3, <2>4 DEF ClearInv
<1>16. CASE ReturnClear(t)
  <2>1. /\ UNCHANGED <<committed, buffer, snapshot, dirty, refresh>> /\ pc[t] = "cleared"
        /\ Goto(t, "idle")
    BY <1>16 DEF ReturnClear, indexVars, lockVars
  <2>2. Added' = Added /\ pc'[t] = "idle"
    BY <1>1, <2>1, GotoEffect DEF Added, TypeOK, Labels
  <2>3. HolderAt({"commit"}) => HolderAt({"commit"})'
    BY <1>1, <1>9, <2>1, HolderElsewhere DEF Labels, HoldsRefresh
  <2>4. ClearUnderWay(t)'
    BY <2>2 DEF ClearUnderWay, Clearing
  <2> QED
    BY <1>8, <2>1, <2>2, <2>3, <2>4 DEF ClearInv
<1> QED
  BY <1>10, <1>11, <1>12, <1>13, <1>14, <1>15, <1>16 DEF Clear, ClearFails

\* A restart has nothing buffered, and nobody clears.
LEMMA StopClears ==
  ASSUME Stop
  PROVE  ClearInv'
<1>1. Added' = {}
  BY NothingAdded DEF Stop
<1>2. \A t \in Committers : pc'[t] = "idle"
  BY DEF Stop, Threads
<1> QED
  BY <1>1, <1>2 DEF ClearInv, PendingInv, ClearUnderWay, Clearing

\* ClearInv holds in every reachable state of an index whose commits succeed.
LEMMA ClearInvariant == ~ CommitsCanFail /\ Spec => []ClearInv
<1> SUFFICES ASSUME ~ CommitsCanFail
             PROVE  Spec => []ClearInv
  OBVIOUS
<1>1. Init => ClearInv
  BY DEF Init, Threads, Added, ClearInv, PendingInv, ClearUnderWay, Clearing
<1>2. TypeOK /\ FreshInv /\ ClearInv /\ [Next]_vars => ClearInv'
  <2> SUFFICES ASSUME TypeOK, FreshInv, ClearInv, [Next]_vars PROVE ClearInv'
    OBVIOUS
  <2>1. CASE UNCHANGED vars
    BY <2>1 DEF vars, indexVars, lockVars, historyVars, ClearInv, PendingInv, ClearUnderWay,
                Added, HolderAt
  <2> QED
    BY <2>1, IndexClears, RefreshClears, ClearClears, StopClears DEF Next
<1> QED
  BY <1>1, <1>2, TypeCorrect, FreshInvariant, PTL DEF Spec

\* clear() is total: when it has returned, no document whose add had returned before
\* it was called is in the index, in the reader or in the writer's buffer, whatever
\* indexing, commits and other clears run beside it.
THEOREM ClearsAreTotal == ~ CommitsCanFail /\ Spec => []ClearIsTotal
<1>1. ClearInv => ClearIsTotal
  BY DEF ClearInv, ClearUnderWay, Clearing, ClearIsTotal
<1> QED
  BY <1>1, ClearInvariant, PTL

-----------------------------------------------------------------------------
(* One version of each file, with one indexing thread, whatever fails:       *)
(* VersionInv.                                                               *)

\* A step that buffers nothing takes the next commit's documents to be those it was
\* going to leave, or fewer.
LEMMA FewerFlushed ==
  ASSUME TypeOK, VersionInv,
         UNCHANGED <<ops, file>>,
         \A t \in Indexers : pc'[t] \in {"mark_deleted", "add"} => pc[t] \in {"mark_deleted", "add"},
         \/ UNCHANGED <<committed, buffer>>
         \/ /\ committed'.docs \subseteq Flushed.docs /\ committed'.upTo = ops /\ buffer' = <<>>,
         snapshot' \in {snapshot, committed}
  PROVE  VersionInv'
<1>1. Flushed'.docs \subseteq Flushed.docs
  <2>1. CASE UNCHANGED <<committed, buffer>>
    BY <2>1 DEF Flushed, Added, DeletedLater
  <2>2. CASE committed'.docs \subseteq Flushed.docs /\ buffer' = <<>>
    <3>1. Added' = {}
      BY <2>2, NothingAdded
    <3> QED
      BY <2>2, <3>1 DEF Flushed
  <2> QED
    BY <2>1, <2>2
<1>2. ops \in Nat /\ committed.upTo \in Nat /\ \A doc \in committed.docs : doc.number \in Nat
  BY DEF TypeOK, IndexTypeOK, HistoryTypeOK, Document
<1>3. \A doc \in Flushed.docs : doc.number \in Nat /\ doc.number <= ops
  <2>1. \A doc \in Added : \E i \in DOMAIN buffer : doc.number = buffer[i].number
    BY DEF Added
  <2>2. \A doc \in Added : doc.number \in Nat /\ doc.number <= ops
    BY <2>1, FlushedType DEF VersionInv, Document
  <2>3. \A doc \in committed.docs : doc.number <= ops
    BY <1>2 DEF VersionInv
  <2> QED
    BY <1>2, <2>2, <2>3 DEF Flushed
<1>4. /\ committed'.upTo <= ops'
      /\ \A doc \in committed'.docs : doc.number <= committed'.upTo
      /\ \A i \in DOMAIN buffer' : buffer'[i].number <= ops'
  BY <1>2, <1>3 DEF VersionInv
<1>5. OnePerFile(committed'.docs) /\ OnePerFile(snapshot'.docs) /\ OnePerFile(Flushed'.docs)
  BY <1>1 DEF VersionInv, OneVersionPerFile, OnePerFile
<1>6. \A t \in Indexers :
        pc'[t] \in {"mark_deleted", "add"} => \A doc \in Flushed'.docs : doc.file # file'[t]
  BY <1>1 DEF VersionInv
<1> QED
  BY <1>4, <1>5, <1>6 DEF VersionInv, OneVersionPerFile, OnePerFile

\* The numbers the writer has given out are at most `ops', so that a delete takes
\* every document of its file, and nothing takes a new document.
LEMMA BufferedFlushed ==
  ASSUME TypeOK, VersionInv, NEW t \in Indexers, NEW kind \in {"add", "delete"},
         Buffered(t, kind)
  PROVE  /\ kind = "delete" =>
              Flushed'.docs \subseteq {doc \in Flushed.docs : doc.file # file[t]}
         /\ kind = "add" =>
              Flushed'.docs \subseteq
                Flushed.docs \cup {[file |-> file[t], number |-> ops + 1]}
         /\ \A i \in DOMAIN buffer' : buffer'[i].number <= ops'
<1> DEFINE new == [kind |-> kind, file |-> file[t], number |-> ops + 1]
<1>1. /\ buffer \in Seq(Operation) /\ ops \in Nat /\ committed.upTo \in Nat
      /\ \A doc \in committed.docs : doc.number \in Nat
  BY DEF TypeOK, IndexTypeOK, HistoryTypeOK, Document
<1>2. buffer' = Append(buffer, new) /\ ops' = ops + 1 /\ committed' = committed
  BY DEF Buffered
<1>3. /\ DOMAIN buffer' = DOMAIN buffer \cup {Len(buffer) + 1}
      /\ \A i \in DOMAIN buffer : buffer'[i] = buffer[i]
      /\ buffer'[Len(buffer) + 1] = new
  BY <1>1, <1>2
<1>4. \A i \in DOMAIN buffer : buffer[i].number \in Nat /\ buffer[i].number <= ops
  <2>1. \A i \in DOMAIN buffer : buffer[i] \in Operation
    BY <1>1
  <2> QED
    BY <2>1 DEF VersionInv, Operation
<1>5. \A doc \in Added : doc.number \in Nat /\ doc.number <= ops
  BY <1>4 DEF Added
<1>6. \A doc \in committed.docs : doc.number <= ops
  BY <1>1 DEF VersionInv
<1>7. Added' \subseteq
        IF kind = "add" THEN Added \cup {[file |-> file[t], number |-> ops + 1]} ELSE Added
  BY AddedGrows
<1>8. \A doc : DeletedLater(doc) => DeletedLater(doc)'
  BY <1>3 DEF DeletedLater
<1>9. ASSUME kind = "delete"
      PROVE  Flushed'.docs \subseteq {doc \in Flushed.docs : doc.file # file[t]}
  <2> SUFFICES ASSUME NEW doc \in committed.docs \cup Added, ~ DeletedLater(doc)'
               PROVE  doc \in Flushed.docs /\ doc.file # file[t]
    BY <1>2, <1>7, <1>9 DEF Flushed
  <2>1. doc \in Flushed.docs
    BY <1>8 DEF Flushed
  <2>2. ASSUME doc.file = file[t] PROVE DeletedLater(doc)'
    <3>1. doc.number \in Nat /\ doc.number <= ops
      BY <1>1, <1>5, <1>6
    <3>2. /\ Len(buffer) + 1 \in DOMAIN buffer' /\ buffer'[Len(buffer) + 1].kind = "delete"
          /\ buffer'[Len(buffer) + 1].file = doc.file
          /\ buffer'[Len(buffer) + 1].number > doc.number
      BY <1>1, <1>3, <1>9, <2>2, <3>1
    <3> QED
      BY <3>2 DEF DeletedLater
  <2> QED
    BY <2>1, <2>2
<1>10. ASSUME kind = "add"
       PROVE  Flushed'.docs \subseteq
                Flushed.docs \cup {[file |-> file[t], number |-> ops + 1]}
  BY <1>2, <1>7, <1>8, <1>10 DEF Flushed
<1>11. \A i \in DOMAIN buffer' : buffer'[i].number <= ops'
  BY <1>1, <1>2, <1>3, <1>4
<1> QED
  BY <1>9, <1>10, <1>11

\* delete_file, then add: what the thread replaces is gone before the new version
\* is there.
LEMMA IndexVersions ==
  ASSUME TypeOK, VersionInv, \A s, u \in Indexers : s = u, NEW t \in Indexers, Index(t)
  PROVE  VersionInv'
<1>1. t \in Threads
  BY DEF Threads
<1>2. ops \in Nat /\ committed.upTo \in Nat /\ UNCHANGED <<committed, snapshot>>
  BY NumberTypes DEF Index, Replace, DeleteFile, Add, Mark, Buffered, indexVars
<1>3. ASSUME NEW kind \in {"add", "delete"}, Buffered(t, kind),
             OnePerFile(Flushed'.docs),
             pc'[t] \in {"mark_deleted", "add"} => \A doc \in Flushed'.docs : doc.file # file'[t]
      PROVE  VersionInv'
  <2>1. \A i \in DOMAIN buffer' : buffer'[i].number <= ops'
    BY <1>3, BufferedFlushed
  <2>2. committed'.upTo <= ops' /\ \A doc \in committed'.docs : doc.number <= committed'.upTo
    BY <1>2, <1>3 DEF Buffered, VersionInv
  <2>3. OnePerFile(committed'.docs) /\ OneVersionPerFile'
    BY <1>2 DEF VersionInv, OneVersionPerFile, OnePerFile
  <2> QED
    BY <1>3, <2>1, <2>2, <2>3 DEF VersionInv, OnePerFile
<1>4. CASE \E f \in Files : Replace(t, f)
  <2>1. UNCHANGED <<ops, buffer, committed, snapshot>>
    BY <1>4 DEF Replace, indexVars
  <2>2. pc'[t] = "delete"
    BY <1>1, <1>4, GotoEffect DEF Replace, TypeOK, Labels
  <2>3. Flushed' = Flushed
    BY <2>1 DEF Flushed, Added, DeletedLater
  <2> QED
    BY <2>1, <2>2, <2>3 DEF VersionInv, OneVersionPerFile, OnePerFile
<1>5. CASE DeleteFile(t)
  <2>1. Buffered(t, "delete") /\ UNCHANGED file
    BY <1>5 DEF DeleteFile, Buffered
  <2>2. Flushed'.docs \subseteq {doc \in Flushed.docs : doc.file # file[t]}
    BY <2>1, BufferedFlushed
  <2>3. OnePerFile(Flushed'.docs)
    BY <2>2 DEF VersionInv, OnePerFile
  <2> QED
    BY <1>3, <2>1, <2>2, <2>3
<1>6. CASE Add(t)
  <2>1. Buffered(t, "add") /\ UNCHANGED file /\ pc[t] = "add"
    BY <1>6 DEF Add, Buffered
  <2>2. pc'[t] = "mark_added"
    BY <1>1, <1>6, GotoEffect DEF Add, TypeOK, Labels
  <2>3. Flushed'.docs \subseteq Flushed.docs \cup {[file |-> file[t], number |-> ops + 1]}
    BY <2>1, BufferedFlushed
  <2>4. \A doc \in Flushed.docs : doc.file # file[t]
    BY <2>1 DEF VersionInv
  <2>5. OnePerFile(Flushed'.docs)
    BY <2>3, <2>4 DEF VersionInv, OnePerFile
  <2> QED
    BY <1>3, <2>1, <2>2, <2>5
<1>7. CASE Mark(t)
  <2>1. UNCHANGED <<ops, buffer, committed, snapshot, file>>
    BY <1>7 DEF Mark, indexVars
  <2>2. pc'[t] \in {"mark_deleted", "add"} => pc[t] \in {"mark_deleted", "add"}
    BY <1>1, <1>7, GotoEffect DEF Mark, TypeOK, Labels
  <2> QED
    BY <2>1, <2>2, FewerFlushed
<1> QED
  BY <1>4, <1>5, <1>6, <1>7 DEF Index

LEMMA RefreshVersions ==
  ASSUME TypeOK, VersionInv, NEW t \in Searchers \cup Committers,
         Call(t) \/ Refresh(t) \/ (t \in Committers /\ (CallClear(t) \/ Clear(t)))
  PROVE  VersionInv'
<1>1. t \in Threads /\ t \notin Indexers
  BY ThreadsAssumption DEF Threads
<1>2. UNCHANGED <<ops, file>>
  BY DEF Call, Refresh, Lock, SwapClean, SwapDirty, Commit, CommitFails, Reload, ReloadFails, Read,
         CallClear, Clear, LockClear, LockWriter, Flush, DeleteAll, ReloadClear, ClearFails,
         ReturnClear
<1>3. PICK label \in Labels : Goto(t, label)
  BY DEF Call, Refresh, Lock, SwapClean, SwapDirty, Commit, CommitFails, Reload, ReloadFails, Read,
         CallClear, Clear, LockClear, LockWriter, Flush, DeleteAll, ReloadClear, ClearFails,
         ReturnClear, Labels
<1>4. \A u \in Indexers : pc'[u] = pc[u]
  BY <1>1, <1>3, GotoEffect DEF TypeOK, Threads
<1>5. \/ UNCHANGED <<committed, buffer>>
      \/ committed'.docs \subseteq Flushed.docs /\ committed'.upTo = ops /\ buffer' = <<>>
  <2>1. Flushed.upTo = ops /\ {doc \in Added : ~ DeletedLater(doc)} \subseteq Flushed.docs
    BY DEF Flushed
  <2>2. CASE Commit(t)
    BY <2>1, <2>2 DEF Commit
  <2>3. CASE Flush(t)
    BY <2>1, <2>3 DEF Flush
  <2>4. CASE DeleteAll(t)
    BY <2>1, <2>4 DEF DeleteAll
  <2>5. CASE ~ (Commit(t) \/ Flush(t) \/ DeleteAll(t))
    BY <2>5 DEF Call, Refresh, Lock, SwapClean, SwapDirty, CommitFails, Reload, ReloadFails, Read,
         CallClear, Clear, LockClear, LockWriter, ReloadClear, ClearFails, ReturnClear, indexVars
  <2> QED
    BY <2>2, <2>3, <2>4, <2>5
<1>6. snapshot' \in {snapshot, committed}
  BY DEF Call, Refresh, Lock, SwapClean, SwapDirty, Commit, CommitFails, Reload, ReloadFails, Read,
         CallClear, Clear, LockClear, LockWriter, Flush, DeleteAll, ReloadClear, ClearFails,
         ReturnClear, indexVars
<1> QED
  BY <1>2, <1>4, <1>5, <1>6, FewerFlushed

\* What was committed is there again, and numbers go on where it ended.
LEMMA StopVersions ==
  ASSUME TypeOK, VersionInv, Stop
  PROVE  VersionInv'
<1>1. /\ buffer' = <<>> /\ snapshot' = committed /\ committed' = committed
      /\ ops' = committed.upTo /\ \A t \in Threads : pc'[t] = "idle"
  BY DEF Stop
<1>2. Flushed'.docs \subseteq committed.docs
  BY <1>1, NothingAdded DEF Flushed
<1>3. committed.upTo \in Nat
  BY NumberTypes
<1> QED
  BY <1>1, <1>2, <1>3 DEF VersionInv, OneVersionPerFile, OnePerFile, Threads

\* delete_file and add, one file at a time by one thread, leave no two versions of a
\* file for a search to find, even where commits, reloads and clears fail and the
\* process ends between any two steps.
THEOREM OneIndexerOneVersion ==
  (\A s, t \in Indexers : s = t) /\ Spec => []OneVersionPerFile
<1> SUFFICES ASSUME \A s, t \in Indexers : s = t
             PROVE  Spec => []OneVersionPerFile
  OBVIOUS
<1>1. Init => VersionInv
  <2> SUFFICES ASSUME Init PROVE VersionInv
    OBVIOUS
  <2>1. Added = {} /\ Flushed.docs = {}
    BY DEF Init, Empty, Added, Flushed
  <2> QED
    BY <2>1 DEF Init, Empty, VersionInv, OneVersionPerFile, OnePerFile
<1>2. TypeOK /\ VersionInv /\ [Next]_vars => VersionInv'
  <2> SUFFICES ASSUME TypeOK, VersionInv, [Next]_vars PROVE VersionInv'
    OBVIOUS
  <2>1. CASE UNCHANGED vars
    <3>1. UNCHANGED <<committed, buffer, snapshot, ops, file, pc>>
      BY <2>1 DEF vars, indexVars
    <3> QED
      BY <3>1, FewerFlushed
  <2> QED
    BY <2>1, IndexVersions, RefreshVersions, StopVersions DEF Next
<1>3. VersionInv => OneVersionPerFile
  BY DEF VersionInv
<1> QED
  BY <1>1, <1>2, <1>3, TypeCorrect, PTL DEF Spec

-----------------------------------------------------------------------------
(* The protocol implements FreshIndex: each step is a step of the promise   *)
(* or leaves what the promise speaks of alone.                              *)

\* The threads FreshIndex calls readers, and what they may count on.
Reading == {t \in Searchers : pc[t] # "idle"}
Floors == [t \in Searchers |-> floor[t]]

\* A step that keeps these keeps all the promise speaks of.
LEMMA PromiseStutter ==
  ASSUME UNCHANGED <<ops, returned, snapshot, floor>>,
         \A t \in Searchers : pc'[t] = "idle" <=> pc[t] = "idle"
  PROVE  UNCHANGED Promise!vars
BY DEF Promise!vars

LEMMA IndexKeepsPromise ==
  ASSUME TypeOK, FreshInv, NEW t \in Indexers, Index(t)
  PROVE  [Promise!Next]_Promise!vars
<1>1. t \in Threads /\ t \notin Searchers
  BY ThreadsAssumption DEF Threads
<1>2. PICK label \in Labels : Goto(t, label)
  BY DEF Index, Replace, DeleteFile, Add, Mark, Labels
<1>3. \A u \in Searchers : pc'[u] = pc[u]
  BY <1>1, <1>2, GotoEffect DEF TypeOK, Threads
<1>4. CASE \E f \in Files : Replace(t, f)
  <2>1. UNCHANGED <<ops, returned, snapshot, floor>>
    BY <1>4 DEF Replace, indexVars, historyVars
  <2> QED
    BY <1>3, <2>1, PromiseStutter
<1>5. CASE DeleteFile(t) \/ Add(t)
  <2>1. ops' = ops + 1 /\ UNCHANGED <<returned, snapshot, floor>>
    BY <1>5 DEF DeleteFile, Add, Buffered
  <2>2. Promise!Write
    BY <1>3, <2>1 DEF Promise!Write
  <2> QED
    BY <2>2 DEF Promise!Next
<1>6. CASE Mark(t)
  <2>1. /\ UNCHANGED <<ops, snapshot, floor>>
        /\ returned' = IF op[t] > returned THEN op[t] ELSE returned
        /\ pc[t] \in {"mark_deleted", "mark_added"}
    BY <1>6 DEF Mark, indexVars
  <2>2. /\ op[t] \in Nat /\ returned \in Nat /\ ops \in Nat
        /\ op[t] <= ops /\ returned <= ops
    BY <2>1, NumberTypes DEF FreshInv, MarkInv, OrderInv
  <2>3. returned' \in returned .. ops
    BY <2>1, <2>2
  <2>4. Promise!Return
    BY <1>3, <2>1, <2>3 DEF Promise!Return
  <2> QED
    BY <2>4 DEF Promise!Next
<1> QED
  BY <1>4, <1>5, <1>6 DEF Index

LEMMA RefreshKeepsPromise ==
  ASSUME TypeOK, FreshInv, NEW t \in Searchers \cup Committers, Call(t) \/ Refresh(t)
  PROVE  [Promise!Next]_Promise!vars
<1>1. t \in Threads
  BY DEF Threads
<1>2. UNCHANGED <<ops, returned>>
  BY DEF Call, Refresh, Lock, SwapClean, SwapDirty, Commit, CommitFails, Reload, ReloadFails, Read, historyVars
<1>3. PICK label \in Labels : Goto(t, label)
  BY DEF Call, Refresh, Lock, SwapClean, SwapDirty, Commit, CommitFails, Reload, ReloadFails, Read, Labels
<1>4. /\ pc'[t] = label
      /\ \A u \in Searchers : u # t => pc'[u] = pc[u]
  BY <1>1, <1>3, GotoEffect DEF TypeOK, Threads
<1>5. floor \in [Searchers \cup Committers -> Nat]
  BY DEF TypeOK, HistoryTypeOK
<1>6. CASE Call(t)
  <2>1. /\ UNCHANGED snapshot
        /\ floor' = [floor EXCEPT ![t] = returned]
        /\ pc[t] = "idle" /\ Goto(t, "lock")
    BY <1>6 DEF Call, indexVars
  <2>2. pc'[t] = "lock"
    BY <1>1, <2>1, GotoEffect DEF TypeOK, Labels
  <2>3. CASE t \in Searchers
    <3>1. t \notin Reading /\ Reading' = Reading \cup {t}
      BY <1>4, <2>1, <2>2, <2>3 DEF Reading
    <3>2. Floors' = [Floors EXCEPT ![t] = returned]
      BY <1>5, <2>1, <2>3 DEF Floors
    <3>3. Promise!Read(t)
      BY <1>2, <2>1, <3>1, <3>2 DEF Promise!Read, Reading, Floors
    <3> QED
      BY <2>3, <3>3 DEF Promise!Next
  <2>4. CASE t \notin Searchers
    <3>1. Reading' = Reading
      BY <1>4, <2>4 DEF Reading
    <3>2. Floors' = Floors
      BY <1>5, <2>1, <2>4 DEF Floors
    <3> QED
      BY <1>2, <2>1, <3>1, <3>2 DEF Promise!vars, Reading, Floors
  <2> QED
    BY <2>3, <2>4
<1>7. CASE Read(t)
  <2>1. /\ UNCHANGED <<snapshot, floor>>
        /\ pc[t] = "read" /\ Goto(t, "idle")
    BY <1>7 DEF Read, indexVars, historyVars
  <2>2. pc'[t] = "idle"
    BY <1>1, <2>1, GotoEffect DEF TypeOK, Labels
  <2>3. CASE t \in Searchers
    <3>1. t \in Reading /\ Reading' = Reading \ {t}
      BY <1>4, <2>1, <2>2, <2>3 DEF Reading
    <3>2. floor[t] <= snapshot.upTo
      BY <2>1, <2>3 DEF FreshInv, FloorInv
    <3>3. Floors[t] <= snapshot.upTo
      BY <2>3, <3>2 DEF Floors
    <3>4. Floors' = Floors
      BY <2>1 DEF Floors
    <3>5. Promise!Answer(t)
      BY <1>2, <2>1, <3>1, <3>3, <3>4 DEF Promise!Answer, Reading, Floors
    <3> QED
      BY <2>3, <3>5 DEF Promise!Next
  <2>4. CASE t \notin Searchers
    <3>1. \A u \in Searchers : pc'[u] = pc[u]
      BY <1>4, <2>4
    <3> QED
      BY <1>2, <2>1, <3>1, PromiseStutter
  <2> QED
    BY <2>3, <2>4
<1>8. CASE Lock(t) \/ SwapClean(t) \/ SwapDirty(t) \/ Commit(t) \/ CommitFails(t) \/ Reload(t)
           \/ ReloadFails(t)
  <2>1. /\ floor' = floor
        /\ pc[t] \in {"lock", "swap", "commit", "reload"}
        /\ Goto(t, "swap") \/ Goto(t, "commit") \/ Goto(t, "reload") \/ Goto(t, "read")
    BY <1>8 DEF Lock, SwapClean, SwapDirty, Commit, CommitFails, Reload, ReloadFails, historyVars
  <2>2. pc'[t] \in {"swap", "commit", "reload", "read"}
    BY <1>1, <2>1, GotoEffect DEF TypeOK, Labels
  <2>3. \A u \in Searchers : pc'[u] = "idle" <=> pc[u] = "idle"
    BY <1>4, <2>1, <2>2
  <2>4. CASE Reload(t)
    <3>1. snapshot'.upTo \in snapshot.upTo .. ops
      BY <2>4, NumberTypes DEF Reload, FreshInv, OrderInv
    <3>2. Promise!Publish
      BY <1>2, <2>1, <2>3, <3>1 DEF Promise!Publish
    <3> QED
      BY <3>2 DEF Promise!Next
  <2>5. CASE ~ Reload(t)
    <3>1. snapshot' = snapshot
      BY <1>8, <2>5 DEF Lock, SwapClean, SwapDirty, Commit, CommitFails, ReloadFails, indexVars
    <3> QED
      BY <1>2, <2>1, <2>3, <3>1, PromiseStutter
  <2> QED
    BY <2>4, <2>5
<1> QED
  BY <1>6, <1>7, <1>8 DEF Refresh

LEMMA ClearKeepsPromise ==
  ASSUME TypeOK, FreshInv, NEW t \in Committers, CallClear(t) \/ Clear(t)
  PROVE  [Promise!Next]_Promise!vars
<1>1. t \in Threads /\ t \notin Searchers
  BY ThreadsAssumption DEF Threads
<1>2. UNCHANGED <<ops, returned, floor>>
  BY DEF CallClear, Clear, LockClear, LockWriter, Flush, DeleteAll, ReloadClear, ClearFails, ReturnClear,
         historyVars
<1>3. PICK label \in Labels : Goto(t, label)
  BY DEF CallClear, Clear, LockClear, LockWriter, Flush, DeleteAll, ReloadClear, ClearFails, ReturnClear,
         Labels
<1>4. \A u \in Searchers : pc'[u] = pc[u]
  BY <1>1, <1>3, GotoEffect DEF TypeOK, Threads
<1>5. CASE ReloadClear(t)
  <2>1. snapshot'.upTo \in snapshot.upTo .. ops
    BY <1>5, NumberTypes DEF ReloadClear, FreshInv, OrderInv
  <2>2. Promise!Publish
    BY <1>2, <1>4, <2>1 DEF Promise!Publish
  <2> QED
    BY <2>2 DEF Promise!Next
<1>6. CASE ~ ReloadClear(t)
  <2>1. snapshot' = snapshot
    BY <1>6 DEF CallClear, Clear, LockClear, LockWriter, Flush, DeleteAll, ClearFails, ReturnClear, indexVars
  <2> QED
    BY <1>2, <1>4, <2>1, PromiseStutter
<1> QED
  BY <1>5, <1>6

LEMMA StopKeepsPromise ==
  ASSUME TypeOK, FreshInv, Stop
  PROVE  Promise!Next
<1>1. \A t \in Searchers : pc'[t] = "idle"
  BY DEF Stop, Threads
<1>2. committed.upTo \in snapshot.upTo .. ops
  BY NumberTypes DEF FreshInv, OrderInv
<1>3. Promise!Restart
  BY <1>1, <1>2 DEF Stop, Promise!Restart
<1> QED
  BY <1>3 DEF Promise!Next

\* The commit protocol implements the promise of FreshIndex, when commits succeed.
THEOREM Implements == ~ CommitsCanFail /\ Spec => Fresh
<1> SUFFICES ASSUME ~ CommitsCanFail
             PROVE  Spec => Promise!Spec
  BY DEF Fresh
<1>1. Init => Promise!Init
  BY DEF Init, Empty, Promise!Init, Threads
<1>2. TypeOK /\ FreshInv /\ [Next]_vars => [Promise!Next]_Promise!vars
  <2> SUFFICES ASSUME TypeOK, FreshInv, [Next]_vars
               PROVE  [Promise!Next]_Promise!vars
    OBVIOUS
  <2>1. CASE UNCHANGED vars
    BY <2>1, PromiseStutter DEF vars, indexVars, historyVars
  <2> QED
    BY <2>1, IndexKeepsPromise, RefreshKeepsPromise, ClearKeepsPromise, StopKeepsPromise DEF Next
<1> QED
  BY <1>1, <1>2, TypeCorrect, FreshInvariant, PTL DEF Spec, Promise!Spec
=============================================================================
