--------------------------- MODULE Worktrees_proofs ---------------------------
(***************************************************************************)
(* Theorems about the worktrees of a primary repository, for any number of *)
(* worktrees, files and tool calls: what was removed leaves nothing in the *)
(* indexes, what is Ready is complete and watched, for any number of       *)
(* reindex_all; and calls share the indexing if there is one reindex_all.  *)
(*                                                                         *)
(* A worktree that was ever removed (`replaced') is left out of most of    *)
(* the invariant: of one that was not, the walk is one call's, under the   *)
(* worktree's lock, from its registration to Ready.                        *)
(***************************************************************************)
EXTENDS Worktrees, FiniteSetTheorems, SequenceTheorems, TLAPS

\* The calls that have passed Check hold the worktree's lock.
Indexing == {"wait", "walk", "verify", "failed", "watch"}
NotYetReady == {"wait", "walk", "verify", "failed"}

\* The watcher writes as the primary's only what lies inside it.
WriterInv == writing = NoRoot \/ writingAs = "worktree" \/ writing \in Nested

\* Where a call is, what it refreshes and what it drops.
CallInv ==
  \A c \in Callers :
    /\ callAt[c] \in {"idle", "done"} \/ callRoot[c] \in Roots
    /\ refreshAt[c] = "no" \/ callAt[c] = "refresh"
    /\ dropping[c] = NoRoot \/ callAt[c] \in {"leave", "failed"} \/ refreshAt[c] = "apply"

LockInv == \A c \in Callers : callAt[c] \in Indexing => indexJobs[callRoot[c]] = c

\* Between its calls' clearing and their end only.
RestInv ==
  \A r \in Reindexers :
    reindexAt[r] = "walk" \/ (reindexRoots[r] = {} /\ reindexRoot[r] = NoRoot)

\* Nothing is heard of a worktree that is not there, unless it was removed.
Known == present \cup replaced

RegistryInv ==
  /\ \A w \in Roots : Registered(w) => w \in Known
  /\ \A w \in Roots : Registered(w) \/ repoState[w] = "Registered"
  /\ \A a \in Droppers : found[a] \subseteq Known
  /\ \A a \in Droppers : dropping[a] = NoRoot \/ dropping[a] \in replaced

EnteredInv ==
  \A c \in Callers :
    callAt[c] \in Indexing \cup {"lock"} => Registered(callRoot[c]) \/ callRoot[c] \in replaced

CommandInv ==
  /\ \A i \in DOMAIN commands :
       /\ commands[i].root \in Known
       /\ commands[i].kind = "Unwatch" => commands[i].root \in replaced
  /\ watchedPaths \ replaced \subseteq osWatched

Rewalking(w) == \E r \in Reindexers : w \in reindexRoots[r] \/ reindexRoot[r] = w

\* A walk that no reindex_all disturbed has written what it has walked, and every
\* reindex_all that begins meanwhile waits for its lock.
Undisturbed(c) ==
  callAt[c] \in {"walk", "verify"} /\ callRoot[c] \notin disturbed \cup replaced
Walked(c) ==
  /\ repoState[callRoot[c]] = "Indexing"
  /\ \A r \in Reindexers :
       \/ reindexAt[r] \in {"idle", "done"}
       \/ reindexAt[r] = "lock" /\ \E job \in reindexJobs[r] : job[2] = callRoot[c]
  /\ WorktreeFiles \subseteq
       documents[callRoot[c]] \cup (IF callAt[c] = "walk" THEN unwalked[c] ELSE {})
WalkInv == \A c \in Callers : Undisturbed(c) => Walked(c)

\* ReadyIsComplete, with the walk that will make good what reindex_all cleared.
ReadyInv ==
  \A w \in Roots \ (disturbed \cup replaced) :
    IsReady(w) => documents[w] = WorktreeFiles \/ Rewalking(w)

\* Ready, or about to be again, it is watched or the watcher is or will be asked to.
ToBeWatched(w) ==
  \/ \E c \in Callers : callRoot[c] = w /\ callAt[c] = "watch"
  \/ \E i \in DOMAIN commands : commands[i].root = w
  \/ w \in osWatched
WatchInv ==
  \A w \in Roots \ (disturbed \cup replaced) : IsReady(w) \/ Rewalking(w) => ToBeWatched(w)

\* With one reindex_all: what it walks again is Ready, what a call is indexing is not.
ShareInv ==
  /\ \A r \in Reindexers : reindexRoot[r] \notin reindexRoots[r]
  /\ \A w \in Roots \ replaced : Rewalking(w) => IsReady(w)
  /\ \A c \in Callers :
       callAt[c] \in NotYetReady /\ callRoot[c] \notin replaced => repoState[callRoot[c]] # "Ready"

-----------------------------------------------------------------------------
(* The registry's list. *)

\* Taking a worktree out at its place leaves the others, each once.
LEMMA RemovingKeepsTheOthers ==
  ASSUME NEW S, NEW s \in Seq(S), IsInjective(s), NEW w, Contains(s, w)
  PROVE  LET t == RemoveAt(s, CHOOSE i \in DOMAIN s : s[i] = w) IN
         /\ t \in Seq(S) /\ IsInjective(t)
         /\ \A v : Contains(t, v) <=> Contains(s, v) /\ v # w
<1>1. PICK i : i = CHOOSE j \in DOMAIN s : s[j] = w
  OBVIOUS
<1>2. i \in 1 .. Len(s) /\ s[i] = w
  BY <1>1 DEF Contains
<1>3. PICK before : before = SubSeq(s, 1, i - 1)
  OBVIOUS
<1>4. PICK after : after = SubSeq(s, i + 1, Len(s))
  OBVIOUS
<1>5. before \in Seq(S) /\ Len(before) = i - 1 /\ \A k \in 1 .. i - 1 : before[k] = s[k]
  BY <1>2, <1>3
<1>6. after \in Seq(S) /\ Len(after) = Len(s) - i
  BY <1>2, <1>4
<1>7. \A k \in 1 .. Len(s) - i : after[k] = s[k + i]
  BY <1>2, <1>4
<1>8. PICK t : t = before \o after
  OBVIOUS
<1>9. /\ t \in Seq(S) /\ Len(t) = Len(s) - 1
      /\ \A k \in 1 .. Len(s) - 1 : t[k] = IF k < i THEN s[k] ELSE s[k + 1]
  <2>1. t \in Seq(S) /\ Len(t) = Len(s) - 1
    BY <1>2, <1>5, <1>6, <1>8, SMTT(30)
  <2>2. ASSUME NEW k \in 1 .. Len(s) - 1 PROVE t[k] = IF k < i THEN s[k] ELSE s[k + 1]
    <3>1. CASE k < i
      BY <1>2, <1>5, <1>6, <1>8, <3>1
    <3>2. CASE k >= i
      <4>1. t[k] = after[k - (i - 1)]
        BY <1>2, <1>5, <1>6, <1>8, <3>2, ConcatProperties
      <4> QED
        BY <1>2, <1>7, <3>2, <4>1
    <3> QED
      BY <1>2, <3>1, <3>2
  <2> QED
    BY <2>1, <2>2
<1>10. IsInjective(t)
  <2> SUFFICES ASSUME NEW j \in 1 .. Len(s) - 1, NEW k \in 1 .. Len(s) - 1, t[j] = t[k]
               PROVE  j = k
    BY <1>9 DEF IsInjective
  <2>1. PICK m \in 1 .. Len(s) : m = (IF j < i THEN j ELSE j + 1) /\ t[j] = s[m]
    BY <1>2, <1>9
  <2>2. PICK n \in 1 .. Len(s) : n = (IF k < i THEN k ELSE k + 1) /\ t[k] = s[n]
    BY <1>2, <1>9
  <2>3. m \in DOMAIN s /\ n \in DOMAIN s /\ s[m] = s[n]
    BY <2>1, <2>2, LenProperties
  <2>4. m = n
    BY <2>3 DEF IsInjective
  <2> QED
    BY <1>2, <2>1, <2>2, <2>4
<1>11. ASSUME NEW v PROVE Contains(t, v) <=> Contains(s, v) /\ v # w
  <2>1. ASSUME NEW k \in 1 .. Len(t), t[k] = v PROVE Contains(s, v) /\ v # w
    BY <1>2, <1>9, <2>1, SMTT(30) DEF Contains, IsInjective
  <2>2. ASSUME NEW k \in 1 .. Len(s), s[k] = v, v # w PROVE Contains(t, v)
    <3>1. CASE k < i
      BY <1>2, <1>9, <2>2, <3>1 DEF Contains
    <3>2. CASE k > i
      <4>1. k - 1 \in 1 .. Len(t) /\ t[k - 1] = v
        BY <1>2, <1>9, <2>2, <3>2
      <4> QED
        BY <4>1 DEF Contains
    <3> QED
      BY <1>2, <2>2, <3>1, <3>2
  <2> QED
    BY <2>1, <2>2 DEF Contains
<1> QED
  BY <1>1, <1>3, <1>4, <1>8, <1>9, <1>10, <1>11 DEF RemoveAt

\* What is appended comes on top of what is there.
LEMMA AppendingKeepsTheOthers ==
  ASSUME NEW S, NEW s \in Seq(S), NEW t \in Seq(S), IsInjective(s), IsInjective(t),
         \A v : ~ (Contains(s, v) /\ Contains(t, v))
  PROVE  /\ s \o t \in Seq(S) /\ IsInjective(s \o t)
         /\ \A v : Contains(s \o t, v) <=> Contains(s, v) \/ Contains(t, v)
<1>1. PICK u : u = s \o t
  OBVIOUS
<1>2. /\ u \in Seq(S) /\ Len(u) = Len(s) + Len(t)
      /\ \A i \in 1 .. Len(s) + Len(t) : u[i] = IF i <= Len(s) THEN s[i] ELSE t[i - Len(s)]
  BY <1>1, ConcatProperties
<1>3. ASSUME NEW i \in 1 .. Len(u), NEW j \in 1 .. Len(u), u[i] = u[j] PROVE i = j
  <2>1. CASE i <= Len(s) /\ j <= Len(s)
    BY <1>2, <1>3, <2>1 DEF IsInjective
  <2>2. CASE i > Len(s) /\ j > Len(s)
    <3>1. i - Len(s) \in DOMAIN t /\ j - Len(s) \in DOMAIN t /\ t[i - Len(s)] = t[j - Len(s)]
      BY <1>2, <1>3, <2>2
    <3> QED
      BY <2>2, <3>1 DEF IsInjective
  <2>3. CASE i <= Len(s) /\ j > Len(s)
    <3>1. Contains(s, u[i])
      BY <1>2, <2>3 DEF Contains
    <3>2. j - Len(s) \in 1 .. Len(t) /\ u[j] = t[j - Len(s)]
      BY <1>2, <2>3
    <3> QED
      BY <1>3, <3>1, <3>2 DEF Contains
  <2>4. CASE i > Len(s) /\ j <= Len(s)
    <3>1. Contains(s, u[j])
      BY <1>2, <2>4 DEF Contains
    <3>2. i - Len(s) \in 1 .. Len(t) /\ u[i] = t[i - Len(s)]
      BY <1>2, <2>4
    <3> QED
      BY <1>3, <3>1, <3>2 DEF Contains
  <2> QED
    BY <2>1, <2>2, <2>3, <2>4
<1>4. ASSUME NEW v PROVE Contains(u, v) <=> Contains(s, v) \/ Contains(t, v)
  <2>1. ASSUME Contains(u, v) PROVE Contains(s, v) \/ Contains(t, v)
    <3>1. PICK i \in 1 .. Len(u) : u[i] = v
      BY <2>1 DEF Contains
    <3> QED
      BY <1>2, <3>1 DEF Contains
  <2>2. ASSUME Contains(s, v) PROVE Contains(u, v)
    BY <1>2, <2>2 DEF Contains
  <2>3. ASSUME NEW i \in 1 .. Len(t), t[i] = v PROVE Contains(u, v)
    <3>1. i + Len(s) \in 1 .. Len(u) /\ u[i + Len(s)] = v
      BY <1>2, <2>3
    <3> QED
      BY <3>1 DEF Contains
  <2> QED
    BY <2>1, <2>2, <2>3 DEF Contains
<1> QED
  BY <1>1, <1>2, <1>3, <1>4 DEF IsInjective

\* A set of worktrees can be put in a row.
LEMMA SetToSeqIsARow ==
  ASSUME NEW S, IsFiniteSet(S)
  PROVE  /\ SetToSeq(S) \in Seq(S) /\ IsInjective(SetToSeq(S))
         /\ \A v : Contains(SetToSeq(S), v) => v \in S
<1>1. Cardinality(S) \in Nat /\ ExistsBijection(1 .. Cardinality(S), S)
  BY FS_CardinalityType
<1>2. \E f \in [1 .. Cardinality(S) -> S] : IsInjective(f)
  BY <1>1 DEF ExistsBijection, Bijection, Injection
<1>3. SetToSeq(S) \in [1 .. Cardinality(S) -> S] /\ IsInjective(SetToSeq(S))
  BY <1>2 DEF SetToSeq
<1>4. PICK s : s = SetToSeq(S)
  OBVIOUS
<1>5. s \in Seq(S)
  BY <1>1, <1>3, <1>4
<1>6. \A v : Contains(s, v) => v \in S
  BY <1>5 DEF Contains
<1> QED
  BY <1>3, <1>4, <1>5, <1>6

-----------------------------------------------------------------------------
(* Type correctness. *)

\* unregister_repo takes one worktree out of the list, and remembers that it was there.
LEMMA UnregisterMeans ==
  ASSUME WorktreesTypeOK, NEW a \in Droppers, NEW w \in Roots, Unregister(a, w)
  PROVE  /\ order' \in Seq(Roots) /\ IsInjective(order')
         /\ repoState' \in [Roots -> {"Registered", "Indexing", "Ready", "Failed"}]
         /\ dropping' \in [Droppers -> Roots \cup {NoRoot}]
         /\ replaced' \subseteq Roots /\ replaced \subseteq replaced'
         /\ \A v : Registered(v)' <=> Registered(v) /\ v # w
         /\ \A v \in Roots \ {w} : repoState'[v] = repoState[v]
         /\ Registered(w) => /\ repoState'[w] = "Registered" /\ w \in replaced'
                             /\ dropping' = [dropping EXCEPT ![a] = w]
         /\ ~ Registered(w) => UNCHANGED <<repoState, dropping>>
<1>1. CASE ~ Registered(w)
  BY <1>1 DEF Unregister, registryVars, Registered, WorktreesTypeOK
<1>2. CASE Registered(w)
  <2>1. /\ order' = RemoveAt(order, CHOOSE i \in DOMAIN order : order[i] = w)
        /\ repoState' = [repoState EXCEPT ![w] = "Registered"]
        /\ dropping' = [dropping EXCEPT ![a] = w]
        /\ replaced' = replaced \cup {w}
    BY <1>2 DEF Unregister
  <2>2. /\ order' \in Seq(Roots) /\ IsInjective(order')
        /\ \A v : Contains(order', v) <=> Contains(order, v) /\ v # w
    BY <1>2, <2>1, RemovingKeepsTheOthers DEF Registered, WorktreesTypeOK
  <2> QED
    BY <1>2, <2>1, <2>2 DEF Registered, WorktreesTypeOK
<1> QED
  BY <1>1, <1>2

\* The paths not known yet are put at the end of the list.
LEMMA RegisterMeans ==
  ASSUME WorktreesTypeOK, NEW a \in Droppers, RefreshRegister(a)
  PROVE  /\ order' \in Seq(Roots) /\ IsInjective(order')
         /\ \A v : Registered(v) => Registered(v)'
         /\ \A v : Registered(v)' => Registered(v) \/ v \in found[a]
<1>1. PICK new : new = found[a] \ ToSet(order) /\ order' = order \o SetToSeq(new)
  BY DEF RefreshRegister
<1>2. new \subseteq Roots /\ IsFiniteSet(new)
  BY <1>1, RootsAssumption, FS_Subset DEF WorktreesTypeOK
<1>3. PICK row : row = SetToSeq(new)
  OBVIOUS
<1>4. row \in Seq(Roots) /\ IsInjective(row) /\ \A v : Contains(row, v) => v \in new
  BY <1>2, <1>3, SetToSeqIsARow, SeqMonotonic
<1>5. \A v : ~ (Contains(order, v) /\ Contains(row, v))
  <2>1. DOMAIN order = 1 .. Len(order)
    BY LenProperties DEF WorktreesTypeOK
  <2> QED
    BY <1>1, <1>4, <2>1 DEF ToSet, Contains
<1> QED
  BY <1>1, <1>3, <1>4, <1>5, AppendingKeepsTheOthers DEF Registered, WorktreesTypeOK

\* The watcher may begin with a refresh.
LEMMA TakeBatchMeans ==
  ASSUME TakeBatch
  PROVE  \/ UNCHANGED <<refreshAt, found>>
         \/ /\ refreshAt' = [refreshAt EXCEPT ![WatchTask] = "compare"]
            /\ found' = [found EXCEPT ![WatchTask] = present]
BY DEF TakeBatch, StartRefresh

LEMMA InitTypeOK == WorktreesInit => WorktreesTypeOK
<1> SUFFICES ASSUME WorktreesInit PROVE WorktreesTypeOK
  OBVIOUS
<1>1. order \in Seq(Roots) /\ IsInjective(order)
  <2>1. IsFiniteSet(present) /\ present \subseteq Roots
    BY RootsAssumption, FS_Subset DEF WorktreesInit
  <2> QED
    BY <2>1, SetToSeqIsARow, SeqMonotonic DEF WorktreesInit
<1>2. /\ present \subseteq Roots /\ changes \in 0 .. MaxChanges
      /\ startMode \in StartModes /\ primariesWalked = FALSE
  BY StartAssumption DEF WorktreesInit
<1>3. /\ repoState \in [Roots -> {"Registered", "Indexing", "Ready", "Failed"}]
      /\ documents \in [Roots -> SUBSET WorktreeFiles] /\ strays \subseteq Nested
      /\ indexJobs \in [Roots -> Callers \cup Reindexers \cup {Nobody}]
      /\ callAt \in [Callers -> {"idle", "refresh", "lock", "wait", "walk", "verify",
                                 "failed", "watch", "leave", "done"}]
      /\ callRoot \in [Callers -> Roots \cup {NoRoot}]
      /\ unwalked \in [Callers -> SUBSET WorktreeFiles]
  BY DEF WorktreesInit
<1>4. /\ refreshAt \in [Droppers -> {"no", "compare", "apply"}]
      /\ found \in [Droppers -> SUBSET Roots] /\ leaving \in [Droppers -> SUBSET Roots]
      /\ dropping \in [Droppers -> Roots \cup {NoRoot}]
      /\ reindexAt \in [Reindexers -> {"idle", "lock", "walk", "done"}]
      /\ reindexJobs \in [Reindexers -> SUBSET (Nat \X Roots)]
      /\ reindexRoots \in [Reindexers -> SUBSET Roots]
      /\ reindexRoot \in [Reindexers -> Roots \cup {NoRoot}]
  BY DEF WorktreesInit
<1>5. /\ commands \in Seq([kind : {"Watch", "Unwatch"}, root : Roots])
      /\ watchedPaths \subseteq Roots /\ osWatched \subseteq watchedPaths \cap present
      /\ events \subseteq Roots \X {"source", ".git"} /\ batch \subseteq Roots \X {"source", ".git"}
      /\ writing \in Roots \cup {NoRoot} /\ writingAs \in {"worktree", "primary"}
      /\ disturbed \cup orphaned \cup replaced \subseteq Roots
  BY EmptySeq DEF WorktreesInit
<1> QED
  BY <1>1, <1>2, <1>3, <1>4, <1>5 DEF WorktreesTypeOK

\* set_state writes one of the states, or nothing.
LEMMA SetStateTypes ==
  ASSUME WorktreesTypeOK, NEW w \in Roots, NEW s \in {"Registered", "Indexing", "Ready", "Failed"},
         SetState(w, s)
  PROVE  repoState' \in [Roots -> {"Registered", "Indexing", "Ready", "Failed"}]
BY DEF SetState, WorktreesTypeOK

\* Every step keeps the types.
LEMMA TypesKept ==
  ASSUME WorktreesTypeOK, WriterInv, CallInv, WorktreesNext
  PROVE  WorktreesTypeOK'
<1>1. ASSUME NEW c \in Callers, NEW w \in Roots, Resolve(c, w) PROVE WorktreesTypeOK'
  <2>1. callRoot' \in [Callers -> Roots \cup {NoRoot}]
    BY <1>1 DEF WorktreesTypeOK, Resolve
  <2>2. CASE Enter(c, w) /\ UNCHANGED refreshVars
    <3>1. callAt' \in [Callers -> {"idle", "refresh", "lock", "wait", "walk", "verify",
                                 "failed", "watch", "leave", "done"}]
      <4>1. callAt' = [callAt EXCEPT ![c] = "leave"] \/ callAt' = [callAt EXCEPT ![c] = "lock"]
        BY <2>2 DEF Enter
      <4> QED
        BY <4>1 DEF WorktreesTypeOK
    <3>2. /\ order' \in Seq(Roots) /\ IsInjective(order')
          /\ repoState' \in [Roots -> {"Registered", "Indexing", "Ready", "Failed"}]
          /\ dropping' \in [Droppers -> Roots \cup {NoRoot}] /\ replaced' \subseteq Roots
      <4>1. CASE Unregister(c, w)
        BY <4>1, UnregisterMeans DEF Droppers
      <4>2. CASE UNCHANGED <<registryVars, dropping, replaced>>
        BY <4>2 DEF WorktreesTypeOK, registryVars
      <4> QED
        BY <2>2, <4>1, <4>2 DEF Enter
    <3> QED
      BY <1>1, <2>1, <2>2, <3>1, <3>2
      DEF WorktreesTypeOK, Resolve, treeVars, dataVars, startVars, refreshVars, reindexVars,
          watcherVars, batchVars
  <2>3. CASE StartRefresh(c) /\ callAt' = [callAt EXCEPT ![c] = "refresh"]
             /\ UNCHANGED <<leaving, registryVars, dropping, replaced>>
    BY <1>1, <2>1, <2>3
    DEF WorktreesTypeOK, Resolve, StartRefresh, treeVars, registryVars, dataVars, startVars,
        reindexVars, watcherVars, batchVars, Droppers
  <2> QED
    BY <1>1, <2>2, <2>3 DEF Resolve
<1>2. ASSUME NEW c \in Callers, Resolved(c) PROVE WorktreesTypeOK'
  <2>1. callRoot[c] \in Roots
    BY <1>2 DEF CallInv, Resolved
  <2>2. callAt' \in [Callers -> {"idle", "refresh", "lock", "wait", "walk", "verify",
                               "failed", "watch", "leave", "done"}]
    <3>1. callAt' = [callAt EXCEPT ![c] = "leave"] \/ callAt' = [callAt EXCEPT ![c] = "lock"]
      BY <1>2 DEF Resolved, Enter
    <3> QED
      BY <3>1 DEF WorktreesTypeOK
  <2>3. Unregister(c, callRoot[c]) \/ UNCHANGED <<registryVars, dropping, replaced>>
    BY <1>2 DEF Resolved, Enter
  <2>4. /\ order' \in Seq(Roots) /\ IsInjective(order')
        /\ repoState' \in [Roots -> {"Registered", "Indexing", "Ready", "Failed"}]
        /\ dropping' \in [Droppers -> Roots \cup {NoRoot}] /\ replaced' \subseteq Roots
    <3>1. CASE Unregister(c, callRoot[c])
      BY <2>1, <3>1, UnregisterMeans DEF Droppers
    <3>2. CASE UNCHANGED <<registryVars, dropping, replaced>>
      BY <3>2 DEF WorktreesTypeOK, registryVars
    <3> QED
      BY <2>3, <3>1, <3>2
  <2> QED
    BY <1>2, <2>2, <2>4
    DEF WorktreesTypeOK, Resolved, treeVars, registryVars, dataVars, startVars, refreshVars,
        reindexVars, watcherVars, batchVars, Droppers
<1>3. ASSUME NEW c \in Callers, Check(c) PROVE WorktreesTypeOK'
  <2>1. callRoot[c] \in Roots
    BY <1>3 DEF CallInv, Check
  <2>2. callAt' \in [Callers -> {"idle", "refresh", "lock", "wait", "walk", "verify",
                               "failed", "watch", "leave", "done"}]
    <3>1. callAt' = [callAt EXCEPT ![c] = "leave"] \/ callAt' = [callAt EXCEPT ![c] = "wait"]
      BY <1>3 DEF Check
    <3> QED
      BY <3>1 DEF WorktreesTypeOK
  <2>3. Unregister(c, callRoot[c]) \/ UNCHANGED <<registryVars, dropping, replaced>>
    BY <1>3 DEF Check
  <2>4. indexJobs' \in [Roots -> Callers \cup Reindexers \cup {Nobody}]
    BY <1>3, <2>1 DEF WorktreesTypeOK, Check
  <2>5. /\ order' \in Seq(Roots) /\ IsInjective(order')
        /\ repoState' \in [Roots -> {"Registered", "Indexing", "Ready", "Failed"}]
        /\ dropping' \in [Droppers -> Roots \cup {NoRoot}] /\ replaced' \subseteq Roots
    <3>1. CASE Unregister(c, callRoot[c])
      BY <2>1, <3>1, UnregisterMeans DEF Droppers
    <3>2. CASE UNCHANGED <<registryVars, dropping, replaced>>
      BY <3>2 DEF WorktreesTypeOK, registryVars
    <3> QED
      BY <2>3, <3>1, <3>2
  <2> QED
    BY <1>3, <2>2, <2>4, <2>5
    DEF WorktreesTypeOK, Check, treeVars, registryVars, dataVars, startVars, refreshVars,
        reindexVars, watcherVars, batchVars, Droppers
<1>4. ASSUME NEW c \in Callers, Leave(c) PROVE WorktreesTypeOK'
  BY <1>4 DEF WorktreesTypeOK, Leave, treeVars, registryVars, dataVars, startVars, refreshVars,
      reindexVars, watcherVars, batchVars, historyVars, CallInv
<1>5. ASSUME NEW c \in Callers, BeginWalk(c) PROVE WorktreesTypeOK'
  BY <1>5, SMTT(30)
  DEF WorktreesTypeOK, BeginWalk, SetState, treeVars, dataVars, startVars, refreshVars,
      reindexVars, watcherVars, batchVars, CallInv
<1>6. ASSUME NEW c \in Callers, WalkFile(c) PROVE WorktreesTypeOK'
  BY <1>6 DEF WorktreesTypeOK, WalkFile, treeVars, registryVars, startVars, refreshVars,
      reindexVars, watcherVars, batchVars, historyVars, CallInv
<1>7. ASSUME NEW c \in Callers, WalkFails(c) PROVE WorktreesTypeOK'
  <2>1. callRoot[c] \in Roots
    BY <1>7 DEF CallInv, WalkFails
  <2>2. repoState' \in [Roots -> {"Registered", "Indexing", "Ready", "Failed"}]
    BY <1>7, <2>1, SetStateTypes DEF WalkFails
  <2>3. /\ callAt' = [callAt EXCEPT ![c] = "leave"] /\ unwalked' = [unwalked EXCEPT ![c] = {}]
        /\ orphaned' \subseteq orphaned \cup {callRoot[c]}
    BY <1>7 DEF WalkFails
  <2> QED
    BY <1>7, <2>1, <2>2, <2>3
    DEF WorktreesTypeOK, WalkFails, treeVars, dataVars, startVars, refreshVars, reindexVars,
        watcherVars, batchVars
<1>8. ASSUME NEW c \in Callers, Verify(c) PROVE WorktreesTypeOK'
  BY <1>8 DEF WorktreesTypeOK, Verify, treeVars, registryVars, dataVars, startVars, refreshVars,
      reindexVars, watcherVars, batchVars, historyVars, CallInv, Droppers
<1>9. ASSUME NEW c \in Callers, WalkOrphaned(c) PROVE WorktreesTypeOK'
  BY <1>9 DEF WorktreesTypeOK, WalkOrphaned, SetState, treeVars, dataVars, startVars,
      refreshVars, reindexVars, watcherVars, batchVars, historyVars, CallInv
<1>10. ASSUME NEW c \in Callers, BecomeReady(c) PROVE WorktreesTypeOK'
  BY <1>10 DEF WorktreesTypeOK, BecomeReady, SetState, treeVars, dataVars, startVars,
      refreshVars, reindexVars, watcherVars, batchVars, historyVars, CallInv
<1>11. ASSUME NEW c \in Callers, AskToWatch(c) PROVE WorktreesTypeOK'
  BY <1>11, SMTT(30) DEF WorktreesTypeOK, AskToWatch, treeVars, registryVars, dataVars, startVars,
      refreshVars, reindexVars, watcherVars, batchVars, historyVars, CallInv
<1>12. ASSUME NEW a \in Droppers, DropData(a) PROVE WorktreesTypeOK'
  BY <1>12 DEF WorktreesTypeOK, DropData, treeVars, registryVars, startVars, callVars,
      refreshVars, reindexVars, watcherVars, batchVars
<1>13. ASSUME NEW a \in Droppers, RefreshCompare(a) PROVE WorktreesTypeOK'
  BY <1>13 DEF WorktreesTypeOK, RefreshCompare, treeVars, registryVars, dataVars, startVars,
      callVars, reindexVars, watcherVars, batchVars, historyVars, ToSet
<1>14. ASSUME NEW a \in Droppers, RefreshDrop(a) PROVE WorktreesTypeOK'
  BY <1>14, UnregisterMeans
  DEF WorktreesTypeOK, RefreshDrop, treeVars, dataVars, startVars, callVars,
      reindexVars, watcherVars, batchVars
<1>15. ASSUME NEW a \in Droppers, RefreshRegister(a) PROVE WorktreesTypeOK'
  BY <1>15, RegisterMeans
  DEF WorktreesTypeOK, RefreshRegister, treeVars, startVars, callVars, reindexVars,
      watcherVars, batchVars, historyVars
<1>16. ASSUME NEW r \in Reindexers, ReindexStart(r) PROVE WorktreesTypeOK'
  BY <1>16 DEF WorktreesTypeOK, ReindexStart, treeVars, registryVars, dataVars, startVars,
      callVars, refreshVars, watcherVars, batchVars, historyVars
<1>17. ASSUME NEW r \in Reindexers, ReindexLock(r) PROVE WorktreesTypeOK'
  BY <1>17 DEF WorktreesTypeOK, ReindexLock, treeVars, registryVars, dataVars, startVars,
      callVars, refreshVars, watcherVars, batchVars, historyVars
<1>18. ASSUME NEW r \in Reindexers, ReindexClear(r) PROVE WorktreesTypeOK'
  BY <1>18 DEF WorktreesTypeOK, ReindexClear, treeVars, registryVars, startVars, callVars,
      refreshVars, watcherVars, batchVars
<1>19. ASSUME NEW r \in Reindexers, ReindexTake(r) PROVE WorktreesTypeOK'
  <2>1. PICK w \in reindexRoots[r] :
          /\ reindexRoots' = [reindexRoots EXCEPT ![r] = reindexRoots[r] \ {w}]
          /\ \/ reindexRoot' = [reindexRoot EXCEPT ![r] = w] /\ UNCHANGED repoState
             \/ SetState(w, "Failed") /\ UNCHANGED reindexRoot
    BY <1>19 DEF ReindexTake
  <2>2. w \in Roots
    BY <2>1 DEF WorktreesTypeOK
  <2>3. repoState' \in [Roots -> {"Registered", "Indexing", "Ready", "Failed"}]
    BY <2>1, <2>2, SetStateTypes DEF WorktreesTypeOK
  <2>4. reindexRoots' \in [Reindexers -> SUBSET Roots] /\ reindexRoot' \in [Reindexers -> Roots \cup {NoRoot}]
    BY <2>1, <2>2 DEF WorktreesTypeOK
  <2> QED
    BY <1>19, <2>3, <2>4
    DEF WorktreesTypeOK, ReindexTake, treeVars, dataVars, startVars, callVars, refreshVars,
        watcherVars, batchVars, historyVars
<1>20. ASSUME NEW r \in Reindexers, ReindexWalked(r) PROVE WorktreesTypeOK'
  <2>1. PICK w : w = reindexRoot[r] /\ w \in Roots
    BY <1>20 DEF WorktreesTypeOK, ReindexWalked
  <2>2. repoState' \in [Roots -> {"Registered", "Indexing", "Ready", "Failed"}]
    BY <1>20, <2>1, SetStateTypes DEF ReindexWalked
  <2>3. documents' \in [Roots -> SUBSET WorktreeFiles]
    <3>1. \/ documents' = documents
          \/ documents' = [documents EXCEPT ![w] = WorktreeFiles]
      <4>1. \/ documents' = documents
            \/ documents' = [documents EXCEPT ![w] = WorktreeFiles]
            \/ documents' = [documents EXCEPT ![w] = documents[w]]
        BY <1>20, <2>1 DEF ReindexWalked
      <4>2. [documents EXCEPT ![w] = documents[w]] = documents
        BY <2>1 DEF WorktreesTypeOK
      <4> QED
        BY <4>1, <4>2
    <3> QED
      BY <3>1, SMTT(20) DEF WorktreesTypeOK
  <2>4. orphaned' \subseteq Roots
    <3>1. orphaned' \subseteq orphaned \cup {w}
      BY <1>20, <2>1 DEF ReindexWalked
    <3> QED
      BY <2>1, <3>1 DEF WorktreesTypeOK
  <2>5. reindexRoot' \in [Reindexers -> Roots \cup {NoRoot}]
    BY <1>20 DEF WorktreesTypeOK, ReindexWalked
  <2> QED
    BY <1>20, <2>2, <2>3, <2>4, <2>5
    DEF WorktreesTypeOK, ReindexWalked, treeVars, startVars, callVars, refreshVars, watcherVars,
        batchVars
<1>21. ASSUME NEW r \in Reindexers, ReindexEnd(r) PROVE WorktreesTypeOK'
  BY <1>21 DEF WorktreesTypeOK, ReindexEnd, treeVars, registryVars, dataVars, callVars,
      refreshVars, watcherVars, batchVars, historyVars
<1>22. ASSUME InitializationComplete PROVE WorktreesTypeOK'
  BY <1>22 DEF WorktreesTypeOK, InitializationComplete, treeVars, registryVars, dataVars,
      callVars, refreshVars, reindexVars, watcherVars, batchVars, historyVars
<1>23. ASSUME HandleCommand PROVE WorktreesTypeOK'
  BY <1>23 DEF WorktreesTypeOK, HandleCommand, WatcherFree, treeVars, registryVars, dataVars,
      startVars, callVars, refreshVars, reindexVars, watcherVars, batchVars,
      historyVars
<1>24. ASSUME TakeBatch PROVE WorktreesTypeOK'
  <2>1. refreshAt' \in [Droppers -> {"no", "compare", "apply"}] /\ found' \in [Droppers -> SUBSET Roots]
    BY <1>24, TakeBatchMeans DEF WorktreesTypeOK, Droppers
  <2>2. batch' = events /\ events' = {}
    BY <1>24 DEF TakeBatch
  <2> QED
    BY <1>24, <2>1, <2>2
    DEF WorktreesTypeOK, TakeBatch, treeVars, registryVars, dataVars, startVars, callVars,
        reindexVars,
        watcherVars, historyVars
<1>25. ASSUME HandleChange PROVE WorktreesTypeOK'
  <2>1. PICK change \in batch :
          /\ batch' = batch \ {change}
          /\ \/ Unregister(WatchTask, change[1]) /\ UNCHANGED <<writing, writingAs>>
             \/ /\ writing' \in {writing, change[1]} /\ writingAs' \in {"worktree", "primary"}
                /\ UNCHANGED <<registryVars, dropping, replaced>>
    BY <1>25 DEF HandleChange, WorktreesTypeOK
  <2>2. change[1] \in Roots /\ batch' \subseteq Roots \X {"source", ".git"}
    BY <2>1 DEF WorktreesTypeOK
  <2>3. /\ order' \in Seq(Roots) /\ IsInjective(order')
        /\ repoState' \in [Roots -> {"Registered", "Indexing", "Ready", "Failed"}]
        /\ dropping' \in [Droppers -> Roots \cup {NoRoot}] /\ replaced' \subseteq Roots
    <3>1. CASE Unregister(WatchTask, change[1])
      BY <2>2, <3>1, UnregisterMeans DEF Droppers
    <3>2. CASE UNCHANGED <<registryVars, dropping, replaced>>
      BY <3>2 DEF WorktreesTypeOK, registryVars
    <3> QED
      BY <2>1, <3>1, <3>2
  <2>4. writing' \in Roots \cup {NoRoot} /\ writingAs' \in {"worktree", "primary"}
    BY <2>1, <2>2 DEF WorktreesTypeOK
  <2> QED
    BY <1>25, <2>2, <2>3, <2>4
    DEF WorktreesTypeOK, HandleChange, treeVars, dataVars, startVars, callVars, refreshVars,
        reindexVars, watcherVars
<1>26. ASSUME WriteChange PROVE WorktreesTypeOK'
  BY <1>26, SMTT(30) DEF WorktreesTypeOK, WriteChange, treeVars, registryVars, dataVars, startVars,
      callVars, refreshVars, reindexVars, watcherVars, WriterInv
<1>27. ASSUME NEW w \in Roots, CreateWorktree(w) PROVE WorktreesTypeOK'
  <2>1. events' \subseteq Roots \X {"source", ".git"}
    BY <1>27 DEF WorktreesTypeOK, CreateWorktree, Notify, SourceChanges
  <2>2. changes' \in 0 .. MaxChanges
    BY <1>27, StartAssumption DEF WorktreesTypeOK, CreateWorktree
  <2> QED
    BY <1>27, <2>1, <2>2
    DEF WorktreesTypeOK, CreateWorktree, registryVars, dataVars, startVars, callVars, refreshVars,
        reindexVars,
        watcherVars, historyVars
<1>28. ASSUME NEW w \in Roots, RemoveWorktree(w) PROVE WorktreesTypeOK'
  <2>1. events' \subseteq Roots \X {"source", ".git"}
    BY <1>28 DEF WorktreesTypeOK, RemoveWorktree, Notify, SourceChanges
  <2>2. changes' \in 0 .. MaxChanges
    BY <1>28, StartAssumption DEF WorktreesTypeOK, RemoveWorktree
  <2> QED
    BY <1>28, <2>1, <2>2
    DEF WorktreesTypeOK, RemoveWorktree, registryVars, dataVars, startVars, callVars, refreshVars,
        reindexVars,
        watcherVars, historyVars
<1> QED
  BY <1>1, <1>2, <1>3, <1>4, <1>5, <1>6, <1>7, <1>8, <1>9, <1>10, <1>11, <1>12, <1>13,
     <1>14, <1>15, <1>16, <1>17, <1>18, <1>19, <1>20, <1>21, <1>22, <1>23, <1>24, <1>25,
     <1>26, <1>27, <1>28
  DEF WorktreesNext, Calling, Refreshed, Rewalked, Watched

-----------------------------------------------------------------------------
(* The calls and the locks. *)

\* The watcher takes the primary for the owner of what lies inside it only.
LEMMA WriterKept ==
  ASSUME WorktreesTypeOK, WriterInv, WorktreesNext
  PROVE  WriterInv'
<1>1. CASE UNCHANGED <<writing, writingAs>>
  BY <1>1 DEF WriterInv
<1>2. ASSUME HandleChange PROVE WriterInv'
  BY <1>2 DEF WriterInv, HandleChange
<1>3. ASSUME WriteChange PROVE WriterInv'
  BY <1>3 DEF WriterInv, WriteChange
<1>4. ASSUME NEW c \in Callers,
             Calling(c) \/ Check(c) \/ WalkFails(c) \/ \E w \in Roots : Resolve(c, w)
      PROVE  UNCHANGED <<writing, writingAs>>
  BY <1>4
  DEF Calling, Resolve, batchVars, Resolved, Leave, Check, BeginWalk, WalkFile, WalkFails,
      Verify, WalkOrphaned, BecomeReady, AskToWatch
<1>5. ASSUME NEW a \in Droppers, DropData(a) \/ Refreshed(a) PROVE UNCHANGED <<writing, writingAs>>
  BY <1>5 DEF Refreshed, batchVars, DropData, RefreshCompare, RefreshDrop, RefreshRegister
<1>6. ASSUME NEW r \in Reindexers, ReindexStart(r) \/ ReindexLock(r) \/ Rewalked(r)
      PROVE  UNCHANGED <<writing, writingAs>>
  BY <1>6
  DEF Rewalked, batchVars, ReindexStart, ReindexLock, ReindexClear, ReindexTake, ReindexWalked,
      ReindexEnd
<1>7. ASSUME \/ InitializationComplete \/ HandleCommand \/ TakeBatch
             \/ \E w \in Roots : CreateWorktree(w) \/ RemoveWorktree(w)
      PROVE  UNCHANGED <<writing, writingAs>>
  BY <1>7
  DEF batchVars, InitializationComplete, HandleCommand, TakeBatch, CreateWorktree, RemoveWorktree
<1> QED
  BY <1>1, <1>2, <1>3, <1>4, <1>5, <1>6, <1>7 DEF WorktreesNext, Watched

\* A call drops what it found gone before it goes on, and refreshes nothing else meanwhile.
LEMMA CallKept ==
  ASSUME WorktreesTypeOK, CallInv, WorktreesNext
  PROVE  CallInv'
<1>1. CASE UNCHANGED <<callAt, callRoot, refreshAt, dropping>>
  BY <1>1 DEF CallInv
<1>2. ASSUME NEW c \in Callers, NEW w \in Roots, Resolve(c, w) PROVE CallInv'
  BY <1>2 DEF CallInv, Unregister, WorktreesTypeOK, Droppers, Resolve, Enter, StartRefresh,
      refreshVars
<1>3. ASSUME NEW c \in Callers, Resolved(c) PROVE CallInv'
  BY <1>3 DEF CallInv, Unregister, WorktreesTypeOK, Droppers, Resolved, Enter, refreshVars
<1>4. ASSUME NEW c \in Callers, Check(c) PROVE CallInv'
  BY <1>4 DEF CallInv, Unregister, WorktreesTypeOK, Droppers, Check, refreshVars
<1>5. ASSUME NEW c \in Callers, Leave(c) \/ BeginWalk(c) \/ WalkFails(c) PROVE CallInv'
  BY <1>5 DEF CallInv, WorktreesTypeOK, Leave, refreshVars, BeginWalk, SetState, WalkFails
<1>6. ASSUME NEW c \in Callers, Verify(c) PROVE CallInv'
  BY <1>6 DEF CallInv, WorktreesTypeOK, Droppers, Verify, refreshVars
<1>7. ASSUME NEW c \in Callers, WalkOrphaned(c) \/ BecomeReady(c) \/ AskToWatch(c) PROVE CallInv'
  BY <1>7 DEF CallInv, WorktreesTypeOK, WalkOrphaned, SetState, refreshVars, BecomeReady,
      AskToWatch
<1>8. ASSUME NEW a \in Droppers, DropData(a) \/ RefreshCompare(a) \/ RefreshRegister(a)
      PROVE  CallInv'
  BY <1>8 DEF CallInv, WorktreesTypeOK, Droppers, DropData, callVars, refreshVars,
      RefreshCompare, RefreshRegister
<1>9. ASSUME NEW a \in Droppers, RefreshDrop(a) PROVE CallInv'
  BY <1>9 DEF CallInv, WorktreesTypeOK, Droppers, Unregister, RefreshDrop, callVars
<1>10. ASSUME TakeBatch PROVE CallInv'
  <2>1. UNCHANGED <<callAt, callRoot, dropping>>
    BY <1>10 DEF TakeBatch, callVars
  <2> QED
    BY <1>10, <2>1, TakeBatchMeans, TasksAssumption DEF CallInv, WorktreesTypeOK, Droppers
<1>11. ASSUME HandleChange PROVE CallInv'
  BY <1>11, TasksAssumption
  DEF CallInv, WorktreesTypeOK, Droppers, Unregister, HandleChange, callVars,
      refreshVars
<1> QED
  BY <1>1, <1>2, <1>3, <1>4, <1>5, <1>6, <1>7, <1>8, <1>9, <1>10, <1>11
  DEF WorktreesNext, Calling, Refreshed, Rewalked, Watched, WalkFile, refreshVars,
      ReindexStart, callVars, ReindexLock, ReindexClear, ReindexTake, ReindexWalked,
      ReindexEnd, InitializationComplete, HandleCommand, WriteChange, CreateWorktree,
      RemoveWorktree

\* A lock is taken when nobody holds it and given back by its holder.
LEMMA LockKept ==
  ASSUME WorktreesTypeOK, CallInv, LockInv, WorktreesNext
  PROVE  LockInv'
<1>1. CASE UNCHANGED <<callAt, callRoot, indexJobs>>
  BY <1>1 DEF LockInv
<1>2. ASSUME NEW c \in Callers, NEW w \in Roots, Resolve(c, w) PROVE LockInv'
  BY <1>2 DEF LockInv, WorktreesTypeOK, Indexing, Resolve, Enter, StartRefresh
<1>3. ASSUME NEW c \in Callers, Resolved(c) PROVE LockInv'
  BY <1>3 DEF LockInv, WorktreesTypeOK, Indexing, Resolved, Enter
<1>4. ASSUME NEW c \in Callers, Leave(c) PROVE LockInv'
  <2> SUFFICES ASSUME NEW d \in Callers, callAt'[d] \in Indexing PROVE indexJobs'[callRoot'[d]] = d
    BY DEF LockInv
  <2>1. d # c /\ callAt[d] \in Indexing /\ callRoot'[d] = callRoot[d] /\ callRoot[d] \in Roots
    BY <1>4 DEF WorktreesTypeOK, CallInv, Indexing, Leave
  <2>2. indexJobs[callRoot[d]] = d
    BY <2>1 DEF LockInv
  <2> QED
    BY <1>4, <2>1, <2>2 DEF Leave
<1>5. ASSUME NEW c \in Callers, Check(c) PROVE LockInv'
  BY <1>5, TasksAssumption DEF LockInv, CallInv, WorktreesTypeOK, Indexing, Check
<1>6. ASSUME NEW c \in Callers, BeginWalk(c) \/ WalkFails(c) \/ Verify(c) \/ WalkOrphaned(c) \/ BecomeReady(c) \/ AskToWatch(c)
      PROVE  LockInv'
  BY <1>6 DEF LockInv, WorktreesTypeOK, Indexing, BeginWalk, SetState, WalkFails, Verify,
      WalkOrphaned, BecomeReady, AskToWatch
<1>7. ASSUME NEW r \in Reindexers, ReindexLock(r) PROVE LockInv'
  <2>1. PICK w : indexJobs[w] = Nobody /\ indexJobs' = [indexJobs EXCEPT ![w] = r]
    BY <1>7 DEF ReindexLock
  <2> QED
    BY <1>7, <2>1, TasksAssumption
    DEF LockInv, CallInv, WorktreesTypeOK, Indexing, ReindexLock, callVars
<1>8. ASSUME NEW r \in Reindexers, ReindexEnd(r) PROVE LockInv'
  BY <1>8, TasksAssumption, SMTT(30)
  DEF LockInv, CallInv, WorktreesTypeOK, Indexing, ReindexEnd, callVars
<1> QED
  BY <1>1, <1>2, <1>3, <1>4, <1>5, <1>6, <1>7, <1>8
  DEF WorktreesNext, Calling, Refreshed, Rewalked, Watched, WalkFile, DropData,
      callVars, RefreshCompare, RefreshDrop, RefreshRegister, ReindexStart,
      ReindexClear, ReindexTake, ReindexWalked, InitializationComplete, HandleCommand,
      TakeBatch, HandleChange, WriteChange, CreateWorktree, RemoveWorktree

\* What a reindex_all walks it has taken up and puts down between clearing and its end.
LEMMA RestKept ==
  ASSUME WorktreesTypeOK, RestInv, WorktreesNext
  PROVE  RestInv'
<1>1. CASE UNCHANGED <<reindexAt, reindexRoots, reindexRoot>>
  BY <1>1 DEF RestInv
<1>2. ASSUME NEW r \in Reindexers, ReindexStart(r) \/ ReindexLock(r) PROVE RestInv'
  BY <1>2 DEF RestInv, WorktreesTypeOK, ReindexStart, ReindexLock
<1>3. ASSUME NEW r \in Reindexers, ReindexClear(r) \/ ReindexTake(r) \/ ReindexWalked(r) \/ ReindexEnd(r)
      PROVE  RestInv'
  BY <1>3 DEF RestInv, WorktreesTypeOK, ReindexClear, ReindexTake, SetState, ReindexWalked,
      ReindexEnd
<1>4. ASSUME NEW c \in Callers,
             Calling(c) \/ Check(c) \/ WalkFails(c) \/ \E w \in Roots : Resolve(c, w)
      PROVE  UNCHANGED <<reindexAt, reindexRoots, reindexRoot>>
  BY <1>4
  DEF Calling, Resolve, reindexVars, Resolved, Leave, Check, BeginWalk, WalkFile, WalkFails,
      Verify, WalkOrphaned, BecomeReady, AskToWatch
<1>5. ASSUME NEW a \in Droppers, DropData(a) \/ Refreshed(a)
      PROVE  UNCHANGED <<reindexAt, reindexRoots, reindexRoot>>
  BY <1>5 DEF Refreshed, reindexVars, DropData, RefreshCompare, RefreshDrop, RefreshRegister
<1>6. ASSUME \/ InitializationComplete \/ Watched
             \/ \E w \in Roots : CreateWorktree(w) \/ RemoveWorktree(w)
      PROVE  UNCHANGED <<reindexAt, reindexRoots, reindexRoot>>
  BY <1>6
  DEF Watched, reindexVars, InitializationComplete, HandleCommand, TakeBatch, HandleChange,
      WriteChange, CreateWorktree, RemoveWorktree
<1> QED
  BY <1>1, <1>2, <1>3, <1>4, <1>5, <1>6 DEF WorktreesNext, Rewalked

-----------------------------------------------------------------------------
(* What is known of the worktrees. *)

\* What was removed stays so; who leaves the list is remembered; who enters it, git listed.
RegistryStep ==
  /\ replaced \subseteq replaced' /\ Known \subseteq Known'
  /\ \A w \in Roots : Registered(w) => Registered(w)' \/ w \in replaced'
  /\ \A w \in Roots : Registered(w)' => Registered(w) \/ \E a \in Droppers : w \in found[a]

\* Every step is one of the registry, or leaves it alone.
LEMMA RegistrySteps ==
  ASSUME WorktreesTypeOK, CallInv, WorktreesNext
  PROVE  RegistryStep
<1>1. CASE UNCHANGED <<present, order, replaced>>
  BY <1>1 DEF RegistryStep, Known, Registered
<1>2. ASSUME NEW c \in Callers, NEW w \in Roots, Resolve(c, w) PROVE RegistryStep
  <2>1. PICK v \in Roots : Unregister(c, v) \/ UNCHANGED <<registryVars, dropping, replaced>>
    BY <1>2 DEF Resolve, Enter
  <2> QED
    BY <1>2, <2>1, UnregisterMeans
    DEF RegistryStep, Known, Registered, registryVars, Droppers, Resolve, treeVars
<1>3. ASSUME NEW c \in Callers, Resolved(c) PROVE RegistryStep
  <2>1. PICK v \in Roots : Unregister(c, v) \/ UNCHANGED <<registryVars, dropping, replaced>>
    BY <1>3 DEF Resolved, Enter, CallInv
  <2> QED
    BY <1>3, <2>1, UnregisterMeans
    DEF RegistryStep, Known, Registered, registryVars, Droppers, Resolved, treeVars
<1>4. ASSUME NEW c \in Callers, Check(c) PROVE RegistryStep
  <2>1. PICK v \in Roots : Unregister(c, v) \/ UNCHANGED <<registryVars, dropping, replaced>>
    BY <1>4 DEF Check, CallInv
  <2> QED
    BY <1>4, <2>1, UnregisterMeans
    DEF RegistryStep, Known, Registered, registryVars, Droppers, Check, treeVars
<1>5. ASSUME NEW a \in Droppers, RefreshDrop(a) PROVE RegistryStep
  <2>1. PICK v \in Roots : Unregister(a, v) \/ UNCHANGED <<registryVars, dropping, replaced>>
    BY <1>5 DEF RefreshDrop, WorktreesTypeOK
  <2> QED
    BY <1>5, <2>1, UnregisterMeans
    DEF RegistryStep, Known, Registered, registryVars, Droppers, RefreshDrop, treeVars
<1>6. ASSUME HandleChange PROVE RegistryStep
  <2>1. PICK v \in Roots : Unregister(WatchTask, v) \/ UNCHANGED <<registryVars, dropping, replaced>>
    BY <1>6 DEF HandleChange, WorktreesTypeOK
  <2> QED
    BY <1>6, <2>1, UnregisterMeans
    DEF RegistryStep, Known, Registered, registryVars, Droppers, HandleChange, treeVars
<1>7. ASSUME NEW a \in Droppers, RefreshRegister(a) PROVE RegistryStep
  BY <1>7, RegisterMeans DEF RegistryStep, Known, Registered, treeVars, historyVars, RefreshRegister
<1>8. ASSUME NEW w \in Roots, CreateWorktree(w) \/ RemoveWorktree(w) PROVE RegistryStep
  BY <1>8 DEF RegistryStep, Known, Registered, registryVars, historyVars, CreateWorktree,
      Notify, RemoveWorktree
<1> QED
  BY <1>1, <1>2, <1>3, <1>4, <1>5, <1>6, <1>7, <1>8
  DEF WorktreesNext, Calling, Refreshed, Rewalked, Watched, Leave, treeVars,
      registryVars, historyVars, BeginWalk, WalkFile, WalkFails, Verify, WalkOrphaned,
      BecomeReady, AskToWatch, DropData, RefreshCompare, ReindexStart, ReindexLock,
      ReindexClear, ReindexTake, ReindexWalked, ReindexEnd, InitializationComplete,
      HandleCommand, TakeBatch, WriteChange

\* The registry knows what was there, and what has left it is registered anew or not at all.
LEMMA RegistryKept ==
  ASSUME WorktreesTypeOK, CallInv, EnteredInv, RegistryInv, WorktreesNext
  PROVE  RegistryInv'
<1>0. RegistryStep /\ \A w \in Roots : Registered(w)' => w \in Known'
  BY RegistrySteps DEF RegistryInv, RegistryStep
<1>1. CASE UNCHANGED <<order, repoState, found, dropping>>
  BY <1>1, <1>0 DEF RegistryInv, RegistryStep, Known, Registered
<1>2. ASSUME NEW c \in Callers, NEW w \in Roots, Resolve(c, w) PROVE RegistryInv'
  <2>1. PICK v \in Roots : Unregister(c, v) \/ UNCHANGED <<registryVars, dropping, replaced>>
    BY <1>2 DEF Resolve, Enter
  <2>2. \/ UNCHANGED found
        \/ \E b \in Droppers : found' = [found EXCEPT ![b] = present]
    BY <1>2 DEF Resolve, Enter, refreshVars, StartRefresh, Droppers
  <2>3. \A x \in Roots : Registered(x)' \/ repoState'[x] = "Registered"
    BY <2>1, UnregisterMeans DEF RegistryInv, Registered, registryVars, Droppers
  <2>4. \A b \in Droppers : found'[b] \subseteq Known'
    BY <2>2, <1>0 DEF RegistryInv, RegistryStep, Known, WorktreesTypeOK
  <2>5. \A b \in Droppers : dropping'[b] = NoRoot \/ dropping'[b] \in replaced'
    <3>1. \/ UNCHANGED dropping
          \/ v \in replaced' /\ dropping' = [dropping EXCEPT ![c] = v]
      BY <2>1, UnregisterMeans DEF Droppers
    <3> QED
      BY <3>1, <1>0 DEF RegistryInv, RegistryStep, WorktreesTypeOK
  <2> QED
    BY <1>0, <2>3, <2>4, <2>5 DEF RegistryInv
<1>3. ASSUME NEW c \in Callers, Resolved(c) PROVE RegistryInv'
  <2>1. PICK v \in Roots : Unregister(c, v) \/ UNCHANGED <<registryVars, dropping, replaced>>
    BY <1>3 DEF Resolved, Enter, CallInv
  <2>2. \/ UNCHANGED found
        \/ \E b \in Droppers : found' = [found EXCEPT ![b] = present]
    BY <1>3 DEF Resolved, Enter, refreshVars, StartRefresh, Droppers
  <2>3. \A x \in Roots : Registered(x)' \/ repoState'[x] = "Registered"
    BY <2>1, UnregisterMeans DEF RegistryInv, Registered, registryVars, Droppers
  <2>4. \A b \in Droppers : found'[b] \subseteq Known'
    BY <2>2, <1>0 DEF RegistryInv, RegistryStep, Known, WorktreesTypeOK
  <2>5. \A b \in Droppers : dropping'[b] = NoRoot \/ dropping'[b] \in replaced'
    <3>1. \/ UNCHANGED dropping
          \/ v \in replaced' /\ dropping' = [dropping EXCEPT ![c] = v]
      BY <2>1, UnregisterMeans DEF Droppers
    <3> QED
      BY <3>1, <1>0 DEF RegistryInv, RegistryStep, WorktreesTypeOK
  <2> QED
    BY <1>0, <2>3, <2>4, <2>5 DEF RegistryInv
<1>4. ASSUME NEW c \in Callers, Check(c) PROVE RegistryInv'
  <2>1. PICK v \in Roots : Unregister(c, v) \/ UNCHANGED <<registryVars, dropping, replaced>>
    BY <1>4 DEF Check, CallInv
  <2>2. \/ UNCHANGED found
        \/ \E b \in Droppers : found' = [found EXCEPT ![b] = present]
    BY <1>4 DEF Check, refreshVars, StartRefresh, Droppers
  <2>3. \A x \in Roots : Registered(x)' \/ repoState'[x] = "Registered"
    BY <2>1, UnregisterMeans DEF RegistryInv, Registered, registryVars, Droppers
  <2>4. \A b \in Droppers : found'[b] \subseteq Known'
    BY <2>2, <1>0 DEF RegistryInv, RegistryStep, Known, WorktreesTypeOK
  <2>5. \A b \in Droppers : dropping'[b] = NoRoot \/ dropping'[b] \in replaced'
    <3>1. \/ UNCHANGED dropping
          \/ v \in replaced' /\ dropping' = [dropping EXCEPT ![c] = v]
      BY <2>1, UnregisterMeans DEF Droppers
    <3> QED
      BY <3>1, <1>0 DEF RegistryInv, RegistryStep, WorktreesTypeOK
  <2> QED
    BY <1>0, <2>3, <2>4, <2>5 DEF RegistryInv
<1>5. ASSUME NEW a \in Droppers, RefreshDrop(a) PROVE RegistryInv'
  <2>1. PICK v \in Roots : Unregister(a, v) \/ UNCHANGED <<registryVars, dropping, replaced>>
    BY <1>5 DEF RefreshDrop, WorktreesTypeOK
  <2>2. \/ UNCHANGED found
        \/ \E b \in Droppers : found' = [found EXCEPT ![b] = present]
    BY <1>5 DEF RefreshDrop, refreshVars, StartRefresh, Droppers
  <2>3. \A x \in Roots : Registered(x)' \/ repoState'[x] = "Registered"
    BY <2>1, UnregisterMeans DEF RegistryInv, Registered, registryVars, Droppers
  <2>4. \A b \in Droppers : found'[b] \subseteq Known'
    BY <2>2, <1>0 DEF RegistryInv, RegistryStep, Known, WorktreesTypeOK
  <2>5. \A b \in Droppers : dropping'[b] = NoRoot \/ dropping'[b] \in replaced'
    <3>1. \/ UNCHANGED dropping
          \/ v \in replaced' /\ dropping' = [dropping EXCEPT ![a] = v]
      BY <2>1, UnregisterMeans DEF Droppers
    <3> QED
      BY <3>1, <1>0 DEF RegistryInv, RegistryStep, WorktreesTypeOK
  <2> QED
    BY <1>0, <2>3, <2>4, <2>5 DEF RegistryInv
<1>6. ASSUME HandleChange PROVE RegistryInv'
  <2>1. PICK v \in Roots : Unregister(WatchTask, v) \/ UNCHANGED <<registryVars, dropping, replaced>>
    BY <1>6 DEF HandleChange, WorktreesTypeOK
  <2>2. \/ UNCHANGED found
        \/ \E b \in Droppers : found' = [found EXCEPT ![b] = present]
    BY <1>6 DEF HandleChange, refreshVars, StartRefresh, Droppers
  <2>3. \A x \in Roots : Registered(x)' \/ repoState'[x] = "Registered"
    BY <2>1, UnregisterMeans DEF RegistryInv, Registered, registryVars, Droppers
  <2>4. \A b \in Droppers : found'[b] \subseteq Known'
    BY <2>2, <1>0 DEF RegistryInv, RegistryStep, Known, WorktreesTypeOK
  <2>5. \A b \in Droppers : dropping'[b] = NoRoot \/ dropping'[b] \in replaced'
    <3>1. \/ UNCHANGED dropping
          \/ v \in replaced' /\ dropping' = [dropping EXCEPT ![WatchTask] = v]
      BY <2>1, UnregisterMeans DEF Droppers
    <3> QED
      BY <3>1, <1>0 DEF RegistryInv, RegistryStep, WorktreesTypeOK
  <2> QED
    BY <1>0, <2>3, <2>4, <2>5 DEF RegistryInv
<1>7. ASSUME NEW c \in Callers, BeginWalk(c) \/ WalkFails(c) \/ WalkOrphaned(c) \/ BecomeReady(c)
      PROVE  RegistryInv'
  BY <1>7, <1>0 DEF RegistryInv, WorktreesTypeOK, Registered, RegistryStep, BeginWalk, SetState,
      refreshVars, WalkFails, WalkOrphaned, BecomeReady
<1>8. ASSUME NEW r \in Reindexers, ReindexTake(r) \/ ReindexWalked(r) PROVE RegistryInv'
  BY <1>8, <1>0 DEF RegistryInv, WorktreesTypeOK, Registered, RegistryStep, ReindexTake, SetState,
      refreshVars, ReindexWalked
<1>9. ASSUME NEW c \in Callers, Verify(c) PROVE RegistryInv'
  BY <1>9, <1>0 DEF RegistryInv, WorktreesTypeOK, Registered, RegistryStep, EnteredInv, Indexing,
      Known, Droppers, Verify, registryVars, refreshVars
<1>10. ASSUME NEW a \in Droppers, DropData(a) PROVE RegistryInv'
  BY <1>10, <1>0 DEF RegistryInv, WorktreesTypeOK, Registered, RegistryStep, Known, DropData,
      registryVars, refreshVars
<1>11. ASSUME NEW a \in Droppers, RefreshRegister(a) PROVE RegistryInv'
  <2>1. \A w \in Roots : Registered(w)' \/ repoState'[w] = "Registered"
    BY <1>11, RegisterMeans DEF RegistryInv, RefreshRegister
  <2>2. \A b \in Droppers : found'[b] \subseteq Known'
    BY <1>11, <1>0 DEF RegistryInv, RegistryStep, Known, WorktreesTypeOK, RefreshRegister
  <2> QED
    BY <1>11, <1>0, <2>1, <2>2 DEF RegistryInv, RegistryStep, RefreshRegister
<1>12. ASSUME TakeBatch PROVE RegistryInv'
  <2>1. UNCHANGED <<order, repoState, dropping>>
    BY <1>12 DEF TakeBatch, registryVars
  <2> QED
    BY <1>12, <2>1, <1>0, TakeBatchMeans
    DEF RegistryInv, RegistryStep, Known, WorktreesTypeOK, Registered
<1> QED
  BY <1>1, <1>2, <1>3, <1>4, <1>5, <1>6, <1>7, <1>8, <1>9, <1>10, <1>11, <1>12
  DEF WorktreesNext, Calling, Refreshed, Rewalked, Watched, Leave, registryVars,
      refreshVars, WalkFile, AskToWatch, RefreshCompare, ReindexStart, ReindexLock,
      ReindexClear, ReindexEnd, InitializationComplete, HandleCommand, WriteChange,
      CreateWorktree, RemoveWorktree

\* A call goes for the lock of what it found registered.
LEMMA EnteredKept ==
  ASSUME WorktreesTypeOK, CallInv, RegistryInv, EnteredInv, WorktreesNext
  PROVE  EnteredInv'
<1>0. RegistryStep
  BY RegistrySteps
<1>1. CASE UNCHANGED <<callAt, callRoot>>
  BY <1>1, <1>0 DEF EnteredInv, CallInv, RegistryStep, Indexing
<1>2. ASSUME NEW c \in Callers, NEW w \in Roots, Resolve(c, w) PROVE EnteredInv'
  <2>1. callRoot' = [callRoot EXCEPT ![c] = w]
    BY <1>2 DEF Resolve
  <2>2. \/ \E at \in {"leave", "refresh"} : callAt' = [callAt EXCEPT ![c] = at]
        \/ Registered(w) /\ callAt' = [callAt EXCEPT ![c] = "lock"]
    BY <1>2 DEF Resolve, Enter
  <2> QED
    BY <1>0, <2>1, <2>2 DEF EnteredInv, CallInv, RegistryStep, WorktreesTypeOK, Indexing
<1>3. ASSUME NEW c \in Callers, Resolved(c) PROVE EnteredInv'
  <2>1. UNCHANGED callRoot /\ callRoot[c] \in Roots
    BY <1>3 DEF Resolved, CallInv
  <2>2. \/ callAt' = [callAt EXCEPT ![c] = "leave"]
        \/ Registered(callRoot[c]) /\ callAt' = [callAt EXCEPT ![c] = "lock"]
    BY <1>3 DEF Resolved, Enter
  <2> QED
    BY <1>0, <2>1, <2>2, SMTT(30) DEF EnteredInv, CallInv, RegistryStep, WorktreesTypeOK, Indexing
<1>4. ASSUME NEW c \in Callers, Leave(c) PROVE EnteredInv'
  <2>1. /\ callAt' = [callAt EXCEPT ![c] = "done"]
        /\ callRoot' = [callRoot EXCEPT ![c] = NoRoot]
    BY <1>4 DEF Leave
  <2> QED
    BY <1>0, <2>1 DEF EnteredInv, CallInv, RegistryStep, WorktreesTypeOK, Indexing
<1>5. ASSUME NEW c \in Callers, Check(c) \/ BeginWalk(c) \/ WalkFails(c) \/ Verify(c) \/ WalkOrphaned(c) \/ BecomeReady(c) \/ AskToWatch(c)
      PROVE  EnteredInv'
  <2>1. UNCHANGED callRoot /\ callAt[c] \in Indexing \cup {"lock"}
    BY <1>5 DEF Indexing, Check, BeginWalk, WalkFails, Verify, WalkOrphaned, BecomeReady, AskToWatch
  <2>2. \E at : callAt' = [callAt EXCEPT ![c] = at]
    BY <1>5 DEF Check, BeginWalk, WalkFails, Verify, WalkOrphaned, BecomeReady, AskToWatch
  <2> QED
    BY <1>0, <2>1, <2>2, SMTT(30) DEF EnteredInv, CallInv, RegistryStep, WorktreesTypeOK, Indexing
<1> QED
  BY <1>1, <1>2, <1>3, <1>4, <1>5
  DEF WorktreesNext, Calling, Refreshed, Rewalked, Watched, WalkFile, DropData,
      callVars, RefreshCompare, RefreshDrop, RefreshRegister, ReindexStart, ReindexLock,
      ReindexClear, ReindexTake, ReindexWalked, ReindexEnd, InitializationComplete,
      HandleCommand, TakeBatch, HandleChange, WriteChange, CreateWorktree,
      RemoveWorktree

\* The watcher is asked to watch what was there and to let go what was removed.
LEMMA CommandKept ==
  ASSUME WorktreesTypeOK, CallInv, RegistryInv, EnteredInv, CommandInv, WorktreesNext
  PROVE  CommandInv'
<1>0. RegistryStep
  BY RegistrySteps
<1>1. CASE UNCHANGED <<commands, watchedPaths, osWatched>>
  BY <1>1, <1>0 DEF CommandInv, RegistryStep
<1>2. ASSUME NEW c \in Callers, AskToWatch(c) PROVE CommandInv'
  <2>1. commands' = Append(commands, [kind |-> "Watch", root |-> callRoot[c]])
    BY <1>2 DEF AskToWatch
  <2>2. callRoot[c] \in Roots /\ callRoot[c] \in Known
    BY <1>2 DEF AskToWatch, CallInv, EnteredInv, RegistryInv, Indexing, Known
  <2> QED
    BY <1>2, <1>0, <2>1, <2>2, AppendProperties
    DEF CommandInv, RegistryStep, WorktreesTypeOK, AskToWatch, watcherVars
<1>3. ASSUME NEW a \in Droppers, DropData(a) PROVE CommandInv'
  <2>1. commands' = Append(commands, [kind |-> "Unwatch", root |-> dropping[a]])
    BY <1>3 DEF DropData
  <2>2. dropping[a] \in Roots /\ dropping[a] \in replaced
    BY <1>3 DEF DropData, RegistryInv, WorktreesTypeOK
  <2> QED
    BY <1>3, <1>0, <2>1, <2>2, AppendProperties
    DEF CommandInv, RegistryStep, WorktreesTypeOK, DropData, watcherVars, Known
<1>4. ASSUME HandleCommand PROVE CommandInv'
  <2>1. \A i \in DOMAIN commands' : commands'[i] = commands[i + 1] /\ i + 1 \in DOMAIN commands
    BY <1>4, HeadTailProperties DEF HandleCommand, WorktreesTypeOK
  <2>2. watchedPaths' \ replaced' \subseteq osWatched'
    BY <1>4, <1>0 DEF HandleCommand, CommandInv, RegistryStep, watcherVars
  <2> QED
    BY <1>0, <2>1, <2>2 DEF CommandInv, RegistryStep
<1>5. ASSUME NEW w \in Roots, RemoveWorktree(w) PROVE CommandInv'
  <2>1. UNCHANGED <<commands, watchedPaths>>
    BY <1>5 DEF RemoveWorktree
  <2>2. osWatched' = osWatched \ {w} /\ replaced' = replaced \cup {w}
    BY <1>5 DEF RemoveWorktree
  <2> QED
    BY <1>0, <2>1, <2>2 DEF CommandInv, RegistryStep
<1> QED
  BY <1>1, <1>2, <1>3, <1>4, <1>5, ZenonT(60)
  DEF WorktreesNext, Calling, Refreshed, Rewalked, Watched, Resolve, watcherVars,
      Resolved, Leave, Check, BeginWalk, WalkFile, WalkFails, Verify, WalkOrphaned,
      BecomeReady, RefreshCompare, RefreshDrop, RefreshRegister, ReindexStart,
      ReindexLock, ReindexClear, ReindexTake, ReindexWalked, ReindexEnd,
      InitializationComplete, TakeBatch, HandleChange, WriteChange, CreateWorktree

-----------------------------------------------------------------------------
(* What was removed. *)

\* Whoever writes of a worktree, or leaves what is written, drops it or is remembered.
LEMMA DropKept ==
  ASSUME WorktreesTypeOK, CallInv, RemovedIsDropped, WorktreesNext
  PROVE  RemovedIsDropped'
<1>1. CASE UNCHANGED <<order, orphaned, dropping, callRoot, callAt, documents>>
  BY <1>1 DEF RemovedIsDropped, Dropping, Registered
<1>2. ASSUME NEW c \in Callers, NEW w \in Roots, Resolve(c, w) PROVE RemovedIsDropped'
  <2>1. PICK v \in Roots : Unregister(c, v) \/ UNCHANGED <<registryVars, dropping, replaced>>
    BY <1>2 DEF Resolve, Enter
  <2>2. \A d \in Callers : callAt[d] = "walk" => callAt'[d] = "walk" /\ callRoot'[d] = callRoot[d]
    BY <1>2 DEF Resolve, Enter, WorktreesTypeOK
  <2>3. UNCHANGED <<documents, orphaned>> /\ dropping[c] = NoRoot
    BY <1>2 DEF Resolve, dataVars, CallInv
  <2>4. \A x \in Roots : Registered(x) => Registered(x)' \/ Dropping(x)'
    <3>1. CASE UNCHANGED registryVars
      BY <3>1 DEF Registered, registryVars
    <3>2. CASE Unregister(c, v) /\ ~ Registered(v)
      BY <3>2, UnregisterMeans DEF Droppers
    <3>3. CASE Unregister(c, v) /\ Registered(v)
      <4>1. dropping' = [dropping EXCEPT ![c] = v] /\ dropping' \in [Droppers -> Roots \cup {NoRoot}]
        BY <3>3, UnregisterMeans DEF Droppers
      <4>2. c \in Droppers /\ dropping \in [Droppers -> Roots \cup {NoRoot}]
        BY DEF Droppers, WorktreesTypeOK
      <4>3. Dropping(v)'
        BY <4>1, <4>2 DEF Dropping
      <4> QED
        BY <3>3, <4>3, UnregisterMeans DEF Droppers
    <3> QED
      BY <2>1, <3>1, <3>2, <3>3
  <2>5. \A x \in Roots : Dropping(x) => Dropping(x)'
    <3>1. UNCHANGED dropping \/ dropping' = [dropping EXCEPT ![c] = v]
      BY <2>1 DEF Unregister
    <3> QED
      BY <2>3, <3>1, RootsAssumption DEF Dropping, WorktreesTypeOK
  <2> QED
    BY <2>2, <2>3, <2>4, <2>5 DEF RemovedIsDropped
<1>3. ASSUME NEW c \in Callers, Resolved(c) PROVE RemovedIsDropped'
  <2>1. PICK v \in Roots : Unregister(c, v) \/ UNCHANGED <<registryVars, dropping, replaced>>
    BY <1>3 DEF Resolved, Enter, CallInv
  <2>2. \A d \in Callers : callAt[d] = "walk" => callAt'[d] = "walk" /\ callRoot'[d] = callRoot[d]
    BY <1>3 DEF Resolved, Enter, WorktreesTypeOK
  <2>3. UNCHANGED <<documents, orphaned>> /\ dropping[c] = NoRoot
    BY <1>3 DEF Resolved, dataVars, CallInv
  <2>4. \A x \in Roots : Registered(x) => Registered(x)' \/ Dropping(x)'
    <3>1. CASE UNCHANGED registryVars
      BY <3>1 DEF Registered, registryVars
    <3>2. CASE Unregister(c, v) /\ ~ Registered(v)
      BY <3>2, UnregisterMeans DEF Droppers
    <3>3. CASE Unregister(c, v) /\ Registered(v)
      <4>1. dropping' = [dropping EXCEPT ![c] = v] /\ dropping' \in [Droppers -> Roots \cup {NoRoot}]
        BY <3>3, UnregisterMeans DEF Droppers
      <4>2. c \in Droppers /\ dropping \in [Droppers -> Roots \cup {NoRoot}]
        BY DEF Droppers, WorktreesTypeOK
      <4>3. Dropping(v)'
        BY <4>1, <4>2 DEF Dropping
      <4> QED
        BY <3>3, <4>3, UnregisterMeans DEF Droppers
    <3> QED
      BY <2>1, <3>1, <3>2, <3>3
  <2>5. \A x \in Roots : Dropping(x) => Dropping(x)'
    <3>1. UNCHANGED dropping \/ dropping' = [dropping EXCEPT ![c] = v]
      BY <2>1 DEF Unregister
    <3> QED
      BY <2>3, <3>1, RootsAssumption DEF Dropping, WorktreesTypeOK
  <2> QED
    BY <2>2, <2>3, <2>4, <2>5 DEF RemovedIsDropped
<1>4. ASSUME NEW c \in Callers, Check(c) PROVE RemovedIsDropped'
  <2>1. PICK v \in Roots : Unregister(c, v) \/ UNCHANGED <<registryVars, dropping, replaced>>
    BY <1>4 DEF Check, CallInv
  <2>2. \A d \in Callers : callAt[d] = "walk" => callAt'[d] = "walk" /\ callRoot'[d] = callRoot[d]
    BY <1>4 DEF Check, WorktreesTypeOK
  <2>3. UNCHANGED <<documents, orphaned>> /\ dropping[c] = NoRoot
    BY <1>4 DEF Check, dataVars, CallInv
  <2>4. \A x \in Roots : Registered(x) => Registered(x)' \/ Dropping(x)'
    <3>1. CASE UNCHANGED registryVars
      BY <3>1 DEF Registered, registryVars
    <3>2. CASE Unregister(c, v) /\ ~ Registered(v)
      BY <3>2, UnregisterMeans DEF Droppers
    <3>3. CASE Unregister(c, v) /\ Registered(v)
      <4>1. dropping' = [dropping EXCEPT ![c] = v] /\ dropping' \in [Droppers -> Roots \cup {NoRoot}]
        BY <3>3, UnregisterMeans DEF Droppers
      <4>2. c \in Droppers /\ dropping \in [Droppers -> Roots \cup {NoRoot}]
        BY DEF Droppers, WorktreesTypeOK
      <4>3. Dropping(v)'
        BY <4>1, <4>2 DEF Dropping
      <4> QED
        BY <3>3, <4>3, UnregisterMeans DEF Droppers
    <3> QED
      BY <2>1, <3>1, <3>2, <3>3
  <2>5. \A x \in Roots : Dropping(x) => Dropping(x)'
    <3>1. UNCHANGED dropping \/ dropping' = [dropping EXCEPT ![c] = v]
      BY <2>1 DEF Unregister
    <3> QED
      BY <2>3, <3>1, RootsAssumption DEF Dropping, WorktreesTypeOK
  <2> QED
    BY <2>2, <2>3, <2>4, <2>5 DEF RemovedIsDropped
<1>5. ASSUME NEW a \in Droppers, RefreshDrop(a) PROVE RemovedIsDropped'
  <2>1. PICK v \in Roots : Unregister(a, v) \/ UNCHANGED <<registryVars, dropping, replaced>>
    BY <1>5 DEF RefreshDrop, WorktreesTypeOK
  <2>2. \A d \in Callers : callAt[d] = "walk" => callAt'[d] = "walk" /\ callRoot'[d] = callRoot[d]
    BY <1>5 DEF RefreshDrop, WorktreesTypeOK, callVars
  <2>3. UNCHANGED <<documents, orphaned>> /\ dropping[a] = NoRoot
    BY <1>5 DEF RefreshDrop, dataVars, CallInv
  <2>4. \A x \in Roots : Registered(x) => Registered(x)' \/ Dropping(x)'
    <3>1. CASE UNCHANGED registryVars
      BY <3>1 DEF Registered, registryVars
    <3>2. CASE Unregister(a, v) /\ ~ Registered(v)
      BY <3>2, UnregisterMeans DEF Droppers
    <3>3. CASE Unregister(a, v) /\ Registered(v)
      <4>1. dropping' = [dropping EXCEPT ![a] = v] /\ dropping' \in [Droppers -> Roots \cup {NoRoot}]
        BY <3>3, UnregisterMeans DEF Droppers
      <4>2. a \in Droppers /\ dropping \in [Droppers -> Roots \cup {NoRoot}]
        BY DEF Droppers, WorktreesTypeOK
      <4>3. Dropping(v)'
        BY <4>1, <4>2 DEF Dropping
      <4> QED
        BY <3>3, <4>3, UnregisterMeans DEF Droppers
    <3> QED
      BY <2>1, <3>1, <3>2, <3>3
  <2>5. \A x \in Roots : Dropping(x) => Dropping(x)'
    <3>1. UNCHANGED dropping \/ dropping' = [dropping EXCEPT ![a] = v]
      BY <2>1 DEF Unregister
    <3> QED
      BY <2>3, <3>1, RootsAssumption DEF Dropping, WorktreesTypeOK
  <2> QED
    BY <2>2, <2>3, <2>4, <2>5 DEF RemovedIsDropped
<1>6. ASSUME HandleChange PROVE RemovedIsDropped'
  <2>1. PICK v \in Roots : Unregister(WatchTask, v) \/ UNCHANGED <<registryVars, dropping, replaced>>
    BY <1>6 DEF HandleChange, WorktreesTypeOK
  <2>2. \A d \in Callers : callAt[d] = "walk" => callAt'[d] = "walk" /\ callRoot'[d] = callRoot[d]
    BY <1>6 DEF HandleChange, WorktreesTypeOK, callVars
  <2>3. UNCHANGED <<documents, orphaned>> /\ dropping[WatchTask] = NoRoot
    BY <1>6 DEF HandleChange, dataVars, CallInv
  <2>4. \A x \in Roots : Registered(x) => Registered(x)' \/ Dropping(x)'
    <3>1. CASE UNCHANGED registryVars
      BY <3>1 DEF Registered, registryVars
    <3>2. CASE Unregister(WatchTask, v) /\ ~ Registered(v)
      BY <3>2, UnregisterMeans DEF Droppers
    <3>3. CASE Unregister(WatchTask, v) /\ Registered(v)
      <4>1. dropping' = [dropping EXCEPT ![WatchTask] = v] /\ dropping' \in [Droppers -> Roots \cup {NoRoot}]
        BY <3>3, UnregisterMeans DEF Droppers
      <4>2. WatchTask \in Droppers /\ dropping \in [Droppers -> Roots \cup {NoRoot}]
        BY DEF Droppers, WorktreesTypeOK
      <4>3. Dropping(v)'
        BY <4>1, <4>2 DEF Dropping
      <4> QED
        BY <3>3, <4>3, UnregisterMeans DEF Droppers
    <3> QED
      BY <2>1, <3>1, <3>2, <3>3
  <2>5. \A x \in Roots : Dropping(x) => Dropping(x)'
    <3>1. UNCHANGED dropping \/ dropping' = [dropping EXCEPT ![WatchTask] = v]
      BY <2>1 DEF Unregister
    <3> QED
      BY <2>3, <3>1, RootsAssumption DEF Dropping, WorktreesTypeOK
  <2> QED
    BY <2>2, <2>3, <2>4, <2>5 DEF RemovedIsDropped
<1>7. ASSUME NEW c \in Callers, Leave(c) \/ BeginWalk(c) \/ WalkOrphaned(c) \/ BecomeReady(c) \/ AskToWatch(c)
      PROVE  RemovedIsDropped'
  <2>1. \A d \in Callers : callAt[d] = "walk" => callAt'[d] = "walk" /\ callRoot'[d] = callRoot[d]
    BY <1>7 DEF Leave, BeginWalk, WalkOrphaned, BecomeReady, AskToWatch, WorktreesTypeOK
  <2>2. UNCHANGED <<order, documents, orphaned, dropping>>
    BY <1>7
    DEF Leave, BeginWalk, WalkOrphaned, BecomeReady, AskToWatch, dataVars, registryVars,
        historyVars
  <2> QED
    BY <2>1, <2>2 DEF RemovedIsDropped, Dropping, Registered
<1>8. ASSUME NEW c \in Callers, WalkFile(c) PROVE RemovedIsDropped'
  BY <1>8 DEF RemovedIsDropped, WorktreesTypeOK, Dropping, Registered, WalkFile, registryVars,
      historyVars
<1>9. ASSUME NEW c \in Callers, WalkFails(c) PROVE RemovedIsDropped'
  BY <1>9 DEF RemovedIsDropped, WorktreesTypeOK, Dropping, Registered, WalkFails, SetState,
      dataVars
<1>10. ASSUME NEW c \in Callers, Verify(c) PROVE RemovedIsDropped'
  <2>1. UNCHANGED <<order, documents, orphaned, callRoot>> /\ callAt[c] = "walk"
    BY <1>10 DEF Verify, registryVars, dataVars, historyVars
  <2>2. \A d \in Callers \ {c} : callAt'[d] = callAt[d]
    BY <1>10 DEF Verify, WorktreesTypeOK
  <2>3. Registered(callRoot[c]) \/ Dropping(callRoot[c])'
    BY <1>10 DEF Verify, WorktreesTypeOK, Dropping, Droppers
  <2>4. \A x \in Roots : Dropping(x) => Dropping(x)'
    <3>1. dropping[c] = NoRoot /\ callRoot[c] \in Roots
      BY <1>10 DEF Verify, CallInv
    <3>2. UNCHANGED dropping \/ dropping' = [dropping EXCEPT ![c] = callRoot[c]]
      BY <1>10 DEF Verify
    <3> QED
      BY <3>1, <3>2, RootsAssumption DEF Dropping, WorktreesTypeOK
  <2> QED
    BY <2>1, <2>2, <2>3, <2>4 DEF RemovedIsDropped, Registered
<1>11. ASSUME NEW a \in Droppers, DropData(a) PROVE RemovedIsDropped'
  BY <1>11 DEF RemovedIsDropped, WorktreesTypeOK, Dropping, Registered, DropData, registryVars,
      callVars
<1>12. ASSUME NEW a \in Droppers, RefreshRegister(a) PROVE RemovedIsDropped'
  BY <1>12, RegisterMeans DEF RemovedIsDropped, Dropping, RefreshRegister, callVars, historyVars
<1>13. ASSUME NEW r \in Reindexers, ReindexClear(r) PROVE RemovedIsDropped'
  BY <1>13 DEF RemovedIsDropped, WorktreesTypeOK, ReindexClear, registryVars, callVars
<1>14. ASSUME NEW r \in Reindexers, ReindexWalked(r) PROVE RemovedIsDropped'
  <2>1. PICK w : w = reindexRoot[r] /\ w \in Roots
    BY <1>14 DEF WorktreesTypeOK, ReindexWalked
  <2>2. UNCHANGED <<order, dropping, callAt, callRoot>>
    BY <1>14 DEF ReindexWalked, callVars
  <2>3. orphaned' = IF Registered(w) THEN orphaned ELSE orphaned \cup {w}
    BY <1>14, <2>1 DEF ReindexWalked
  <2>4. \A x \in Roots \ {w} : documents'[x] = documents[x]
    BY <1>14, <2>1 DEF ReindexWalked, WorktreesTypeOK
  <2> QED
    BY <2>1, <2>2, <2>3, <2>4 DEF RemovedIsDropped, Dropping, Registered
<1>15. ASSUME WriteChange PROVE RemovedIsDropped'
  <2>1. UNCHANGED <<order, dropping, callAt, callRoot>> /\ writing \in Roots
    BY <1>15 DEF WriteChange, registryVars, callVars, WorktreesTypeOK
  <2>2. CASE UNCHANGED <<documents, orphaned>>
    BY <2>1, <2>2 DEF RemovedIsDropped, Dropping, Registered
  <2>3. CASE orphaned' = IF Registered(writing) THEN orphaned ELSE orphaned \cup {writing}
    <3>1. \A x \in Roots \ {writing} : documents'[x] = documents[x]
      BY <1>15 DEF WriteChange, WorktreesTypeOK, dataVars
    <3> QED
      BY <2>1, <2>3, <3>1 DEF RemovedIsDropped, Dropping, Registered
  <2> QED
    BY <1>15, <2>2, <2>3 DEF WriteChange, dataVars
<1> QED
  BY <1>1, <1>2, <1>3, <1>4, <1>5, <1>6, <1>7, <1>8, <1>9, <1>10, <1>11, <1>12, <1>13,
     <1>14, <1>15
  DEF WorktreesNext, Calling, Refreshed, Rewalked, Watched, RefreshCompare,
      registryVars, dataVars, callVars, historyVars, ReindexStart, ReindexLock,
      ReindexTake, ReindexEnd, InitializationComplete, HandleCommand, TakeBatch,
      CreateWorktree, RemoveWorktree

-----------------------------------------------------------------------------
(* The walk of a call. *)

\* One call at a time has to do with a worktree after Check.
LEMMA OneCallPerWorktree ==
  ASSUME LockInv, NEW c \in Callers, NEW d \in Callers,
         callAt[c] \in Indexing, callAt[d] \in Indexing, callRoot[c] = callRoot[d]
  PROVE  c = d
BY DEF LockInv

\* What a call walks stays in the indexes: whoever could take it out waits or has noted that it went.
LEMMA WalkKept ==
  ASSUME WorktreesTypeOK, CallInv, LockInv, RegistryInv, EnteredInv, WalkInv, WorktreesNext
  PROVE  WalkInv'
<1>0. RegistryStep
  BY RegistrySteps
<1>1. CASE UNCHANGED <<callAt, callRoot, disturbed, replaced, repoState, reindexAt, reindexJobs, documents, unwalked>>
  BY <1>1 DEF WalkInv, Undisturbed, Walked
<1>2. ASSUME NEW c \in Callers, NEW w \in Roots, Resolve(c, w) PROVE WalkInv'
  <2> SUFFICES ASSUME NEW d \in Callers, Undisturbed(d)' PROVE Walked(d)'
    BY DEF WalkInv
  <2>1. /\ d # c /\ callAt'[d] = callAt[d] /\ callRoot'[d] = callRoot[d]
        /\ UNCHANGED <<reindexAt, reindexJobs, documents, unwalked>>
    BY <1>2 DEF Resolve, Enter, WorktreesTypeOK, Undisturbed, dataVars, reindexVars
  <2>2. callRoot[d] \in Roots /\ Undisturbed(d) /\ Walked(d)
    BY <1>0, <2>1, <1>2
    DEF WalkInv, Undisturbed, RegistryStep, CallInv, Resolve, WorktreesTypeOK, historyVars
  <2>3. PICK v \in Roots : Unregister(c, v) \/ UNCHANGED <<registryVars, dropping, replaced>>
    BY <1>2 DEF Resolve, Enter
  <2>4. repoState'[callRoot[d]] = repoState[callRoot[d]]
    BY <2>1, <2>2, <2>3, UnregisterMeans
    DEF registryVars, Droppers, Undisturbed, WorktreesTypeOK
  <2> QED
    BY <2>1, <2>2, <2>4 DEF Walked
<1>3. ASSUME NEW c \in Callers, Resolved(c) PROVE WalkInv'
  <2> SUFFICES ASSUME NEW d \in Callers, Undisturbed(d)' PROVE Walked(d)'
    BY DEF WalkInv
  <2>1. /\ d # c /\ callAt'[d] = callAt[d] /\ callRoot'[d] = callRoot[d]
        /\ UNCHANGED <<reindexAt, reindexJobs, documents, unwalked>>
    BY <1>3 DEF Resolved, Enter, WorktreesTypeOK, Undisturbed, dataVars, reindexVars
  <2>2. callRoot[d] \in Roots /\ Undisturbed(d) /\ Walked(d)
    BY <1>0, <2>1, <1>3
    DEF WalkInv, Undisturbed, RegistryStep, CallInv, Resolved, WorktreesTypeOK, historyVars
  <2>3. PICK v \in Roots : Unregister(c, v) \/ UNCHANGED <<registryVars, dropping, replaced>>
    BY <1>3 DEF Resolved, Enter, CallInv
  <2>4. repoState'[callRoot[d]] = repoState[callRoot[d]]
    BY <2>1, <2>2, <2>3, UnregisterMeans
    DEF registryVars, Droppers, Undisturbed, WorktreesTypeOK
  <2> QED
    BY <2>1, <2>2, <2>4 DEF Walked
<1>4. ASSUME NEW c \in Callers, Check(c) PROVE WalkInv'
  <2> SUFFICES ASSUME NEW d \in Callers, Undisturbed(d)' PROVE Walked(d)'
    BY DEF WalkInv
  <2>1. /\ d # c /\ callAt'[d] = callAt[d] /\ callRoot'[d] = callRoot[d]
        /\ UNCHANGED <<reindexAt, reindexJobs, documents, unwalked>>
    BY <1>4 DEF Check, WorktreesTypeOK, Undisturbed, dataVars, reindexVars
  <2>2. callRoot[d] \in Roots /\ Undisturbed(d) /\ Walked(d)
    BY <1>0, <2>1, <1>4
    DEF WalkInv, Undisturbed, RegistryStep, CallInv, Check, WorktreesTypeOK, historyVars
  <2>3. PICK v \in Roots : Unregister(c, v) \/ UNCHANGED <<registryVars, dropping, replaced>>
    BY <1>4 DEF Check, CallInv
  <2>4. repoState'[callRoot[d]] = repoState[callRoot[d]]
    BY <2>1, <2>2, <2>3, UnregisterMeans
    DEF registryVars, Droppers, Undisturbed, WorktreesTypeOK
  <2> QED
    BY <2>1, <2>2, <2>4 DEF Walked
<1>5. ASSUME NEW c \in Callers, Leave(c) \/ AskToWatch(c) PROVE WalkInv'
  <2> SUFFICES ASSUME NEW d \in Callers, Undisturbed(d)' PROVE Walked(d)'
    BY DEF WalkInv
  <2>1. /\ d # c /\ callAt'[d] = callAt[d] /\ callRoot'[d] = callRoot[d]
        /\ UNCHANGED <<reindexAt, reindexJobs, documents, unwalked>>
    BY <1>5 DEF Leave, AskToWatch, WorktreesTypeOK, Undisturbed, dataVars, reindexVars
  <2>2. callRoot[d] \in Roots /\ Undisturbed(d) /\ Walked(d)
    BY <1>0, <2>1, <1>5
    DEF WalkInv, Undisturbed, RegistryStep, CallInv, Leave, AskToWatch, WorktreesTypeOK,
        historyVars
  <2> QED
    BY <1>5, <2>1, <2>2 DEF Walked, Leave, AskToWatch, registryVars
<1>6. ASSUME NEW c \in Callers, BeginWalk(c) PROVE WalkInv'
  <2> SUFFICES ASSUME NEW d \in Callers, Undisturbed(d)' PROVE Walked(d)'
    BY DEF WalkInv
  <2>1. UNCHANGED <<callRoot, replaced, documents, reindexAt, reindexJobs>> /\ callRoot[c] \in Roots
    BY <1>6 DEF BeginWalk, dataVars, reindexVars, CallInv
  <2>2. CASE d = c
    <3>1. callRoot[c] \notin disturbed' \cup replaced'
      BY <2>1, <2>2 DEF Undisturbed
    <3>2. \A r \in Reindexers : reindexAt[r] \in {"idle", "done"}
      BY <1>6, <3>1 DEF BeginWalk, Reindexing
    <3>3. Registered(callRoot[c])
      BY <1>6, <2>1, <3>1 DEF BeginWalk, EnteredInv, Indexing
    <3>4. repoState'[callRoot[c]] = "Indexing" /\ unwalked'[c] = WorktreeFiles /\ callAt'[c] = "walk"
      BY <1>6, <2>1, <3>3 DEF BeginWalk, SetState, WorktreesTypeOK
    <3> QED
      BY <2>1, <2>2, <3>2, <3>4 DEF Walked
  <2>3. CASE d # c
    <3>1. callAt'[d] = callAt[d] /\ unwalked'[d] = unwalked[d]
      BY <1>6, <2>3 DEF BeginWalk, WorktreesTypeOK
    <3>2. callRoot[d] # callRoot[c]
      BY <1>6, <2>1, <2>3, <3>1, OneCallPerWorktree DEF BeginWalk, Undisturbed, Indexing
    <3>3. Undisturbed(d) /\ callRoot[d] \in Roots
      BY <1>6, <2>1, <3>1, <3>2 DEF BeginWalk, Undisturbed, CallInv
    <3>4. repoState'[callRoot[d]] = repoState[callRoot[d]]
      BY <1>6, <3>2 DEF SetState, WorktreesTypeOK, BeginWalk
    <3> QED
      BY <2>1, <3>1, <3>3, <3>4 DEF Walked, WalkInv
  <2> QED
    BY <2>2, <2>3
<1>7. ASSUME NEW c \in Callers, WalkFile(c) PROVE WalkInv'
  <2> SUFFICES ASSUME NEW d \in Callers, Undisturbed(d)' PROVE Walked(d)'
    BY DEF WalkInv
  <2>1. UNCHANGED <<callAt, callRoot, repoState, disturbed, replaced, reindexAt, reindexJobs>>
    BY <1>7 DEF WalkFile, registryVars, historyVars, reindexVars
  <2>2. Undisturbed(d) /\ Walked(d) /\ callRoot[d] \in Roots
    BY <2>1 DEF Undisturbed, WalkInv, CallInv
  <2>3. PICK f \in unwalked[c] :
          /\ unwalked' = [unwalked EXCEPT ![c] = unwalked[c] \ {f}]
          /\ documents' = IF callRoot[c] \in present
                          THEN [documents EXCEPT ![callRoot[c]] = documents[callRoot[c]] \cup {f}] ELSE documents
    BY <1>7 DEF WalkFile
  <2>4. documents[callRoot[d]] \subseteq documents'[callRoot[d]]
    BY <2>2, <2>3 DEF WorktreesTypeOK
  <2>5. CASE d = c
    <3>1. callRoot[c] \in present
      BY <2>2, <2>5 DEF Undisturbed, EnteredInv, RegistryInv, Known, Indexing
    <3>2. documents'[callRoot[c]] = documents[callRoot[c]] \cup {f} /\ unwalked'[c] = unwalked[c] \ {f}
      BY <2>2, <2>3, <2>5, <3>1 DEF WorktreesTypeOK
    <3> QED
      BY <1>7, <2>1, <2>2, <2>5, <3>2 DEF Walked, WalkFile
  <2>6. CASE d # c
    <3>1. unwalked'[d] = unwalked[d]
      BY <2>3, <2>6 DEF WorktreesTypeOK
    <3> QED
      BY <2>1, <2>2, <2>4, <3>1 DEF Walked
  <2> QED
    BY <2>5, <2>6
<1>8. ASSUME NEW c \in Callers, WalkFails(c) PROVE WalkInv'
  <2> SUFFICES ASSUME NEW d \in Callers, Undisturbed(d)' PROVE Walked(d)'
    BY DEF WalkInv
  <2>1. /\ d # c /\ callAt'[d] = callAt[d] /\ callRoot'[d] = callRoot[d] /\ unwalked'[d] = unwalked[d]
        /\ UNCHANGED <<reindexAt, reindexJobs, documents>>
    BY <1>8 DEF WalkFails, WorktreesTypeOK, Undisturbed, dataVars, reindexVars
  <2>2. callRoot[d] \in Roots /\ Undisturbed(d) /\ Walked(d)
    BY <1>8, <1>0, <2>1 DEF WalkInv, Undisturbed, RegistryStep, CallInv, WalkFails
  <2>3. callRoot[d] # callRoot[c]
    BY <1>8, <2>1, <2>2, OneCallPerWorktree DEF Undisturbed, Indexing, WalkFails
  <2>4. repoState'[callRoot[d]] = repoState[callRoot[d]]
    <3>1. \E s : SetState(callRoot[c], s)
      BY <1>8 DEF WalkFails
    <3> QED
      BY <2>3, <3>1 DEF SetState, WorktreesTypeOK
  <2> QED
    BY <2>1, <2>2, <2>4 DEF Walked
<1>9. ASSUME NEW c \in Callers, Verify(c) PROVE WalkInv'
  <2> SUFFICES ASSUME NEW d \in Callers, Undisturbed(d)' PROVE Walked(d)'
    BY DEF WalkInv
  <2>1. /\ callRoot' = callRoot
        /\ UNCHANGED <<repoState, disturbed, replaced, reindexAt, reindexJobs, documents, unwalked>>
    BY <1>9 DEF Verify, registryVars, historyVars, reindexVars, dataVars
  <2>2. callAt[d] \in {"walk", "verify"} /\ (callAt'[d] = callAt[d] \/ d = c)
    BY <1>9 DEF Verify, Undisturbed, WorktreesTypeOK
  <2>3. Walked(d)
    BY <2>1, <2>2 DEF WalkInv, Undisturbed
  <2> QED
    BY <1>9, <2>1, <2>2, <2>3 DEF Walked, Verify
<1>10. ASSUME NEW c \in Callers, WalkOrphaned(c) \/ BecomeReady(c) PROVE WalkInv'
  <2> SUFFICES ASSUME NEW d \in Callers, Undisturbed(d)' PROVE Walked(d)'
    BY DEF WalkInv
  <2>1. /\ d # c /\ callAt'[d] = callAt[d] /\ callRoot'[d] = callRoot[d]
        /\ UNCHANGED <<reindexAt, reindexJobs, documents, unwalked>>
    BY <1>10 DEF WalkOrphaned, BecomeReady, WorktreesTypeOK, Undisturbed, dataVars, reindexVars
  <2>2. callRoot[d] \in Roots /\ Undisturbed(d) /\ Walked(d)
    BY <1>0, <2>1, <1>10
    DEF WalkInv, Undisturbed, RegistryStep, CallInv, WalkOrphaned, BecomeReady, WorktreesTypeOK,
        historyVars
  <2>3. callRoot[d] # callRoot[c]
    BY <1>10, <2>1, <2>2, OneCallPerWorktree DEF Undisturbed, Indexing, WalkOrphaned, BecomeReady
  <2>4. repoState'[callRoot[d]] = repoState[callRoot[d]]
    <3>1. \E s : SetState(callRoot[c], s)
      BY <1>10 DEF WalkOrphaned, BecomeReady
    <3> QED
      BY <2>3, <3>1 DEF SetState, WorktreesTypeOK
  <2> QED
    BY <2>1, <2>2, <2>4 DEF Walked
<1>11. ASSUME NEW a \in Droppers, DropData(a) PROVE WalkInv'
  <2> SUFFICES ASSUME NEW d \in Callers, Undisturbed(d)' PROVE Walked(d)'
    BY DEF WalkInv
  <2>1. UNCHANGED <<callAt, callRoot, unwalked, disturbed>>
    BY <1>11 DEF DropData, callVars, historyVars
  <2>2. callRoot[d] \in Roots /\ Undisturbed(d) /\ Walked(d)
    BY <1>0, <2>1 DEF WalkInv, Undisturbed, RegistryStep, CallInv
  <2>3. /\ dropping[a] \in replaced /\ documents' = [documents EXCEPT ![dropping[a]] = {}]
        /\ UNCHANGED <<repoState, replaced, reindexAt, reindexJobs>>
    BY <1>11 DEF DropData, RegistryInv, registryVars, reindexVars
  <2>4. documents'[callRoot[d]] = documents[callRoot[d]]
    BY <2>2, <2>3 DEF Undisturbed, WorktreesTypeOK
  <2> QED
    BY <2>1, <2>2, <2>3, <2>4 DEF Walked
<1>12. ASSUME NEW a \in Droppers, RefreshDrop(a) PROVE WalkInv'
  <2> SUFFICES ASSUME NEW d \in Callers, Undisturbed(d)' PROVE Walked(d)'
    BY DEF WalkInv
  <2>1. UNCHANGED <<callAt, callRoot, unwalked, disturbed>>
    BY <1>12 DEF RefreshDrop, callVars, historyVars
  <2>2. callRoot[d] \in Roots /\ Undisturbed(d) /\ Walked(d)
    BY <1>0, <2>1 DEF WalkInv, Undisturbed, RegistryStep, CallInv
  <2>3. PICK v \in Roots : Unregister(a, v)
    BY <1>12 DEF RefreshDrop, WorktreesTypeOK
  <2>4. repoState'[callRoot[d]] = repoState[callRoot[d]]
    BY <2>1, <2>2, <2>3, UnregisterMeans DEF Undisturbed
  <2> QED
    BY <1>12, <2>1, <2>2, <2>4 DEF Walked, RefreshDrop, dataVars, reindexVars
<1>13. ASSUME HandleChange PROVE WalkInv'
  <2> SUFFICES ASSUME NEW d \in Callers, Undisturbed(d)' PROVE Walked(d)'
    BY DEF WalkInv
  <2>1. UNCHANGED <<callAt, callRoot, unwalked, disturbed>>
    BY <1>13 DEF HandleChange, callVars, historyVars
  <2>2. callRoot[d] \in Roots /\ Undisturbed(d) /\ Walked(d)
    BY <1>0, <2>1 DEF WalkInv, Undisturbed, RegistryStep, CallInv
  <2>3. PICK v \in Roots : Unregister(WatchTask, v) \/ UNCHANGED <<registryVars, dropping, replaced>>
    BY <1>13 DEF HandleChange, WorktreesTypeOK
  <2>4. repoState'[callRoot[d]] = repoState[callRoot[d]]
    BY <2>1, <2>2, <2>3, UnregisterMeans DEF Undisturbed, registryVars, Droppers
  <2> QED
    BY <1>13, <2>1, <2>2, <2>4 DEF Walked, HandleChange, dataVars, reindexVars
<1>14. ASSUME NEW r \in Reindexers, ReindexStart(r) PROVE WalkInv'
  <2> SUFFICES ASSUME NEW d \in Callers, Undisturbed(d)' PROVE Walked(d)'
    BY DEF WalkInv
  <2>1. UNCHANGED <<callAt, callRoot, unwalked, disturbed>>
    BY <1>14 DEF ReindexStart, callVars, historyVars
  <2>2. callRoot[d] \in Roots /\ Undisturbed(d) /\ Walked(d)
    BY <1>0, <2>1 DEF WalkInv, Undisturbed, RegistryStep, CallInv
  <2>3. UNCHANGED <<repoState, documents>>
    BY <1>14 DEF ReindexStart, registryVars, dataVars
  <2>4. \E job \in reindexJobs'[r] : job[2] = callRoot[d]
    <3>1. Registered(callRoot[d]) /\ repoState[callRoot[d]] = "Indexing"
      BY <2>2 DEF Undisturbed, Walked, EnteredInv, Indexing
    <3>2. PICK i \in DOMAIN order : order[i] = callRoot[d]
      BY <3>1 DEF Registered, Contains, WorktreesTypeOK
    <3>3. <<i, order[i]>> \in reindexJobs'[r]
      BY <1>14, <3>1, <3>2 DEF ReindexStart, WorktreesTypeOK
    <3> QED
      BY <3>2, <3>3
  <2> QED
    BY <1>14, <2>1, <2>2, <2>3, <2>4 DEF Walked, ReindexStart, WorktreesTypeOK
<1>15. ASSUME NEW r \in Reindexers, ReindexLock(r) PROVE WalkInv'
  <2> SUFFICES ASSUME NEW d \in Callers, Undisturbed(d)' PROVE Walked(d)'
    BY DEF WalkInv
  <2>1. UNCHANGED <<callAt, callRoot, unwalked, disturbed>>
    BY <1>15 DEF ReindexLock, callVars, historyVars
  <2>2. callRoot[d] \in Roots /\ Undisturbed(d) /\ Walked(d)
    BY <1>0, <2>1 DEF WalkInv, Undisturbed, RegistryStep, CallInv
  <2>3. UNCHANGED <<repoState, documents, reindexAt>>
    BY <1>15 DEF ReindexLock, registryVars, dataVars
  <2>4. PICK taken : indexJobs[taken[2]] = Nobody /\ reindexJobs' = [reindexJobs EXCEPT ![r] = reindexJobs[r] \ {taken}]
    BY <1>15 DEF ReindexLock
  <2>5. taken[2] # callRoot[d]
    BY <2>2, <2>4, TasksAssumption DEF LockInv, Undisturbed, Indexing
  <2>6. ASSUME NEW s \in Reindexers, NEW job \in reindexJobs[s], job[2] = callRoot[d]
        PROVE  job \in reindexJobs'[s]
    BY <2>4, <2>5, <2>6 DEF WorktreesTypeOK
  <2> QED
    BY <2>1, <2>2, <2>3, <2>6 DEF Walked
<1>16. ASSUME NEW r \in Reindexers, ReindexClear(r) \/ ReindexTake(r) \/ ReindexWalked(r) \/ ReindexEnd(r)
       PROVE  WalkInv'
  <2> SUFFICES ASSUME NEW d \in Callers, Undisturbed(d)' PROVE Walked(d)'
    BY DEF WalkInv
  <2>1. UNCHANGED <<callAt, callRoot, disturbed, replaced>>
    BY <1>16 DEF ReindexClear, ReindexTake, ReindexWalked, ReindexEnd, callVars, historyVars
  <2>2. Walked(d)
    BY <2>1 DEF WalkInv, Undisturbed
  <2>3. reindexAt[r] \notin {"idle", "done"} /\ (reindexAt[r] = "lock" => reindexJobs[r] = {})
    BY <1>16 DEF ReindexClear, ReindexTake, ReindexWalked, ReindexEnd
  <2> QED
    BY <2>2, <2>3 DEF Walked
<1>17. ASSUME WriteChange PROVE WalkInv'
  <2> SUFFICES ASSUME NEW d \in Callers, Undisturbed(d)' PROVE Walked(d)'
    BY DEF WalkInv
  <2>1. UNCHANGED <<callAt, callRoot, unwalked, disturbed>>
    BY <1>17 DEF WriteChange, callVars, historyVars
  <2>2. callRoot[d] \in Roots /\ Undisturbed(d) /\ Walked(d)
    BY <1>0, <2>1 DEF WalkInv, Undisturbed, RegistryStep, CallInv
  <2>3. UNCHANGED <<repoState, reindexAt, reindexJobs>>
    BY <1>17 DEF WriteChange, registryVars, reindexVars
  <2>4. documents[callRoot[d]] \subseteq documents'[callRoot[d]]
    BY <1>17, <2>2 DEF WriteChange, dataVars, WorktreesTypeOK
  <2> QED
    BY <2>1, <2>2, <2>3, <2>4 DEF Walked
<1>18. ASSUME NEW w \in Roots, RemoveWorktree(w) PROVE WalkInv'
  <2> SUFFICES ASSUME NEW d \in Callers, Undisturbed(d)' PROVE Walked(d)'
    BY DEF WalkInv
  <2>1. UNCHANGED <<callAt, callRoot, unwalked, disturbed>>
    BY <1>18 DEF RemoveWorktree, callVars, historyVars
  <2>2. callRoot[d] \in Roots /\ Undisturbed(d) /\ Walked(d)
    BY <1>0, <2>1 DEF WalkInv, Undisturbed, RegistryStep, CallInv
  <2>3. UNCHANGED <<repoState, documents, reindexAt, reindexJobs>>
    BY <1>18 DEF RemoveWorktree, registryVars, dataVars, reindexVars
  <2> QED
    BY <2>1, <2>2, <2>3 DEF Walked
<1> QED
  BY <1>1, <1>2, <1>3, <1>4, <1>5, <1>6, <1>7, <1>8, <1>9, <1>10, <1>11, <1>12, <1>13,
     <1>14, <1>15, <1>16, <1>17, <1>18
  DEF WorktreesNext, Calling, Refreshed, Rewalked, Watched, RefreshCompare,
      registryVars, dataVars, callVars, reindexVars, historyVars, RefreshRegister,
      InitializationComplete, HandleCommand, TakeBatch, CreateWorktree

-----------------------------------------------------------------------------
(* What is Ready. *)

\* A worktree is Ready that was, or because its call or a reindex_all has walked it.
ReadyStep ==
  \A w \in Roots \ (disturbed' \cup replaced') : IsReady(w)' =>
    \/ w \notin disturbed /\ IsReady(w)
    \/ w \notin disturbed /\ \E c \in Callers : BecomeReady(c) /\ callRoot[c] = w
    \/ w \notin disturbed /\ \E r \in Reindexers : ReindexWalked(r) /\ reindexRoot[r] = w

\* Every step is of that kind.
LEMMA ReadySteps ==
  ASSUME WorktreesTypeOK, CallInv, RegistryInv, WorktreesNext
  PROVE  ReadyStep
<1>1. CASE UNCHANGED <<order, repoState, disturbed>>
  BY <1>1 DEF ReadyStep, IsReady, Registered
<1>2. ASSUME NEW c \in Callers, NEW w \in Roots, Resolve(c, w) PROVE ReadyStep
  <2>1. PICK v \in Roots : Unregister(c, v) \/ UNCHANGED <<registryVars, dropping, replaced>>
    BY <1>2 DEF Resolve, Enter
  <2>2. UNCHANGED disturbed
    BY <1>2 DEF Resolve
  <2>3. \A x \in Roots : IsReady(x)' => IsReady(x)
    BY <2>1, UnregisterMeans DEF IsReady, Registered, registryVars, Droppers
  <2> QED
    BY <2>2, <2>3 DEF ReadyStep
<1>3. ASSUME NEW c \in Callers, Resolved(c) PROVE ReadyStep
  <2>1. PICK v \in Roots : Unregister(c, v) \/ UNCHANGED <<registryVars, dropping, replaced>>
    BY <1>3 DEF Resolved, Enter, CallInv
  <2>2. UNCHANGED disturbed
    BY <1>3 DEF Resolved
  <2>3. \A x \in Roots : IsReady(x)' => IsReady(x)
    BY <2>1, UnregisterMeans DEF IsReady, Registered, registryVars, Droppers
  <2> QED
    BY <2>2, <2>3 DEF ReadyStep
<1>4. ASSUME NEW c \in Callers, Check(c) PROVE ReadyStep
  <2>1. PICK v \in Roots : Unregister(c, v) \/ UNCHANGED <<registryVars, dropping, replaced>>
    BY <1>4 DEF Check, CallInv
  <2>2. UNCHANGED disturbed
    BY <1>4 DEF Check
  <2>3. \A x \in Roots : IsReady(x)' => IsReady(x)
    BY <2>1, UnregisterMeans DEF IsReady, Registered, registryVars, Droppers
  <2> QED
    BY <2>2, <2>3 DEF ReadyStep
<1>5. ASSUME NEW a \in Droppers, RefreshDrop(a) PROVE ReadyStep
  <2>1. PICK v \in Roots : Unregister(a, v) \/ UNCHANGED <<registryVars, dropping, replaced>>
    BY <1>5 DEF RefreshDrop, WorktreesTypeOK
  <2>2. UNCHANGED disturbed
    BY <1>5 DEF RefreshDrop
  <2>3. \A x \in Roots : IsReady(x)' => IsReady(x)
    BY <2>1, UnregisterMeans DEF IsReady, Registered, registryVars, Droppers
  <2> QED
    BY <2>2, <2>3 DEF ReadyStep
<1>6. ASSUME HandleChange PROVE ReadyStep
  <2>1. PICK v \in Roots : Unregister(WatchTask, v) \/ UNCHANGED <<registryVars, dropping, replaced>>
    BY <1>6 DEF HandleChange, WorktreesTypeOK
  <2>2. UNCHANGED disturbed
    BY <1>6 DEF HandleChange
  <2>3. \A x \in Roots : IsReady(x)' => IsReady(x)
    BY <2>1, UnregisterMeans DEF IsReady, Registered, registryVars, Droppers
  <2> QED
    BY <2>2, <2>3 DEF ReadyStep
<1>7. ASSUME NEW a \in Droppers, RefreshRegister(a) PROVE ReadyStep
  <2>1. UNCHANGED <<repoState, disturbed>>
    BY <1>7 DEF RefreshRegister, historyVars
  <2>2. \A x \in Roots : IsReady(x)' => IsReady(x)
    BY <2>1 DEF RegistryInv, IsReady
  <2> QED
    BY <2>1, <2>2 DEF ReadyStep
<1>8. ASSUME NEW c \in Callers, BeginWalk(c) PROVE ReadyStep
  <2>1. UNCHANGED order /\ callRoot[c] \in Roots /\ SetState(callRoot[c], "Indexing")
    BY <1>8 DEF BeginWalk, CallInv
  <2>2. disturbed \ {callRoot[c]} \subseteq disturbed'
    BY <1>8 DEF BeginWalk
  <2>3. \A x \in Roots : IsReady(x)' => IsReady(x) /\ x # callRoot[c]
    BY <2>1 DEF IsReady, Registered, SetState, WorktreesTypeOK
  <2> QED
    BY <2>2, <2>3 DEF ReadyStep
<1>9. ASSUME NEW c \in Callers, WalkFails(c) \/ WalkOrphaned(c) PROVE ReadyStep
  <2>1. UNCHANGED <<order, disturbed>>
    BY <1>9 DEF WalkFails, WalkOrphaned, historyVars
  <2>2. UNCHANGED repoState \/ \E v : SetState(v, "Failed")
    BY <1>9 DEF WalkFails, WalkOrphaned
  <2>3. \A x \in Roots : IsReady(x)' => IsReady(x)
    BY <2>1, <2>2 DEF IsReady, Registered, SetState, WorktreesTypeOK
  <2> QED
    BY <2>1, <2>3 DEF ReadyStep
<1>10. ASSUME NEW r \in Reindexers, ReindexTake(r) PROVE ReadyStep
  <2>1. UNCHANGED <<order, disturbed>>
    BY <1>10 DEF ReindexTake, historyVars
  <2>2. UNCHANGED repoState \/ \E v : SetState(v, "Failed")
    BY <1>10 DEF ReindexTake
  <2>3. \A x \in Roots : IsReady(x)' => IsReady(x)
    BY <2>1, <2>2 DEF IsReady, Registered, SetState, WorktreesTypeOK
  <2> QED
    BY <2>1, <2>3 DEF ReadyStep
<1>11. ASSUME NEW c \in Callers, BecomeReady(c) PROVE ReadyStep
  <2>1. UNCHANGED <<order, disturbed>> /\ SetState(callRoot[c], "Ready")
    BY <1>11 DEF BecomeReady, historyVars
  <2>2. \A x \in Roots : IsReady(x)' => IsReady(x) \/ x = callRoot[c]
    BY <2>1 DEF IsReady, Registered, SetState, WorktreesTypeOK
  <2> QED
    BY <1>11, <2>1, <2>2 DEF ReadyStep
<1>12. ASSUME NEW r \in Reindexers, ReindexWalked(r) PROVE ReadyStep
  <2>1. UNCHANGED <<order, disturbed>> /\ \E s : SetState(reindexRoot[r], s)
    BY <1>12 DEF ReindexWalked
  <2>2. \A x \in Roots : IsReady(x)' => IsReady(x) \/ x = reindexRoot[r]
    BY <2>1 DEF IsReady, Registered, SetState, WorktreesTypeOK
  <2> QED
    BY <1>12, <2>1, <2>2 DEF ReadyStep
<1> QED
  BY <1>1, <1>2, <1>3, <1>4, <1>5, <1>6, <1>7, <1>8, <1>9, <1>10, <1>11, <1>12
  DEF WorktreesNext, Calling, Refreshed, Rewalked, Watched, Leave, registryVars,
      historyVars, WalkFile, Verify, AskToWatch, DropData, RefreshCompare, ReindexStart,
      ReindexLock, ReindexClear, ReindexEnd, InitializationComplete, HandleCommand,
      TakeBatch, WriteChange, CreateWorktree, RemoveWorktree

\* The worktree's files stay in the indexes, or a reindex_all puts them back.
Complete(w) == documents[w] = WorktreeFiles \/ Rewalking(w)
CompleteStep == \A w \in Roots \ replaced' : IsReady(w) /\ IsReady(w)' /\ Complete(w) => Complete(w)'

\* What was complete stays so, of a worktree that stays Ready.
LEMMA CompleteSteps ==
  ASSUME WorktreesTypeOK, CallInv, RegistryInv, WorktreesNext
  PROVE  CompleteStep
<1>1. CASE UNCHANGED <<documents, reindexRoots, reindexRoot>>
  BY <1>1 DEF CompleteStep, Complete, Rewalking
<1>2. ASSUME NEW c \in Callers, WalkFile(c) PROVE CompleteStep
  <2>1. UNCHANGED <<reindexRoots, reindexRoot>>
    BY <1>2 DEF WalkFile, reindexVars
  <2>2. \A x \in Roots : documents[x] = WorktreeFiles => documents'[x] = WorktreeFiles
    BY <1>2 DEF WalkFile, WorktreesTypeOK
  <2> QED
    BY <2>1, <2>2 DEF CompleteStep, Complete, Rewalking
<1>3. ASSUME WriteChange PROVE CompleteStep
  <2>1. UNCHANGED <<reindexRoots, reindexRoot>>
    BY <1>3 DEF WriteChange, reindexVars
  <2>2. \A x \in Roots : documents[x] = WorktreeFiles => documents'[x] = WorktreeFiles
    <3>1. \/ UNCHANGED documents
          \/ \E f \in WorktreeFiles : documents' = [documents EXCEPT ![writing] = documents[writing] \cup {f}]
      BY <1>3 DEF WriteChange, dataVars
    <3>2. ASSUME NEW f \in WorktreeFiles, NEW x \in Roots, documents[x] = WorktreeFiles,
                 documents' = [documents EXCEPT ![writing] = documents[writing] \cup {f}]
          PROVE  documents'[x] = WorktreeFiles
      <4>1. documents'[x] = documents[x] \/ documents'[x] = documents[x] \cup {f}
        BY <3>2 DEF WorktreesTypeOK
      <4> QED
        BY <3>2, <4>1
    <3> QED
      BY <3>1, <3>2
  <2> QED
    BY <2>1, <2>2 DEF CompleteStep, Complete, Rewalking
<1>4. ASSUME NEW a \in Droppers, DropData(a) PROVE CompleteStep
  <2>1. UNCHANGED <<reindexRoots, reindexRoot, replaced>> /\ dropping[a] \in replaced
    BY <1>4 DEF DropData, reindexVars, RegistryInv
  <2>2. \A x \in Roots \ replaced : documents'[x] = documents[x]
    BY <1>4, <2>1 DEF DropData, WorktreesTypeOK
  <2> QED
    BY <2>1, <2>2 DEF CompleteStep, Complete, Rewalking
<1>5. ASSUME NEW r \in Reindexers, ReindexClear(r) PROVE CompleteStep
  <2>1. \A x \in Roots : IsReady(x) => x \in reindexRoots'[r]
    BY <1>5 DEF ReindexClear, WorktreesTypeOK
  <2> QED
    BY <2>1 DEF CompleteStep, Complete, Rewalking
<1>6. ASSUME NEW r \in Reindexers, ReindexTake(r) PROVE CompleteStep
  <2>1. PICK v \in reindexRoots[r] :
          /\ reindexRoots' = [reindexRoots EXCEPT ![r] = reindexRoots[r] \ {v}]
          /\ \/ reindexRoot' = [reindexRoot EXCEPT ![r] = v]
             \/ SetState(v, "Failed") /\ UNCHANGED reindexRoot
    BY <1>6 DEF ReindexTake
  <2>2. UNCHANGED <<documents, order>> /\ reindexRoot[r] = NoRoot
    BY <1>6 DEF ReindexTake, dataVars
  <2> SUFFICES ASSUME NEW w \in Roots, IsReady(w), IsReady(w)', Rewalking(w) PROVE Rewalking(w)'
    BY <2>2 DEF CompleteStep, Complete
  <2>3. PICK s \in Reindexers : w \in reindexRoots[s] \/ reindexRoot[s] = w
    BY DEF Rewalking
  <2>4. CASE s # r
    BY <2>1, <2>3, <2>4 DEF Rewalking, WorktreesTypeOK
  <2>5. CASE s = r /\ w # v
    BY <2>1, <2>2, <2>3, <2>5, RootsAssumption DEF Rewalking, WorktreesTypeOK
  <2>6. CASE s = r /\ w = v
    <3>1. ~ SetState(v, "Failed")
      BY <2>2, <2>6 DEF SetState, IsReady, Registered, WorktreesTypeOK
    <3> QED
      BY <2>1, <2>6, <3>1 DEF Rewalking, WorktreesTypeOK
  <2> QED
    BY <2>4, <2>5, <2>6
<1>7. ASSUME NEW r \in Reindexers, ReindexWalked(r) PROVE CompleteStep
  <2>1. UNCHANGED <<reindexRoots, order, present, replaced>> /\ reindexRoot[r] \in Roots
    BY <1>7 DEF ReindexWalked, treeVars, WorktreesTypeOK
  <2>2. reindexRoot' = [reindexRoot EXCEPT ![r] = NoRoot]
    BY <1>7 DEF ReindexWalked
  <2>3. \/ /\ documents' = [documents EXCEPT ![reindexRoot[r]] =
                IF reindexRoot[r] \in present THEN WorktreeFiles ELSE documents[reindexRoot[r]]]
           /\ SetState(reindexRoot[r], "Ready")
        \/ UNCHANGED documents /\ SetState(reindexRoot[r], "Failed")
    BY <1>7 DEF ReindexWalked
  <2> SUFFICES ASSUME NEW w \in Roots \ replaced', IsReady(w), IsReady(w)', Complete(w) PROVE Complete(w)'
    BY DEF CompleteStep
  <2>4. CASE w = reindexRoot[r]
    <3>1. w \in present
      BY <2>1 DEF IsReady, RegistryInv, Known
    <3>2. ~ SetState(w, "Failed")
      BY <2>1 DEF SetState, IsReady, Registered, WorktreesTypeOK
    <3>3. documents'[w] = WorktreeFiles
      BY <2>3, <2>4, <3>1, <3>2 DEF WorktreesTypeOK
    <3> QED
      BY <3>3 DEF Complete
  <2>5. CASE w # reindexRoot[r]
    <3>1. documents'[w] = documents[w]
      BY <2>3, <2>5 DEF WorktreesTypeOK
    <3>2. Rewalking(w) => Rewalking(w)'
      BY <2>1, <2>2, <2>5 DEF Rewalking, WorktreesTypeOK
    <3> QED
      BY <3>1, <3>2 DEF Complete
  <2> QED
    BY <2>4, <2>5
<1>8. ASSUME NEW c \in Callers,
             Calling(c) \/ Check(c) \/ WalkFails(c) \/ \E w \in Roots : Resolve(c, w)
      PROVE  WalkFile(c) \/ UNCHANGED <<documents, reindexRoots, reindexRoot>>
  BY <1>8
  DEF Calling, Resolve, dataVars, reindexVars, Resolved, Leave, Check, BeginWalk, WalkFails,
      Verify, WalkOrphaned, BecomeReady, AskToWatch
<1>9. ASSUME NEW a \in Droppers, Refreshed(a) PROVE UNCHANGED <<documents, reindexRoots, reindexRoot>>
  BY <1>9 DEF Refreshed, dataVars, reindexVars, RefreshCompare, RefreshDrop, RefreshRegister
<1>10. ASSUME NEW r \in Reindexers, ReindexStart(r) \/ ReindexLock(r) \/ ReindexEnd(r)
       PROVE  UNCHANGED <<documents, reindexRoots, reindexRoot>>
  BY <1>10 DEF dataVars, ReindexStart, ReindexLock, ReindexEnd
<1>11. ASSUME \/ InitializationComplete \/ HandleCommand \/ TakeBatch \/ HandleChange
              \/ \E w \in Roots : CreateWorktree(w) \/ RemoveWorktree(w)
       PROVE  UNCHANGED <<documents, reindexRoots, reindexRoot>>
  BY <1>11
  DEF dataVars, reindexVars, InitializationComplete, HandleCommand, TakeBatch, HandleChange,
      CreateWorktree, RemoveWorktree
<1> QED
  BY <1>1, <1>2, <1>3, <1>4, <1>5, <1>6, <1>7, <1>8, <1>9, <1>10, <1>11
  DEF WorktreesNext, Refreshed, Rewalked, Watched

\* Ready means complete.
LEMMA ReadyKept ==
  ASSUME WorktreesTypeOK, CallInv, RegistryInv, EnteredInv, WalkInv, ReadyInv, WorktreesNext
  PROVE  ReadyInv'
<1> SUFFICES ASSUME NEW w \in Roots \ (disturbed' \cup replaced'), IsReady(w)' PROVE Complete(w)'
  BY DEF ReadyInv, Complete, Rewalking
<1>1. w \notin replaced
  BY RegistrySteps DEF RegistryStep
<1>2. CASE w \notin disturbed /\ IsReady(w)
  BY <1>1, <1>2, CompleteSteps DEF CompleteStep, ReadyInv, Complete
<1>3. ASSUME w \notin disturbed, NEW c \in Callers, BecomeReady(c), callRoot[c] = w
      PROVE  Complete(w)'
  <2>1. WorktreeFiles \subseteq documents[w] /\ UNCHANGED documents
    BY <1>1, <1>3 DEF BecomeReady, WalkInv, Undisturbed, Walked, dataVars
  <2> QED
    BY <2>1 DEF Complete, WorktreesTypeOK
<1>4. ASSUME w \notin disturbed, NEW r \in Reindexers, ReindexWalked(r), reindexRoot[r] = w
      PROVE  Complete(w)'
  <2>1. Registered(w) /\ w \in present
    BY <1>1, <1>4 DEF ReindexWalked, IsReady, Registered, RegistryInv, Known
  <2>2. ~ SetState(w, "Failed")
    BY <1>4, <2>1 DEF SetState, IsReady, WorktreesTypeOK
  <2>3. documents'[w] = WorktreeFiles
    BY <1>4, <2>1, <2>2 DEF ReindexWalked, WorktreesTypeOK
  <2> QED
    BY <2>3 DEF Complete
<1> QED
  BY <1>2, <1>3, <1>4, ReadySteps DEF ReadyStep

-----------------------------------------------------------------------------
(* What is watched. *)

\* A worktree that was not removed stays watched, or the watcher stays asked to.
WatchStep == \A w \in Roots \ replaced' : ToBeWatched(w) => ToBeWatched(w)'

\* The queue of commands keeps what is asked until the watcher has done it.
LEMMA WatchSteps ==
  ASSUME WorktreesTypeOK, CallInv, RegistryInv, CommandInv, WorktreesNext
  PROVE  WatchStep
<1>1. CASE UNCHANGED <<callAt, callRoot, commands, osWatched>>
  BY <1>1 DEF WatchStep, ToBeWatched
<1>2. ASSUME NEW c \in Callers, NEW w \in Roots, Resolve(c, w) PROVE WatchStep
  <2>1. \A d \in Callers : callAt[d] = "watch" => callAt'[d] = "watch" /\ callRoot'[d] = callRoot[d]
    BY <1>2 DEF Resolve, Enter, WorktreesTypeOK
  <2>2. UNCHANGED <<commands, osWatched>>
    BY <1>2 DEF Resolve, watcherVars
  <2> QED
    BY <2>1, <2>2 DEF WatchStep, ToBeWatched
<1>3. ASSUME NEW c \in Callers, Resolved(c) PROVE WatchStep
  <2>1. \A d \in Callers : callAt[d] = "watch" => callAt'[d] = "watch" /\ callRoot'[d] = callRoot[d]
    BY <1>3 DEF Resolved, Enter, WorktreesTypeOK
  <2>2. UNCHANGED <<commands, osWatched>>
    BY <1>3 DEF Resolved, watcherVars
  <2> QED
    BY <2>1, <2>2 DEF WatchStep, ToBeWatched
<1>4. ASSUME NEW c \in Callers, Check(c) PROVE WatchStep
  <2>1. \A d \in Callers : callAt[d] = "watch" => callAt'[d] = "watch" /\ callRoot'[d] = callRoot[d]
    BY <1>4 DEF Check, WorktreesTypeOK
  <2>2. UNCHANGED <<commands, osWatched>>
    BY <1>4 DEF Check, watcherVars
  <2> QED
    BY <2>1, <2>2 DEF WatchStep, ToBeWatched
<1>5. ASSUME NEW c \in Callers, Leave(c) \/ BeginWalk(c) \/ WalkFails(c) \/ Verify(c) \/ WalkOrphaned(c) \/ BecomeReady(c)
      PROVE  WatchStep
  <2>1. \A d \in Callers : callAt[d] = "watch" => callAt'[d] = "watch" /\ callRoot'[d] = callRoot[d]
    BY <1>5 DEF Leave, BeginWalk, WalkFails, Verify, WalkOrphaned, BecomeReady, WorktreesTypeOK
  <2>2. UNCHANGED <<commands, osWatched>>
    BY <1>5 DEF Leave, BeginWalk, WalkFails, Verify, WalkOrphaned, BecomeReady, watcherVars
  <2> QED
    BY <2>1, <2>2 DEF WatchStep, ToBeWatched
<1>6. ASSUME NEW c \in Callers, AskToWatch(c) PROVE WatchStep
  <2>1. PICK n \in Nat : n = Len(commands)
    BY DEF WorktreesTypeOK
  <2>2. /\ DOMAIN commands = 1 .. n /\ DOMAIN commands' = 1 .. n + 1
        /\ \A i \in 1 .. n : commands'[i] = commands[i]
        /\ commands'[n + 1].root = callRoot[c]
    BY <1>6, <2>1, AppendProperties DEF AskToWatch, CallInv, WorktreesTypeOK
  <2>3. callRoot' = callRoot /\ osWatched' = osWatched /\ \A d \in Callers \ {c} : callAt'[d] = callAt[d]
    BY <1>6 DEF AskToWatch, watcherVars, WorktreesTypeOK
  <2> QED
    BY <2>1, <2>2, <2>3 DEF WatchStep, ToBeWatched
<1>7. ASSUME NEW a \in Droppers, DropData(a) PROVE WatchStep
  <2>1. PICK n \in Nat : n = Len(commands)
    BY DEF WorktreesTypeOK
  <2>2. /\ DOMAIN commands = 1 .. n /\ DOMAIN commands' = 1 .. n + 1
        /\ \A i \in 1 .. n : commands'[i] = commands[i]
    BY <1>7, <2>1, AppendProperties DEF DropData, WorktreesTypeOK
  <2>3. UNCHANGED <<callAt, callRoot, osWatched>>
    BY <1>7 DEF DropData, callVars, watcherVars
  <2> QED
    BY <2>1, <2>2, <2>3 DEF WatchStep, ToBeWatched
<1>8. ASSUME HandleCommand PROVE WatchStep
  <2> SUFFICES ASSUME NEW w \in Roots \ replaced', ToBeWatched(w) PROVE ToBeWatched(w)'
    BY DEF WatchStep
  <2>1. UNCHANGED <<callAt, callRoot, replaced>>
    BY <1>8 DEF HandleCommand, callVars, historyVars
  <2>2. PICK n \in Nat : n = Len(commands) /\ n > 0 /\ DOMAIN commands = 1 .. n
    <3>1. commands \in Seq([kind : {"Watch", "Unwatch"}, root : Roots]) /\ commands # <<>>
      BY <1>8 DEF HandleCommand, WorktreesTypeOK
    <3>2. Len(commands) \in Nat /\ Len(commands) > 0 /\ DOMAIN commands = 1 .. Len(commands)
      BY <3>1, EmptySeq, LenProperties
    <3> QED
      BY <3>2
  <2>3. DOMAIN commands' = 1 .. n - 1 /\ \A i \in 1 .. n - 1 : commands'[i] = commands[i + 1]
    BY <1>8, <2>2, HeadTailProperties DEF HandleCommand, WorktreesTypeOK
  <2>4. Head(commands) = commands[1] /\ commands[1].kind \in {"Watch", "Unwatch"}
    <3>1. commands[1] \in [kind : {"Watch", "Unwatch"}, root : Roots]
      <4>1. 1 \in 1 .. Len(commands)
        BY <2>2
      <4>2. commands \in Seq([kind : {"Watch", "Unwatch"}, root : Roots])
        BY DEF WorktreesTypeOK
      <4> QED
        BY <4>1, <4>2, ElementOfSeq
    <3> QED
      BY <3>1
  <2>5. ASSUME NEW i \in 2 .. n, commands[i].root = w PROVE ToBeWatched(w)'
    <3>1. i - 1 \in DOMAIN commands' /\ commands'[i - 1].root = w
      BY <2>2, <2>3, <2>5
    <3> QED
      BY <3>1 DEF ToBeWatched
  <2>6. CASE commands[1].root = w
    <3>1. w \in present /\ commands[1].kind = "Watch"
      BY <2>1, <2>2, <2>4, <2>6 DEF CommandInv, Known
    <3>2. w \in osWatched'
      BY <1>8, <2>1, <2>4, <2>6, <3>1 DEF HandleCommand, watcherVars, CommandInv
    <3> QED
      BY <3>2 DEF ToBeWatched
  <2>7. CASE w \in osWatched /\ commands[1].root # w
    <3>1. w \in osWatched'
      BY <1>8, <2>4, <2>7 DEF HandleCommand, watcherVars
    <3> QED
      BY <3>1 DEF ToBeWatched
  <2>8. CASE \E c \in Callers : callRoot[c] = w /\ callAt[c] = "watch"
    BY <2>1, <2>8 DEF ToBeWatched
  <2> QED
    BY <2>2, <2>5, <2>6, <2>7, <2>8 DEF ToBeWatched
<1>9. ASSUME NEW w \in Roots, RemoveWorktree(w) PROVE WatchStep
  <2>1. UNCHANGED <<callAt, callRoot, commands>> /\ osWatched' = osWatched \ {w} /\ w \in replaced'
    BY <1>9 DEF RemoveWorktree, callVars
  <2> QED
    BY <2>1 DEF WatchStep, ToBeWatched
<1> QED
  BY <1>1, <1>2, <1>3, <1>4, <1>5, <1>6, <1>7, <1>8, <1>9
  DEF WorktreesNext, Calling, Refreshed, Rewalked, Watched, WalkFile, watcherVars,
      RefreshCompare, callVars, RefreshDrop, RefreshRegister, ReindexStart, ReindexLock,
      ReindexClear, ReindexTake, ReindexWalked, ReindexEnd, InitializationComplete,
      TakeBatch, HandleChange, WriteChange, CreateWorktree

\* A reindex_all walks again what was Ready, and nobody forgets that it disturbs a walk.
RewalkStep ==
  \A w \in Roots : Rewalking(w)' =>
    (Rewalking(w) \/ IsReady(w)) /\ (w \in disturbed => w \in disturbed')

\* Every step is of that kind.
LEMMA RewalkSteps ==
  ASSUME WorktreesTypeOK, RestInv, WorktreesNext
  PROVE  RewalkStep
<1>1. CASE UNCHANGED <<reindexRoots, reindexRoot, disturbed>>
  BY <1>1 DEF RewalkStep, Rewalking
<1>2. ASSUME NEW c \in Callers, BeginWalk(c) PROVE RewalkStep
  <2>1. UNCHANGED <<reindexRoots, reindexRoot, reindexAt>>
    BY <1>2 DEF BeginWalk, reindexVars
  <2>2. CASE Reindexing
    BY <1>2, <2>1, <2>2 DEF RewalkStep, Rewalking, BeginWalk
  <2>3. CASE ~ Reindexing
    <3>1. \A r \in Reindexers : reindexRoots[r] = {} /\ reindexRoot[r] = NoRoot
      BY <2>3 DEF Reindexing, RestInv
    <3> QED
      BY <2>1, <3>1, RootsAssumption DEF RewalkStep, Rewalking
  <2> QED
    BY <2>2, <2>3
<1>3. ASSUME NEW r \in Reindexers, ReindexClear(r) PROVE RewalkStep
  <2>1. UNCHANGED <<disturbed, reindexRoot>>
    BY <1>3 DEF ReindexClear
  <2>2. reindexRoots' = [reindexRoots EXCEPT ![r] = {x \in Roots : IsReady(x)}]
    BY <1>3 DEF ReindexClear
  <2> QED
    BY <2>1, <2>2 DEF RewalkStep, Rewalking, WorktreesTypeOK
<1>4. ASSUME NEW r \in Reindexers, ReindexTake(r) \/ ReindexWalked(r) PROVE RewalkStep
  <2>1. \A x \in Roots : Rewalking(x)' => Rewalking(x)
    BY <1>4, RootsAssumption DEF ReindexTake, ReindexWalked, Rewalking, WorktreesTypeOK
  <2> QED
    BY <1>4, <2>1 DEF RewalkStep, ReindexTake, ReindexWalked, historyVars
<1> QED
  BY <1>1, <1>2, <1>3, <1>4
  DEF WorktreesNext, Calling, Refreshed, Rewalked, Watched, Resolve, reindexVars,
      Resolved, Leave, historyVars, Check, WalkFile, WalkFails, Verify, WalkOrphaned,
      BecomeReady, AskToWatch, DropData, RefreshCompare, RefreshDrop, RefreshRegister,
      ReindexStart, ReindexLock, ReindexEnd, InitializationComplete, HandleCommand,
      TakeBatch, HandleChange, WriteChange, CreateWorktree, RemoveWorktree

\* Ready means watched, or about to be.
LEMMA WatchKept ==
  ASSUME WorktreesTypeOK, CallInv, RestInv, RegistryInv, CommandInv, WatchInv, WorktreesNext
  PROVE  WatchInv'
<1> SUFFICES ASSUME NEW w \in Roots \ (disturbed' \cup replaced'), IsReady(w)' \/ Rewalking(w)'
             PROVE  ToBeWatched(w)'
  BY DEF WatchInv
<1>1. w \notin replaced
  BY RegistrySteps DEF RegistryStep
<1>2. CASE w \notin disturbed /\ (IsReady(w) \/ Rewalking(w))
  BY <1>1, <1>2, WatchSteps DEF WatchStep, WatchInv
<1>3. ASSUME NEW c \in Callers, BecomeReady(c), callRoot[c] = w PROVE ToBeWatched(w)'
  BY <1>3 DEF BecomeReady, ToBeWatched, WorktreesTypeOK
<1>4. ASSUME w \notin disturbed, NEW r \in Reindexers, ReindexWalked(r), reindexRoot[r] = w
      PROVE  ToBeWatched(w)'
  BY <1>2, <1>4 DEF Rewalking
<1>5. CASE Rewalking(w)'
  BY <1>2, <1>5, RewalkSteps DEF RewalkStep
<1>6. CASE IsReady(w)'
  BY <1>2, <1>3, <1>4, <1>6, ReadySteps DEF ReadyStep
<1> QED
  BY <1>5, <1>6

-----------------------------------------------------------------------------
(* Calls share the work. *)

\* There are no two calls of reindex_all.
OneReindexer == \A r \in Reindexers : \A s \in Reindexers : r = s

\* What a reindex_all walks again is Ready, what a call has begun with is not.
LEMMA ShareKept ==
  ASSUME OneReindexer, WorktreesTypeOK, CallInv, LockInv, RestInv, RegistryInv, EnteredInv, ShareInv, WorktreesNext
  PROVE  ShareInv'
<1>0. RegistryStep
  BY RegistrySteps
<1>1. CASE UNCHANGED <<order, repoState, replaced, reindexRoots, reindexRoot, callAt, callRoot>>
  BY <1>1 DEF ShareInv, Rewalking, IsReady, Registered, NotYetReady
<1>2. ASSUME NEW c \in Callers, NEW w \in Roots, Resolve(c, w) PROVE ShareInv'
  <2>1. PICK v \in Roots : Unregister(c, v) \/ UNCHANGED <<registryVars, dropping, replaced>>
    BY <1>2 DEF Resolve, Enter
  <2>2. /\ \A x \in Roots : IsReady(x) => IsReady(x)' \/ x \in replaced'
        /\ \A x \in Roots : repoState'[x] = "Ready" => repoState[x] = "Ready" \/ x \in replaced'
    BY <1>0, <2>1, UnregisterMeans
    DEF IsReady, Registered, registryVars, Droppers, WorktreesTypeOK, RegistryStep
  <2>3. /\ UNCHANGED <<reindexRoots, reindexRoot>>
        /\ \A d \in Callers : callAt'[d] \in NotYetReady =>
             /\ callAt[d] \in NotYetReady \/ repoState[callRoot[d]] # "Ready"
             /\ callRoot'[d] = callRoot[d] /\ callRoot[d] \in Roots
    BY <1>2 DEF Resolve, Enter, CallInv, NotYetReady, WorktreesTypeOK, reindexVars, callVars
  <2> QED
    BY <1>0, <2>2, <2>3 DEF ShareInv, Rewalking, RegistryStep
<1>3. ASSUME NEW c \in Callers, Resolved(c) PROVE ShareInv'
  <2>1. PICK v \in Roots : Unregister(c, v) \/ UNCHANGED <<registryVars, dropping, replaced>>
    BY <1>3 DEF Resolved, Enter, CallInv
  <2>2. /\ \A x \in Roots : IsReady(x) => IsReady(x)' \/ x \in replaced'
        /\ \A x \in Roots : repoState'[x] = "Ready" => repoState[x] = "Ready" \/ x \in replaced'
    BY <1>0, <2>1, UnregisterMeans
    DEF IsReady, Registered, registryVars, Droppers, WorktreesTypeOK, RegistryStep
  <2>3. /\ UNCHANGED <<reindexRoots, reindexRoot>>
        /\ \A d \in Callers : callAt'[d] \in NotYetReady =>
             /\ callAt[d] \in NotYetReady \/ repoState[callRoot[d]] # "Ready"
             /\ callRoot'[d] = callRoot[d] /\ callRoot[d] \in Roots
    BY <1>3 DEF Resolved, Enter, CallInv, NotYetReady, WorktreesTypeOK, reindexVars, callVars
  <2> QED
    BY <1>0, <2>2, <2>3 DEF ShareInv, Rewalking, RegistryStep
<1>4. ASSUME NEW c \in Callers, Check(c) PROVE ShareInv'
  <2>1. PICK v \in Roots : Unregister(c, v) \/ UNCHANGED <<registryVars, dropping, replaced>>
    BY <1>4 DEF Check, CallInv
  <2>2. /\ \A x \in Roots : IsReady(x) => IsReady(x)' \/ x \in replaced'
        /\ \A x \in Roots : repoState'[x] = "Ready" => repoState[x] = "Ready" \/ x \in replaced'
    BY <1>0, <2>1, UnregisterMeans
    DEF IsReady, Registered, registryVars, Droppers, WorktreesTypeOK, RegistryStep
  <2>3. /\ UNCHANGED <<reindexRoots, reindexRoot>>
        /\ \A d \in Callers : callAt'[d] \in NotYetReady =>
             /\ callAt[d] \in NotYetReady \/ repoState[callRoot[d]] # "Ready"
             /\ callRoot'[d] = callRoot[d] /\ callRoot[d] \in Roots
    <3>1. UNCHANGED <<reindexRoots, reindexRoot, callRoot>>
      BY <1>4 DEF Check, reindexVars
    <3>2. callAt'[c] \in NotYetReady => repoState[callRoot[c]] # "Ready"
      BY <1>4 DEF Check, NotYetReady, WorktreesTypeOK
    <3>3. \A d \in Callers \ {c} : callAt'[d] = callAt[d]
      BY <1>4 DEF Check, WorktreesTypeOK
    <3>4. \A d \in Callers : callAt[d] \in NotYetReady \/ d = c => callRoot[d] \in Roots
      BY <1>4 DEF Check, CallInv, NotYetReady
    <3> QED
      BY <3>1, <3>2, <3>3, <3>4
  <2> QED
    BY <1>0, <2>2, <2>3 DEF ShareInv, Rewalking, RegistryStep
<1>5. ASSUME NEW a \in Droppers, RefreshDrop(a) PROVE ShareInv'
  <2>1. PICK v \in Roots : Unregister(a, v) \/ UNCHANGED <<registryVars, dropping, replaced>>
    BY <1>5 DEF RefreshDrop, WorktreesTypeOK
  <2>2. /\ \A x \in Roots : IsReady(x) => IsReady(x)' \/ x \in replaced'
        /\ \A x \in Roots : repoState'[x] = "Ready" => repoState[x] = "Ready" \/ x \in replaced'
    BY <1>0, <2>1, UnregisterMeans
    DEF IsReady, Registered, registryVars, Droppers, WorktreesTypeOK, RegistryStep
  <2>3. /\ UNCHANGED <<reindexRoots, reindexRoot>>
        /\ \A d \in Callers : callAt'[d] \in NotYetReady =>
             /\ callAt[d] \in NotYetReady \/ repoState[callRoot[d]] # "Ready"
             /\ callRoot'[d] = callRoot[d] /\ callRoot[d] \in Roots
    BY <1>5 DEF RefreshDrop, CallInv, NotYetReady, WorktreesTypeOK, reindexVars, callVars
  <2> QED
    BY <1>0, <2>2, <2>3 DEF ShareInv, Rewalking, RegistryStep
<1>6. ASSUME HandleChange PROVE ShareInv'
  <2>1. PICK v \in Roots : Unregister(WatchTask, v) \/ UNCHANGED <<registryVars, dropping, replaced>>
    BY <1>6 DEF HandleChange, WorktreesTypeOK
  <2>2. /\ \A x \in Roots : IsReady(x) => IsReady(x)' \/ x \in replaced'
        /\ \A x \in Roots : repoState'[x] = "Ready" => repoState[x] = "Ready" \/ x \in replaced'
    BY <1>0, <2>1, UnregisterMeans
    DEF IsReady, Registered, registryVars, Droppers, WorktreesTypeOK, RegistryStep
  <2>3. /\ UNCHANGED <<reindexRoots, reindexRoot>>
        /\ \A d \in Callers : callAt'[d] \in NotYetReady =>
             /\ callAt[d] \in NotYetReady \/ repoState[callRoot[d]] # "Ready"
             /\ callRoot'[d] = callRoot[d] /\ callRoot[d] \in Roots
    BY <1>6 DEF HandleChange, CallInv, NotYetReady, WorktreesTypeOK, reindexVars, callVars
  <2> QED
    BY <1>0, <2>2, <2>3 DEF ShareInv, Rewalking, RegistryStep
<1>7. ASSUME NEW c \in Callers, Leave(c) \/ Verify(c) \/ AskToWatch(c) PROVE ShareInv'
  <2>1. UNCHANGED <<order, repoState, replaced, reindexRoots, reindexRoot>>
    BY <1>7 DEF Leave, Verify, AskToWatch, registryVars, historyVars, reindexVars
  <2>2. \A d \in Callers : callAt'[d] \in NotYetReady =>
          callAt[d] \in NotYetReady /\ callRoot'[d] = callRoot[d]
    BY <1>7 DEF Leave, Verify, AskToWatch, WorktreesTypeOK, NotYetReady
  <2> QED
    BY <2>1, <2>2 DEF ShareInv, Rewalking, IsReady, Registered
<1>8. ASSUME NEW c \in Callers, BeginWalk(c) \/ WalkFails(c) \/ WalkOrphaned(c) \/ BecomeReady(c)
      PROVE  ShareInv'
  <2>1. PICK s \in {"Indexing", "Failed", "Ready"} :
          /\ SetState(callRoot[c], s)
          /\ s = "Ready" => callAt'[c] = "watch"
    BY <1>8 DEF BeginWalk, WalkFails, WalkOrphaned, BecomeReady, WorktreesTypeOK
  <2>2. /\ UNCHANGED <<order, replaced, reindexRoots, reindexRoot, callRoot>>
        /\ callRoot[c] \in Roots /\ callAt[c] \in Indexing
        /\ callAt[c] \in NotYetReady
    BY <1>8
    DEF BeginWalk, WalkFails, WalkOrphaned, BecomeReady, CallInv, Indexing, NotYetReady,
        reindexVars, historyVars
  <2>3. \A d \in Callers \ {c} : callAt'[d] = callAt[d]
    BY <1>8 DEF BeginWalk, WalkFails, WalkOrphaned, BecomeReady, WorktreesTypeOK
  <2>4. \A x \in Roots \ {callRoot[c]} : repoState'[x] = repoState[x]
    BY <2>1 DEF SetState, WorktreesTypeOK
  <2>5. callRoot[c] \in replaced \/ ~ Rewalking(callRoot[c])
    BY <2>2 DEF ShareInv, IsReady
  <2>6. \A w \in Roots \ replaced' : Rewalking(w)' => IsReady(w)'
    BY <2>2, <2>4, <2>5 DEF ShareInv, Rewalking, IsReady, Registered
  <2>7. ASSUME NEW d \in Callers, callAt'[d] \in NotYetReady, callRoot'[d] \notin replaced'
        PROVE  repoState'[callRoot'[d]] # "Ready"
    <3>1. CASE d = c
      <4>1. s # "Ready"
        BY <2>1, <2>7, <3>1 DEF NotYetReady
      <4>2. repoState'[callRoot[c]] = s \/ repoState'[callRoot[c]] = repoState[callRoot[c]]
        BY <2>1, <2>2 DEF SetState, WorktreesTypeOK
      <4> QED
        BY <2>2, <2>7, <3>1, <4>1, <4>2 DEF ShareInv
    <3>2. CASE d # c
      <4>1. callAt[d] \in NotYetReady /\ callAt[d] \in Indexing
        BY <2>3, <2>7, <3>2 DEF NotYetReady, Indexing
      <4>2. callRoot[d] # callRoot[c] /\ callRoot[d] \in Roots
        BY <2>2, <3>2, <4>1, OneCallPerWorktree DEF CallInv, Indexing
      <4> QED
        BY <2>2, <2>4, <2>7, <4>1, <4>2 DEF ShareInv
    <3> QED
      BY <3>1, <3>2
  <2> QED
    BY <2>2, <2>6, <2>7 DEF ShareInv
<1>9. ASSUME NEW a \in Droppers, RefreshRegister(a) PROVE ShareInv'
  <2>1. UNCHANGED <<repoState, replaced, reindexRoots, reindexRoot, callAt, callRoot>>
    BY <1>9 DEF RefreshRegister, historyVars, reindexVars, callVars
  <2>2. \A x \in Roots : IsReady(x) => IsReady(x)'
    BY <1>9, <2>1, RegisterMeans DEF IsReady
  <2> QED
    BY <2>1, <2>2 DEF ShareInv, Rewalking
<1>10. ASSUME NEW r \in Reindexers, ReindexClear(r) PROVE ShareInv'
  <2>1. UNCHANGED <<order, repoState, replaced, reindexRoot, callAt, callRoot>>
    BY <1>10 DEF ReindexClear, registryVars, callVars
  <2>2. reindexRoots' = [reindexRoots EXCEPT ![r] = {x \in Roots : IsReady(x)}] /\ reindexRoot[r] = NoRoot
    BY <1>10 DEF ReindexClear, RestInv
  <2>3. \A s \in Reindexers : s = r
    BY DEF OneReindexer
  <2>4. \A s \in Reindexers : reindexRoot'[s] \notin reindexRoots'[s]
    BY <2>1, <2>2, <2>3, RootsAssumption DEF WorktreesTypeOK
  <2>5. \A w \in Roots : Rewalking(w)' => IsReady(w)'
    BY <2>1, <2>2, <2>3, RootsAssumption DEF Rewalking, IsReady, Registered, WorktreesTypeOK
  <2> QED
    BY <2>1, <2>4, <2>5 DEF ShareInv
<1>11. ASSUME NEW r \in Reindexers, ReindexTake(r) PROVE ShareInv'
  <2>1. UNCHANGED <<order, replaced, callAt, callRoot>> /\ reindexRoot[r] = NoRoot
    BY <1>11 DEF ReindexTake, callVars, historyVars
  <2>2. PICK v \in reindexRoots[r] :
          /\ reindexRoots' = [reindexRoots EXCEPT ![r] = reindexRoots[r] \ {v}]
          /\ \/ v \in present /\ reindexRoot' = [reindexRoot EXCEPT ![r] = v] /\ UNCHANGED repoState
             \/ v \notin present /\ SetState(v, "Failed") /\ UNCHANGED reindexRoot
    BY <1>11 DEF ReindexTake
  <2>3. \A s \in Reindexers : s = r
    BY DEF OneReindexer
  <2>4. \A s \in Reindexers : reindexRoot'[s] \notin reindexRoots'[s]
    BY <2>1, <2>2, <2>3, RootsAssumption DEF WorktreesTypeOK
  <2>5. \A w \in Roots : Rewalking(w)' => Rewalking(w) /\ (repoState' = repoState \/ w # v)
    BY <2>1, <2>2, <2>3, RootsAssumption DEF Rewalking, WorktreesTypeOK
  <2>6. \A w \in Roots : repoState'[w] = repoState[w] \/ (w = v /\ repoState'[w] = "Failed")
    BY <2>2 DEF SetState, WorktreesTypeOK
  <2>7. \A w \in Roots \ replaced' : Rewalking(w)' => IsReady(w)'
    BY <2>1, <2>5, <2>6 DEF ShareInv, IsReady, Registered
  <2>8. \A c \in Callers : callAt[c] \in NotYetReady => callRoot[c] \in Roots
    BY DEF CallInv, NotYetReady
  <2> QED
    BY <2>1, <2>4, <2>6, <2>7, <2>8 DEF ShareInv
<1>12. ASSUME NEW r \in Reindexers, ReindexWalked(r) PROVE ShareInv'
  <2>1. UNCHANGED <<order, replaced, callAt, callRoot, reindexRoots>> /\ reindexRoot[r] \in Roots
    BY <1>12 DEF ReindexWalked, callVars, WorktreesTypeOK
  <2>2. PICK s : SetState(reindexRoot[r], s)
    BY <1>12 DEF ReindexWalked
  <2>3. reindexRoot' = [reindexRoot EXCEPT ![r] = NoRoot]
    BY <1>12 DEF ReindexWalked
  <2>4. \A t \in Reindexers : t = r
    BY DEF OneReindexer
  <2>5. \A t \in Reindexers : reindexRoot'[t] \notin reindexRoots'[t]
    BY <2>1, <2>3, <2>4, RootsAssumption DEF WorktreesTypeOK
  <2>6. \A w \in Roots : Rewalking(w)' => Rewalking(w) /\ w # reindexRoot[r]
    BY <2>1, <2>3, <2>4, RootsAssumption DEF Rewalking, ShareInv, WorktreesTypeOK
  <2>7. \A w \in Roots \ {reindexRoot[r]} : repoState'[w] = repoState[w]
    BY <2>2 DEF SetState, WorktreesTypeOK
  <2>8. \A w \in Roots \ replaced' : Rewalking(w)' => IsReady(w)'
    BY <2>1, <2>6, <2>7 DEF ShareInv, IsReady, Registered
  <2>9. ASSUME NEW c \in Callers, callAt[c] \in NotYetReady, callRoot[c] \notin replaced
        PROVE  callRoot[c] \in Roots /\ callRoot[c] # reindexRoot[r]
    BY <2>1, <2>9 DEF ShareInv, Rewalking, IsReady, CallInv, NotYetReady
  <2> QED
    BY <2>1, <2>5, <2>7, <2>8, <2>9 DEF ShareInv
<1>13. ASSUME NEW w \in Roots, RemoveWorktree(w) PROVE ShareInv'
  <2>1. UNCHANGED <<order, repoState, reindexRoots, reindexRoot, callAt, callRoot>>
    BY <1>13 DEF RemoveWorktree, registryVars, reindexVars, callVars
  <2> QED
    BY <1>0, <2>1 DEF ShareInv, RegistryStep, Rewalking, IsReady, Registered
<1> QED
  BY <1>1, <1>2, <1>3, <1>4, <1>5, <1>6, <1>7, <1>8, <1>9, <1>10, <1>11, <1>12, <1>13
  DEF WorktreesNext, Calling, Refreshed, Rewalked, Watched, WalkFile, registryVars,
      reindexVars, historyVars, DropData, callVars, RefreshCompare, ReindexStart,
      ReindexLock, ReindexEnd, InitializationComplete, HandleCommand, TakeBatch,
      WriteChange, CreateWorktree

-----------------------------------------------------------------------------
(* The theorems. *)

WorktreesInv ==
  /\ WorktreesTypeOK /\ WriterInv /\ CallInv /\ LockInv /\ RestInv
  /\ RegistryInv /\ EnteredInv /\ CommandInv
  /\ RemovedIsDropped /\ WalkInv /\ ReadyInv /\ WatchInv

LEMMA InitInv == WorktreesInit => WorktreesInv /\ ShareInv
<1> SUFFICES ASSUME WorktreesInit PROVE WorktreesInv /\ ShareInv
  OBVIOUS
<1>1. WorktreesTypeOK
  BY InitTypeOK
<1>2. WriterInv /\ CallInv /\ LockInv /\ RestInv /\ EnteredInv
  BY DEF WorktreesInit, WriterInv, CallInv, LockInv, RestInv, EnteredInv, Indexing, Droppers
<1>3. RegistryInv
  <2>1. \A w \in Roots : Registered(w) => w \in present
    BY RootsAssumption, FS_Subset, SetToSeqIsARow DEF WorktreesInit, Registered
  <2> QED
    BY <2>1 DEF WorktreesInit, RegistryInv, Known
<1>4. CommandInv
  BY EmptySeq, LenProperties DEF WorktreesInit, CommandInv
<1>5. RemovedIsDropped
  BY DEF WorktreesInit, RemovedIsDropped
<1>6. \A w \in Roots : ~ IsReady(w) /\ ~ Rewalking(w)
  BY RootsAssumption DEF WorktreesInit, IsReady, Rewalking
<1>7. WalkInv /\ ReadyInv /\ WatchInv
  BY <1>6 DEF WorktreesInit, WalkInv, Undisturbed, ReadyInv, WatchInv
<1>8. ShareInv
  BY <1>6 DEF WorktreesInit, ShareInv, NotYetReady
<1> QED
  BY <1>1, <1>2, <1>3, <1>4, <1>5, <1>7, <1>8 DEF WorktreesInv

LEMMA InvKept == WorktreesInv /\ [WorktreesNext]_worktreeVars => WorktreesInv'
<1> SUFFICES ASSUME WorktreesInv, [WorktreesNext]_worktreeVars PROVE WorktreesInv'
  OBVIOUS
<1>1. CASE WorktreesNext
  BY <1>1, TypesKept, WriterKept, CallKept, LockKept, RestKept, RegistryKept, EnteredKept,
     CommandKept, DropKept, WalkKept, ReadyKept, WatchKept DEF WorktreesInv
<1>2. CASE UNCHANGED worktreeVars
  <2>1. /\ UNCHANGED <<treeVars, registryVars, dataVars, startVars, indexJobs, callVars>>
        /\ UNCHANGED <<refreshVars, dropping, reindexVars, commands, watcherVars, batchVars>>
        /\ UNCHANGED historyVars
    BY <1>2 DEF worktreeVars
  <2>2. WorktreesTypeOK'
    BY <2>1
    DEF WorktreesInv, WorktreesTypeOK, treeVars, registryVars, dataVars, startVars, callVars,
                refreshVars, reindexVars, watcherVars, batchVars, historyVars
  <2>3. WriterInv' /\ CallInv' /\ LockInv' /\ RestInv'
    BY <2>1
    DEF WorktreesInv, WriterInv, CallInv, LockInv, RestInv, batchVars, callVars, refreshVars,
                reindexVars
  <2>4. RegistryInv' /\ EnteredInv' /\ CommandInv'
    BY <2>1 DEF WorktreesInv, RegistryInv, EnteredInv, CommandInv, Registered, Known, treeVars,
                registryVars, callVars, refreshVars, watcherVars, historyVars
  <2>5. RemovedIsDropped' /\ WalkInv'
    BY <2>1 DEF WorktreesInv, RemovedIsDropped, Registered, Dropping, WalkInv, Undisturbed, Walked,
                registryVars, dataVars, callVars, reindexVars, historyVars
  <2>6. ReadyInv' /\ WatchInv'
    BY <2>1 DEF WorktreesInv, ReadyInv, WatchInv, IsReady, Registered, Rewalking, ToBeWatched,
                registryVars, dataVars, callVars, reindexVars, watcherVars, historyVars
  <2> QED
    BY <2>2, <2>3, <2>4, <2>5, <2>6 DEF WorktreesInv
<1> QED
  BY <1>1, <1>2

\* The invariant holds, however many calls and reindex_all there are.
THEOREM WorktreesInvariant == WorktreesSpec => []WorktreesInv
<1>1. WorktreesInit => WorktreesInv
  BY InitInv
<1> QED
  BY <1>1, InvKept, PTL DEF WorktreesSpec

\* The variables have their types and no key is registered twice, whoever registers
\* and unregisters it meanwhile.
THEOREM RegisteredOnce == WorktreesSpec => []WorktreesTypeOK
<1>1. WorktreesInv => WorktreesTypeOK
  BY DEF WorktreesInv
<1> QED
  BY <1>1, WorktreesInvariant, PTL

\* Nothing of a worktree that is not registered stays in the indexes, but what
\* somebody is about to drop or what is known to be orphaned.
THEOREM RemovedLeavesNothing == WorktreesSpec => []RemovedIsDropped
<1>1. WorktreesInv => RemovedIsDropped
  BY DEF WorktreesInv
<1> QED
  BY <1>1, WorktreesInvariant, PTL

\* A worktree that is Ready is complete, whatever reindex_all cleared meanwhile.
THEOREM ReadyMeansComplete == WorktreesSpec => []ReadyIsComplete
<1>1. WorktreesInv => ReadyIsComplete
  <2> SUFFICES ASSUME WorktreesInv, NEW w \in present, IsReady(w), w \notin disturbed \cup replaced,
                      documents[w] # WorktreeFiles
               PROVE  \E r \in Reindexers : reindexAt[r] = "walk"
    BY DEF ReadyIsComplete
  <2>1. w \in Roots
    BY DEF WorktreesInv, WorktreesTypeOK
  <2>2. Rewalking(w)
    BY <2>1 DEF WorktreesInv, ReadyInv
  <2> QED
    BY <2>1, <2>2, RootsAssumption DEF WorktreesInv, RestInv, Rewalking
<1> QED
  BY <1>1, WorktreesInvariant, PTL

\* A worktree that is Ready is watched, or the watcher has yet to be asked or to hear.
THEOREM ReadyMeansWatched == WorktreesSpec => []ReadyIsWatched
<1>1. WorktreesInv => ReadyIsWatched
  BY DEF WorktreesInv, WorktreesTypeOK, WatchInv, ReadyIsWatched, ToBeWatched
<1> QED
  BY <1>1, WorktreesInvariant, PTL

\* With one reindex_all, indexing starts only on a worktree that is not Ready.
THEOREM CallsShareTheWork ==
  ASSUME OneReindexer
  PROVE  WorktreesSpec => CallsShareWork
<1>1. ASSUME WorktreesInv, ShareInv, [WorktreesNext]_worktreeVars PROVE ShareInv'
  <2>1. CASE WorktreesNext
    BY <1>1, <2>1, ShareKept DEF WorktreesInv
  <2>2. CASE UNCHANGED worktreeVars
    <3>1. UNCHANGED <<registryVars, callVars, reindexVars, historyVars>>
      BY <2>2 DEF worktreeVars
    <3> QED
      BY <1>1, <3>1
      DEF ShareInv, Rewalking, IsReady, Registered, registryVars, callVars, reindexVars,
                        historyVars
  <2> QED
    BY <1>1, <2>1, <2>2
<1>2. ASSUME WorktreesInv, ShareInv, [WorktreesNext]_worktreeVars
      PROVE  [\A w \in Roots \ replaced :
                IsReady(w) /\ Registered(w)' => repoState'[w] # "Indexing"]_worktreeVars
  <2> SUFFICES ASSUME WorktreesNext, NEW w \in Roots \ replaced, IsReady(w), Registered(w)'
               PROVE  repoState'[w] # "Indexing"
    BY <1>2
  <2>1. WorktreesTypeOK /\ repoState[w] = "Ready"
    BY <1>2 DEF WorktreesInv, IsReady
  <2>2. ASSUME NEW c \in Callers, BeginWalk(c) PROVE repoState'[w] # "Indexing"
    <3>1. w # callRoot[c]
      BY <1>2, <2>1, <2>2 DEF BeginWalk, ShareInv, NotYetReady
    <3> QED
      BY <2>1, <2>2, <3>1 DEF BeginWalk, SetState, WorktreesTypeOK
  <2>3. ASSUME NEW a \in Droppers, NEW v \in Roots, Unregister(a, v) PROVE repoState'[w] # "Indexing"
    BY <2>1, <2>3, UnregisterMeans
  <2>4. ASSUME NEW v, NEW s \in {"Failed", "Ready"}, SetState(v, s) PROVE repoState'[w] # "Indexing"
    BY <2>1, <2>4 DEF SetState, WorktreesTypeOK
  <2>5. CASE UNCHANGED repoState
    BY <2>1, <2>5
  <2>6. ASSUME NEW c \in Callers, NEW v \in Roots, Resolve(c, v) PROVE repoState'[w] # "Indexing"
    BY <2>3, <2>5, <2>6 DEF Resolve, Enter, registryVars, Droppers
  <2>7. ASSUME NEW c \in Callers, Resolved(c) \/ Check(c) PROVE repoState'[w] # "Indexing"
    <3>1. callRoot[c] \in Roots
      BY <1>2, <2>7 DEF WorktreesInv, CallInv, Resolved, Check
    <3>2. Unregister(c, callRoot[c]) \/ UNCHANGED repoState
      BY <2>7 DEF Resolved, Check, Enter, registryVars
    <3> QED
      BY <2>3, <2>5, <3>1, <3>2 DEF Droppers
  <2>8. ASSUME NEW a \in Droppers, RefreshDrop(a) PROVE repoState'[w] # "Indexing"
    BY <2>1, <2>3, <2>8 DEF RefreshDrop, WorktreesTypeOK
  <2>9. ASSUME HandleChange PROVE repoState'[w] # "Indexing"
    <3>1. PICK v \in Roots : Unregister(WatchTask, v) \/ UNCHANGED repoState
      BY <2>1, <2>9 DEF HandleChange, WorktreesTypeOK, registryVars
    <3> QED
      BY <2>3, <2>5, <3>1 DEF Droppers
  <2>10. ASSUME NEW c \in Callers, WalkFails(c) \/ WalkOrphaned(c) \/ BecomeReady(c)
         PROVE  repoState'[w] # "Indexing"
    BY <2>4, <2>10 DEF WalkFails, WalkOrphaned, BecomeReady
  <2>11. ASSUME NEW r \in Reindexers, ReindexTake(r) \/ ReindexWalked(r)
         PROVE  repoState'[w] # "Indexing"
    BY <2>4, <2>5, <2>11 DEF ReindexTake, ReindexWalked
  <2> QED
    BY <2>2, <2>5, <2>6, <2>7, <2>8, <2>9, <2>10, <2>11
    DEF WorktreesNext, Calling, Refreshed, Rewalked, Watched, Leave, WalkFile, Verify, AskToWatch,
        DropData, RefreshCompare, RefreshRegister, ReindexStart, ReindexLock, ReindexClear,
            ReindexEnd,
        InitializationComplete, HandleCommand, TakeBatch, WriteChange, CreateWorktree,
            RemoveWorktree,
        registryVars
<1>3. WorktreesInit => ShareInv
  BY InitInv
<1> QED
  BY <1>1, <1>2, <1>3, WorktreesInvariant, PTL DEF WorktreesSpec, CallsShareWork
===============================================================================
