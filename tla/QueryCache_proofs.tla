------------------------- MODULE QueryCache_proofs -------------------------
(* Proofs about QueryCache for every number of files, queries and threads. *)
EXTENDS QueryCache, TLAPS


USE QueryKeysAssumption, NothingAssumption, QueriersAssumption, CapacityAssumption
    DEF Actors, Version, Answer, Nothing

LEMMA WithoutType ==
  ASSUME NEW S, NEW s \in Seq(S), NEW k
  PROVE  Without(s, k) \in Seq(S)
<1>1. CASE ~ Contains(s, k)
  BY <1>1 DEF Without
<1>2. CASE Contains(s, k)
  <2> DEFINE i == CHOOSE j \in DOMAIN s : s[j] = k
  <2>1. i \in 1 .. Len(s)
    BY <1>2 DEF Contains
  <2>2. RemoveAt(s, i) \in Seq(S)
    <3> HIDE DEF i
    <3>1. SubSeq(s, 1, i - 1) \in Seq(S) /\ SubSeq(s, i + 1, Len(s)) \in Seq(S)
      BY <2>1
    <3> QED BY <3>1 DEF RemoveAt
  <2> QED BY <1>2, <2>2 DEF Without
<1> QED BY <1>1, <1>2

LEMMA InitShape == CacheInit => CacheShape
BY DEF CacheInit, CacheShape

LEMMA NextShape == CacheShape /\ [CacheNext]_queryCacheVars => CacheShape'
<1> SUFFICES ASSUME CacheShape, [CacheNext]_queryCacheVars PROVE CacheShape'
  OBVIOUS
<1> USE DEF CacheShape, fileVars, storeVars, queryVars, removeVars, watchVars
<1>1. ASSUME NEW t \in Queriers, Querying(t) PROVE CacheShape'
  <2>1. ASSUME NEW k \in QueryKeys, Hit(t, k) PROVE CacheShape'
    BY <2>1, WithoutType DEF Hit, Touched
  <2>2. ASSUME NEW k \in QueryKeys, Expired(t, k) PROVE CacheShape'
    BY <2>2 DEF Expired, StartRemoval, Meet
  <2>3. ASSUME NEW k \in QueryKeys, Miss(t, k) PROVE CacheShape'
    BY <2>3 DEF Miss
  <2>4. CASE ReadSymbols(t)
    BY <2>4 DEF ReadSymbols, StartReading
  <2>5. CASE ReadFiles(t)
    BY <2>5 DEF ReadFiles, StartReading
  <2>6. CASE ReadFile(t)
    <3>1. ASSUME NEW f \in unread[t] PROVE [found[t] EXCEPT ![f] = onDisk[f]] \in Answer
      OBVIOUS
    <3>2. CASE unread[t] = {} /\ at' = [at EXCEPT ![t] = "check"] /\ UNCHANGED <<found, unread>>
      BY <2>6, <3>2 DEF ReadFile
    <3>3. ASSUME NEW f \in unread[t],
                 found' = [found EXCEPT ![t] = [@ EXCEPT ![f] = onDisk[f]]],
                 unread' = [unread EXCEPT ![t] = @ \ {f}], UNCHANGED at
          PROVE  CacheShape'
      <4> DEFINE new == [found[t] EXCEPT ![f] = onDisk[f]]
      <4>1. new \in Answer
        BY <3>1
      <4>2. found' = [found EXCEPT ![t] = new]
        BY <3>3
      <4> HIDE DEF new
      <4>3. found' \in [Queriers -> Answer]
        BY <4>1, <4>2
      <4>4. unread' \in [Queriers -> SUBSET CachedFiles]
        BY <3>3
      <4> QED BY <2>6, <3>3, <4>3, <4>4 DEF ReadFile
    <3> QED BY <2>6, <3>2, <3>3 DEF ReadFile
  <2>7. CASE CheckRoom(t)
    BY <2>7 DEF CheckRoom, DependentFiles
  <2>8. CASE Evict(t)
    <3>1. lruOrder # <<>> => Head(lruOrder) \in QueryKeys /\ Tail(lruOrder) \in Seq(QueryKeys)
      OBVIOUS
    <3>2. lruOrder' \in Seq(QueryKeys)
      BY <2>8, <3>1 DEF Evict
    <3>3. removed' \in [Actors -> QueryKeys \cup {NoKey}]
      BY <2>8, <3>1 DEF Evict, StartRemoval
    <3>4. ASSUME NEW a \in Actors, removing'[a] # "no" PROVE removed'[a] # NoKey
      <4>1. CASE lruOrder = <<>>
        BY <2>8, <3>4, <4>1 DEF Evict
      <4>2. CASE lruOrder # <<>>
        <5>1. removing' = [removing EXCEPT ![t] = "entry"]
              /\ removed' = [removed EXCEPT ![t] = Head(lruOrder)]
          BY <2>8, <4>2 DEF Evict, StartRemoval
        <5> QED BY <3>1, <3>4, <4>2, <5>1
      <4> QED BY <4>1, <4>2
    <3>5. removing' \in [Actors -> {"no", "entry", "files"}] /\ UNCHANGED removedFiles
      BY <2>8 DEF Evict, StartRemoval
    <3>6. overlapped' \in [Queriers -> BOOLEAN]
      BY <2>8 DEF Evict, Meet
    <3>7. at' = [at EXCEPT ![t] = "register"]
      BY <2>8 DEF Evict
    <3>8. UNCHANGED <<fileVars, storeVars, dependents, asked, unread, found, unregistered,
                      watchVars>>
      BY <2>8 DEF Evict
    <3>9. at[t] = "evict"
      BY <2>8 DEF Evict
    <3> QED BY <3>2, <3>3, <3>4, <3>5, <3>6, <3>7, <3>8, <3>9
  <2>9. CASE Register(t)
    <3>1. asked[t] \in QueryKeys
      BY <2>9 DEF Register
    <3> QED BY <2>9, <3>1 DEF Register
  <2>10. CASE MarkRecent(t)
    <3>1. asked[t] \in QueryKeys
      BY <2>10 DEF MarkRecent
    <3>2. lruOrder' \in Seq(QueryKeys)
      BY <2>10, <3>1, WithoutType DEF MarkRecent, Touched
    <3> QED BY <2>10, <3>2 DEF MarkRecent
  <2>11. CASE Store(t)
    <3>1. asked[t] \in QueryKeys
      BY <2>11 DEF Store
    <3> QED BY <2>11, <3>1 DEF Store, EndQuery
  <2>12. CASE ClearEntries(t)
    BY <2>12 DEF ClearEntries, Meet
  <2>13. CASE ClearFiles(t)
    BY <2>13 DEF ClearFiles
  <2>14. CASE ClearRecent(t)
    BY <2>14 DEF ClearRecent, EndQuery
  <2> QED BY <1>1, <2>1, <2>2, <2>3, <2>4, <2>5, <2>6, <2>7, <2>8, <2>9, <2>10, <2>11,
             <2>12, <2>13, <2>14 DEF Querying
<1>2. CASE Watching
  <2>1. ASSUME NEW f \in CachedFiles, ReadChange(f) PROVE CacheShape'
    BY <2>1 DEF ReadChange
  <2>2. CASE ListChange
    BY <2>2 DEF ListChange
  <2>3. CASE CollectKeys
    BY <2>3 DEF CollectKeys, Meet
  <2>4. CASE InvalidateKey
    BY <2>4 DEF InvalidateKey, StartRemoval, Meet
  <2>5. CASE DropFile
    BY <2>5 DEF DropFile, EndChange
  <2>6. CASE CollectRepo
    BY <2>6 DEF CollectRepo, Meet
  <2>7. CASE RepoInvalidated
    BY <2>7 DEF RepoInvalidated, EndChange
  <2> QED BY <1>2, <2>1, <2>2, <2>3, <2>4, <2>5, <2>6, <2>7 DEF Watching
<1>3. CASE Removals
  <2>1. ASSUME NEW a \in Actors, RemoveEntry(a) PROVE CacheShape'
    <3>1. removed[a] \in QueryKeys
      BY <2>1 DEF RemoveEntry
    <3>2. CASE removed[a] \in entries
      <4>1. DependentFiles(answers[removed[a]]) \in SUBSET CachedFiles
        BY DEF DependentFiles
      <4>2. removedFiles' \in [Actors -> SUBSET CachedFiles]
        BY <2>1, <3>2, <4>1 DEF RemoveEntry
      <4>3. answers' \in [QueryKeys -> Answer]
        <5>1. Nothing \in Answer
          OBVIOUS
        <5>2. answers' = [answers EXCEPT ![removed[a]] = Nothing]
          BY <2>1, <3>2 DEF RemoveEntry
        <5> QED BY <5>1, <5>2
      <4> QED BY <2>1, <3>1, <3>2, <4>2, <4>3 DEF RemoveEntry
    <3>3. CASE removed[a] \notin entries
      BY <2>1, <3>3 DEF RemoveEntry, EndRemoval
    <3> QED BY <3>2, <3>3
  <2>2. ASSUME NEW a \in Actors, RemoveFile(a) PROVE CacheShape'
    BY <2>2 DEF RemoveFile
  <2>3. ASSUME NEW a \in Actors, RemoveRecent(a) PROVE CacheShape'
    BY <2>3, WithoutType DEF RemoveRecent, EndRemoval
  <2> QED BY <1>3, <2>1, <2>2, <2>3 DEF Removals
<1>4. ASSUME NEW f \in CachedFiles, Edit(f) PROVE CacheShape'
  BY <1>4 DEF Edit
<1>5. CASE UNCHANGED queryCacheVars
  BY <1>5 DEF queryCacheVars
<1> QED BY <1>1, <1>2, <1>3, <1>4, <1>5 DEF CacheNext

THEOREM CacheTypes == CacheSpec => []CacheShape
BY InitShape, NextShape, PTL DEF CacheSpec

-----------------------------------------------------------------------------
(* What the LRU queue keeps when a key is moved or taken out. *)

\* Taking one key out (lru.retain) leaves the others in the queue.
LEMMA WithoutKeeps ==
  ASSUME NEW S, NEW s \in Seq(S), NEW k, NEW j, j # k, Contains(s, j)
  PROVE  Contains(Without(s, k), j)
<1>1. CASE ~ Contains(s, k)
  BY <1>1 DEF Without
<1>2. CASE Contains(s, k)
  <2> DEFINE i == CHOOSE n \in DOMAIN s : s[n] = k
             before == SubSeq(s, 1, i - 1)
             after == SubSeq(s, i + 1, Len(s))
  <2>1. i \in 1 .. Len(s) /\ s[i] = k
    BY <1>2 DEF Contains
  <2>2. PICK n \in 1 .. Len(s) : s[n] = j
    BY DEF Contains
  <2>3. n # i
    BY <2>1, <2>2
  <2>4. Without(s, k) = before \o after
    BY <1>2 DEF Without, RemoveAt
  <2> HIDE DEF i
  <2>5. before \in Seq(S) /\ Len(before) = i - 1 /\ \A m \in 1 .. (i - 1) : before[m] = s[m]
    BY <2>1
  <2>6. after \in Seq(S) /\ Len(after) = Len(s) - i
        /\ \A m \in 1 .. (Len(s) - i) : after[m] = s[m + i]
    BY <2>1
  <2> HIDE DEF before, after
  <2>7. CASE n < i
    <3>1. n \in 1 .. Len(before \o after) /\ (before \o after)[n] = s[n]
      BY <2>1, <2>2, <2>5, <2>6, <2>7
    <3> QED BY <2>2, <2>4, <3>1 DEF Contains
  <2>8. CASE n > i
    <3>1. n - 1 \in 1 .. Len(before \o after) /\ (before \o after)[n - 1] = after[n - i]
      BY <2>1, <2>2, <2>5, <2>6, <2>8
    <3>2. after[n - i] = s[n]
      BY <2>1, <2>2, <2>6, <2>8
    <3> QED BY <2>2, <2>4, <3>1, <3>2 DEF Contains
  <2> QED BY <2>1, <2>2, <2>3, <2>7, <2>8
<1> QED BY <1>1, <1>2

LEMMA AppendHas ==
  ASSUME NEW S, NEW s \in Seq(S), NEW k \in S
  PROVE  /\ Contains(Append(s, k), k)
         /\ \A j : Contains(s, j) => Contains(Append(s, k), j)
BY DEF Contains

\* Moving a key to the back takes none out.
LEMMA TouchedKeeps ==
  ASSUME CacheShape, NEW k \in QueryKeys
  PROVE  /\ Contains(Touched(k), k)
         /\ \A j : Contains(lruOrder, j) => Contains(Touched(k), j)
<1>1. lruOrder \in Seq(QueryKeys)
  BY DEF CacheShape
<1>2. Without(lruOrder, k) \in Seq(QueryKeys)
  BY <1>1, WithoutType
<1>3. Contains(Touched(k), k)
  BY <1>2, AppendHas DEF Touched
<1>4. ASSUME NEW j, Contains(lruOrder, j) PROVE Contains(Touched(k), j)
  <2>1. CASE j = k
    BY <1>3, <2>1
  <2>2. CASE j # k
    <3>1. Contains(Without(lruOrder, k), j)
      BY <1>1, <1>4, <2>2, WithoutKeeps
    <3> QED BY <1>2, <3>1, AppendHas DEF Touched
  <2> QED BY <2>1, <2>2
<1> QED BY <1>3, <1>4

LEMMA TailKeeps ==
  ASSUME NEW S, NEW s \in Seq(S), s # <<>>, NEW j, Contains(s, j), j # Head(s)
  PROVE  Contains(Tail(s), j)
<1>1. PICK n \in 1 .. Len(s) : s[n] = j
  BY DEF Contains
<1>2. n # 1
  BY <1>1
<1>3. n - 1 \in 1 .. Len(Tail(s)) /\ Tail(s)[n - 1] = s[n]
  BY <1>1, <1>2
<1> QED BY <1>1, <1>3 DEF Contains

-----------------------------------------------------------------------------
(* UnracedCurrent, by CacheInv: one lemma for each action, one step for each *)
(* conjunct. *)

LEMMA InitInv == CacheInit => CacheInv
BY DEF CacheInit, CacheInv, WatcherLags, UnmarkedAlone, GoneRaced, UnmarkedGood,
       UnracedKnown, UnracedCurrent, InFlight, EvictableInv, UnracedEvictable

LEMMA HitInv ==
  ASSUME CacheShape, CacheShape', CacheInv, NEW t \in Queriers, NEW k \in QueryKeys, Hit(t, k)
  PROVE  CacheInv'
<1> USE DEF CacheShape, CacheInv, InFlight, Invalidating, DependentFiles,
            fileVars, storeVars, queryVars, removeVars, watchVars
<1>1. WatcherLags'
  BY DEF Hit, WatcherLags
<1>2. UnmarkedAlone'
  BY DEF Hit, UnmarkedAlone
<1>3. GoneRaced'
  BY DEF Hit, GoneRaced
<1>4. UnmarkedGood'
  BY DEF Hit, UnmarkedGood
<1>5. UnracedKnown'
  BY DEF Hit, UnracedKnown
<1>6. UnracedCurrent'
  BY DEF Hit, UnracedCurrent
<1>7. EvictableInv'
  BY TouchedKeeps DEF Hit, EvictableInv, UnracedEvictable
<1> QED BY <1>1, <1>2, <1>3, <1>4, <1>5, <1>6, <1>7

LEMMA ExpiredInv ==
  ASSUME CacheShape, CacheShape', CacheInv, NEW t \in Queriers, NEW k \in QueryKeys, Expired(t, k)
  PROVE  CacheInv'
<1> USE DEF CacheShape, CacheInv, InFlight, Invalidating, DependentFiles,
            fileVars, storeVars, queryVars, removeVars, watchVars
<1>1. WatcherLags'
  BY DEF Expired, StartRemoval, Meet, WatcherLags
<1>2. UnmarkedAlone'
  <2> SUFFICES ASSUME NEW u \in Queriers, InFlight(u)', ~ overlapped'[u]
               PROVE  /\ ~ Invalidating'
                      /\ \A b \in Actors : removing'[b] # "no" => removed'[b] # asked'[u]
    BY DEF UnmarkedAlone
  <2>1. u # t
    BY DEF Expired
  <2>2. InFlight(u) /\ ~ overlapped[u] /\ asked[u] # k /\ asked'[u] = asked[u]
    BY <2>1 DEF Expired, Meet
  <2>3. ~ Invalidating /\ \A b \in Actors : removing[b] # "no" => removed[b] # asked[u]
    BY <2>2 DEF UnmarkedAlone
  <2>4. ~ Invalidating'
    BY <2>3 DEF Expired
  <2>5. \A b \in Actors : removing'[b] # "no" => removed'[b] # asked'[u]
    BY <2>2, <2>3 DEF Expired, StartRemoval
  <2> QED BY <2>4, <2>5
<1>3. GoneRaced'
  BY DEF Expired, StartRemoval, Meet, GoneRaced
<1>4. UnmarkedGood'
  <2>1. UNCHANGED <<settled, unread, found, unregistered, dependents>>
    BY DEF Expired
  <2>2. \A u \in Queriers : u # t => at'[u] = at[u] /\ asked'[u] = asked[u]
    BY DEF Expired
  <2>3. \A u \in Queriers : InFlight(u)' => u # t
    BY DEF Expired
  <2>4. \A u \in Queriers : ~ overlapped'[u] => ~ overlapped[u]
    BY DEF Expired, Meet
  <2>5. UnmarkedGood
    OBVIOUS
  <2> HIDE DEF CacheShape, CacheInv
  <2> QED BY <2>1, <2>2, <2>3, <2>4, <2>5 DEF UnmarkedGood
<1>5. UnracedKnown'
  BY DEF Expired, StartRemoval, Meet, UnracedKnown
<1>6. UnracedCurrent'
  BY DEF Expired, StartRemoval, Meet, UnracedCurrent
<1>7. EvictableInv'
  <2>1. \A j \in entries' \ raced' :
         Contains(lruOrder', j) \/ \E b \in Actors : removing'[b] = "entry" /\ removed'[b] = j
    <3>1. removing[t] = "no"
      BY DEF Expired, EvictableInv
    <3>2. \A b \in Actors : removing[b] = "entry" => removing'[b] = "entry" /\ removed'[b] = removed[b]
      BY <3>1 DEF Expired, StartRemoval
    <3> QED BY <3>2 DEF Expired, EvictableInv, UnracedEvictable
  <2>2. \A u \in Queriers : at'[u] = "store" /\ ~ overlapped'[u] => Contains(lruOrder', asked'[u])
    BY DEF Expired, Meet, EvictableInv
  <2>3. \A u \in Queriers : removing'[u] # "no" => at'[u] \in {"expired", "register"}
    BY DEF Expired, StartRemoval, EvictableInv
  <2> QED BY <2>1, <2>2, <2>3 DEF EvictableInv, UnracedEvictable
<1> QED BY <1>1, <1>2, <1>3, <1>4, <1>5, <1>6, <1>7

LEMMA MissInv ==
  ASSUME CacheShape, CacheShape', CacheInv, NEW t \in Queriers, NEW k \in QueryKeys, Miss(t, k)
  PROVE  CacheInv'
<1> USE DEF CacheShape, CacheInv, InFlight, Invalidating, DependentFiles,
            fileVars, storeVars, queryVars, removeVars, watchVars
<1>1. WatcherLags'
  BY DEF Miss, WatcherLags
<1>2. UnmarkedAlone'
  BY DEF Miss, UnmarkedAlone
<1>3. GoneRaced'
  BY DEF Miss, GoneRaced
<1>4. UnmarkedGood'
  BY DEF Miss, UnmarkedGood
<1>5. UnracedKnown'
  BY DEF Miss, UnracedKnown
<1>6. UnracedCurrent'
  BY DEF Miss, UnracedCurrent
<1>7. EvictableInv'
  BY DEF Miss, EvictableInv, UnracedEvictable
<1> QED BY <1>1, <1>2, <1>3, <1>4, <1>5, <1>6, <1>7

LEMMA ReadSymbolsInv ==
  ASSUME CacheShape, CacheShape', CacheInv, NEW t \in Queriers, ReadSymbols(t)
  PROVE  CacheInv'
<1> USE DEF CacheShape, CacheInv, InFlight, Invalidating, DependentFiles,
            fileVars, storeVars, queryVars, removeVars, watchVars
<1>1. WatcherLags'
  BY DEF ReadSymbols, StartReading, Removing, WatcherLags
<1>2. UnmarkedAlone'
  <2> SUFFICES ASSUME NEW u \in Queriers, InFlight(u)', ~ overlapped'[u]
               PROVE  /\ ~ Invalidating'
                      /\ \A b \in Actors : removing'[b] # "no" => removed'[b] # asked'[u]
    BY DEF UnmarkedAlone
  <2>1. UNCHANGED <<removing, removed, asked, watchAt>>
        /\ at'[t] \in {"read", "check"} /\ \A v \in Queriers : v # t => at'[v] = at[v]
    BY DEF ReadSymbols
  <2>2. ~ Invalidating /\ \A b \in Actors : removing[b] # "no" => removed[b] # asked[u]
    <3>1. CASE u = t
      BY <3>1 DEF ReadSymbols, StartReading, Removing
    <3>2. CASE u # t
      <4>1. InFlight(u) /\ ~ overlapped[u]
        BY <2>1, <3>2 DEF ReadSymbols, StartReading
      <4> QED BY <4>1 DEF UnmarkedAlone
    <3> QED BY <3>1, <3>2
  <2> HIDE DEF CacheShape, CacheInv
  <2> QED BY <2>1, <2>2
<1>3. GoneRaced'
  BY DEF ReadSymbols, StartReading, Removing, GoneRaced
<1>4. UnmarkedGood'
  BY DEF ReadSymbols, StartReading, Removing, UnmarkedGood, WatcherLags, UnmarkedAlone
<1>5. UnracedKnown'
  BY DEF ReadSymbols, StartReading, Removing, UnracedKnown
<1>6. UnracedCurrent'
  BY DEF ReadSymbols, StartReading, Removing, UnracedCurrent
<1>7. EvictableInv'
  BY DEF ReadSymbols, StartReading, EvictableInv, UnracedEvictable
<1> QED BY <1>1, <1>2, <1>3, <1>4, <1>5, <1>6, <1>7

LEMMA ReadFilesInv ==
  ASSUME CacheShape, CacheShape', CacheInv, NEW t \in Queriers, ReadFiles(t)
  PROVE  CacheInv'
<1> USE DEF CacheShape, CacheInv, InFlight, Invalidating, DependentFiles,
            fileVars, storeVars, queryVars, removeVars, watchVars
<1>1. WatcherLags'
  BY DEF ReadFiles, StartReading, Removing, WatcherLags
<1>2. UnmarkedAlone'
  <2> SUFFICES ASSUME NEW u \in Queriers, InFlight(u)', ~ overlapped'[u]
               PROVE  /\ ~ Invalidating'
                      /\ \A b \in Actors : removing'[b] # "no" => removed'[b] # asked'[u]
    BY DEF UnmarkedAlone
  <2>1. UNCHANGED <<removing, removed, asked, watchAt>>
        /\ at'[t] \in {"read", "check"} /\ \A v \in Queriers : v # t => at'[v] = at[v]
    BY DEF ReadFiles
  <2>2. ~ Invalidating /\ \A b \in Actors : removing[b] # "no" => removed[b] # asked[u]
    <3>1. CASE u = t
      BY <3>1 DEF ReadFiles, StartReading, Removing
    <3>2. CASE u # t
      <4>1. InFlight(u) /\ ~ overlapped[u]
        BY <2>1, <3>2 DEF ReadFiles, StartReading
      <4> QED BY <4>1 DEF UnmarkedAlone
    <3> QED BY <3>1, <3>2
  <2> HIDE DEF CacheShape, CacheInv
  <2> QED BY <2>1, <2>2
<1>3. GoneRaced'
  BY DEF ReadFiles, StartReading, Removing, GoneRaced
<1>4. UnmarkedGood'
  BY DEF ReadFiles, StartReading, Removing, UnmarkedGood
<1>5. UnracedKnown'
  BY DEF ReadFiles, StartReading, Removing, UnracedKnown
<1>6. UnracedCurrent'
  BY DEF ReadFiles, StartReading, Removing, UnracedCurrent
<1>7. EvictableInv'
  BY DEF ReadFiles, StartReading, EvictableInv, UnracedEvictable
<1> QED BY <1>1, <1>2, <1>3, <1>4, <1>5, <1>6, <1>7

LEMMA ReadFileInv ==
  ASSUME CacheShape, CacheShape', CacheInv, NEW t \in Queriers, ReadFile(t)
  PROVE  CacheInv'
<1> USE DEF CacheShape, CacheInv, InFlight, Invalidating, DependentFiles,
            fileVars, storeVars, queryVars, removeVars, watchVars
<1>1. WatcherLags'
  BY DEF ReadFile, WatcherLags
<1>2. UnmarkedAlone'
  BY DEF ReadFile, UnmarkedAlone
<1>3. GoneRaced'
  BY DEF ReadFile, GoneRaced
<1>4. UnmarkedGood'
  <2> SUFFICES ASSUME NEW u \in Queriers, InFlight(u)', ~ overlapped'[u]
               PROVE  /\ \A g \in CachedFiles \ unread'[u] : found'[u][g] >= settled'[g]
                      /\ at'[u] \in {"evict", "register"} =>
                           \A g \in CachedFiles : found'[u][g] # 0 /\ g \notin unregistered'[u]
                             => asked'[u] \in dependents'[g]
                      /\ at'[u] = "store" =>
                           \A g \in CachedFiles : found'[u][g] # 0 => asked'[u] \in dependents'[g]
    BY DEF UnmarkedGood
  <2>1. InFlight(u) /\ ~ overlapped[u] /\ UNCHANGED <<settled, dependents, asked, unregistered>>
    BY DEF ReadFile
  <2>2. CASE u # t
    <3>1. at'[u] = at[u] /\ found'[u] = found[u] /\ unread'[u] = unread[u]
      <4> HIDE DEF CacheInv
      <4> QED BY <2>2, SMTT(20) DEF ReadFile
    <3>2. /\ \A g \in CachedFiles \ unread[u] : found[u][g] >= settled[g]
          /\ at[u] \in {"evict", "register"} =>
               \A g \in DependentFiles(found[u]) \ unregistered[u] : asked[u] \in dependents[g]
          /\ at[u] = "store" => \A g \in DependentFiles(found[u]) : asked[u] \in dependents[g]
      BY <2>1 DEF UnmarkedGood
    <3> HIDE DEF CacheShape, CacheInv
    <3> QED BY <2>1, <3>1, <3>2
  <2>3. CASE u = t /\ unread[t] = {} /\ UNCHANGED <<found, unread>>
    BY <2>1, <2>3 DEF ReadFile, UnmarkedGood
  <2>4. ASSUME u = t, NEW f \in unread[t],
               found' = [found EXCEPT ![t] = [@ EXCEPT ![f] = onDisk[f]]],
               unread' = [unread EXCEPT ![t] = @ \ {f}], UNCHANGED at
        PROVE  \A g \in CachedFiles \ unread'[u] : found'[u][g] >= settled'[g]
    <3>1. found'[u] = [found[u] EXCEPT ![f] = onDisk[f]] /\ unread'[u] = unread[u] \ {f}
      BY <2>4
    <3>2. onDisk[f] >= settled[f]
      BY DEF WatcherLags
    <3>3. \A g \in CachedFiles \ unread[u] : found[u][g] >= settled[g]
      BY <2>1 DEF UnmarkedGood
    <3>4. found[u] \in Answer /\ f \in CachedFiles
      BY <2>4
    <3>5. found'[u][f] = onDisk[f] /\ \A g \in CachedFiles \ {f} : found'[u][g] = found[u][g]
      BY <3>1, <3>4
    <3> HIDE DEF CacheShape
    <3> QED BY <2>1, <3>1, <3>2, <3>3, <3>5
  <2> QED BY <2>1, <2>2, <2>3, <2>4 DEF ReadFile
<1>5. UnracedKnown'
  BY DEF ReadFile, UnracedKnown
<1>6. UnracedCurrent'
  BY DEF ReadFile, UnracedCurrent
<1>7. EvictableInv'
  <2>1. \A j \in entries' \ raced' :
         Contains(lruOrder', j) \/ \E b \in Actors : removing'[b] = "entry" /\ removed'[b] = j
    BY DEF ReadFile, EvictableInv, UnracedEvictable
  <2>2. \A u \in Queriers : at'[u] = "store" /\ ~ overlapped'[u] => Contains(lruOrder', asked'[u])
    <3>1. UNCHANGED <<lruOrder, overlapped, asked>>
      BY DEF ReadFile
    <3>2. \A u \in Queriers : at'[u] = "store" => at[u] = "store"
      BY DEF ReadFile
    <3> QED BY <3>1, <3>2 DEF EvictableInv
  <2>3. \A u \in Queriers : removing'[u] # "no" => at'[u] \in {"expired", "register"}
    <3>1. at[t] = "read" /\ UNCHANGED removing
      BY DEF ReadFile
    <3>2. \A u \in Queriers : u # t => at'[u] = at[u]
      BY DEF ReadFile
    <3> QED BY <3>1, <3>2 DEF EvictableInv
  <2> QED BY <2>1, <2>2, <2>3 DEF EvictableInv, UnracedEvictable
<1> QED BY <1>1, <1>2, <1>3, <1>4, <1>5, <1>6, <1>7

LEMMA CheckRoomInv ==
  ASSUME CacheShape, CacheShape', CacheInv, NEW t \in Queriers, CheckRoom(t)
  PROVE  CacheInv'
<1> USE DEF CacheShape, CacheInv, InFlight, Invalidating, DependentFiles,
            fileVars, storeVars, queryVars, removeVars, watchVars
<1>1. WatcherLags'
  BY DEF CheckRoom, WatcherLags
<1>2. UnmarkedAlone'
  BY DEF CheckRoom, UnmarkedAlone
<1>3. GoneRaced'
  BY DEF CheckRoom, GoneRaced
<1>4. UnmarkedGood'
  BY DEF CheckRoom, UnmarkedGood
<1>5. UnracedKnown'
  BY DEF CheckRoom, UnracedKnown
<1>6. UnracedCurrent'
  BY DEF CheckRoom, UnracedCurrent
<1>7. EvictableInv'
  BY DEF CheckRoom, EvictableInv, UnracedEvictable
<1> QED BY <1>1, <1>2, <1>3, <1>4, <1>5, <1>6, <1>7

LEMMA EvictInv ==
  ASSUME CacheShape, CacheShape', CacheInv, NEW t \in Queriers, Evict(t)
  PROVE  CacheInv'
<1> USE DEF CacheShape, CacheInv, InFlight, Invalidating, DependentFiles,
            fileVars, storeVars, queryVars, removeVars, watchVars
<1>1. WatcherLags'
  BY DEF Evict, StartRemoval, Meet, WatcherLags
<1>2. UnmarkedAlone'
  <2> SUFFICES ASSUME NEW u \in Queriers, InFlight(u)', ~ overlapped'[u]
               PROVE  /\ ~ Invalidating'
                      /\ \A b \in Actors : removing'[b] # "no" => removed'[b] # asked'[u]
    BY DEF UnmarkedAlone
  <2>1. InFlight(u) /\ ~ overlapped[u] /\ asked'[u] = asked[u]
    BY DEF Evict, Meet
  <2>2. ~ Invalidating'
    BY <2>1 DEF Evict, UnmarkedAlone
  <2>3. ASSUME NEW b \in Actors, removing'[b] # "no" PROVE removed'[b] # asked'[u]
    <3>1. CASE lruOrder = <<>>
      BY <2>1, <2>3, <3>1 DEF Evict, UnmarkedAlone
    <3>2. CASE lruOrder # <<>> /\ b = t
      <4>1. removed'[b] = Head(lruOrder)
        BY <3>2 DEF Evict, StartRemoval
      <4>2. Head(lruOrder) # asked[u]
        BY <2>1, <3>2 DEF Evict, Meet
      <4> QED BY <2>1, <4>1, <4>2
    <3>3. CASE lruOrder # <<>> /\ b # t
      <4>1. removing'[b] = removing[b] /\ removed'[b] = removed[b]
        BY <3>3 DEF Evict, StartRemoval
      <4> QED BY <2>1, <2>3, <4>1 DEF UnmarkedAlone
    <3> QED BY <3>1, <3>2, <3>3
  <2> QED BY <2>2, <2>3
<1>3. GoneRaced'
  <2>1. UNCHANGED <<entries, raced>>
    BY DEF Evict
  <2>2. ASSUME NEW u \in Queriers, at'[u] \in {"clearFiles", "clearRecent"}
        PROVE  entries \subseteq raced
    <3>1. at[u] \in {"clearFiles", "clearRecent"}
      BY <2>2 DEF Evict
    <3> QED BY <3>1 DEF GoneRaced
  <2>3. ASSUME NEW b \in Actors, removing'[b] = "files", removed'[b] \in entries
        PROVE  removed'[b] \in raced
    <3>1. removing[b] = "files" /\ removed'[b] = removed[b]
      BY <2>3 DEF Evict, StartRemoval
    <3> QED BY <2>3, <3>1 DEF GoneRaced
  <2> QED BY <2>1, <2>2, <2>3 DEF GoneRaced
<1>4. UnmarkedGood'
  <2> SUFFICES ASSUME NEW u \in Queriers, InFlight(u)', ~ overlapped'[u]
               PROVE  /\ \A g \in CachedFiles \ unread'[u] : found'[u][g] >= settled'[g]
                      /\ at'[u] \in {"evict", "register"} =>
                           \A g \in CachedFiles : found'[u][g] # 0 /\ g \notin unregistered'[u]
                             => asked'[u] \in dependents'[g]
                      /\ at'[u] = "store" =>
                           \A g \in CachedFiles : found'[u][g] # 0 => asked'[u] \in dependents'[g]
    BY DEF UnmarkedGood
  <2>1. InFlight(u) /\ ~ overlapped[u]
    BY DEF Evict, Meet
  <2>2. UNCHANGED <<settled, dependents, asked, unread, found, unregistered>>
    BY DEF Evict
  <2>3. CASE u # t
    <3>1. at'[u] = at[u]
      BY <2>3 DEF Evict
    <3> QED BY <2>1, <2>2, <3>1 DEF UnmarkedGood
  <2>4. CASE u = t
    <3>1. at[u] = "evict" /\ at'[u] = "register"
      BY <2>4 DEF Evict
    <3>2. \A g \in CachedFiles \ unread[u] : found[u][g] >= settled[g]
      BY <2>1 DEF UnmarkedGood
    <3>3. \A g \in CachedFiles : found[u][g] # 0 /\ g \notin unregistered[u]
             => asked[u] \in dependents[g]
      BY <2>1, <3>1 DEF UnmarkedGood
    <3> QED BY <2>2, <3>1, <3>2, <3>3
  <2> QED BY <2>3, <2>4
<1>5. UnracedKnown'
  BY DEF Evict, StartRemoval, Meet, UnracedKnown
<1>6. UnracedCurrent'
  BY DEF Evict, StartRemoval, Meet, UnracedCurrent
<1>7. EvictableInv'
  <2>1. \A j \in entries' \ raced' :
         Contains(lruOrder', j) \/ \E b \in Actors : removing'[b] = "entry" /\ removed'[b] = j
    <3>1. CASE lruOrder = <<>>
      <4>1. UNCHANGED <<entries, raced, lruOrder, removing, removed>>
        BY <3>1 DEF Evict
      <4> QED BY <4>1 DEF EvictableInv, UnracedEvictable
    <3>2. CASE lruOrder # <<>>
      <4>0. UNCHANGED <<entries, raced>>
        BY DEF Evict
      <4> SUFFICES ASSUME NEW j \in entries \ raced
                   PROVE  \/ Contains(lruOrder', j)
                          \/ \E b \in Actors : removing'[b] = "entry" /\ removed'[b] = j
        BY <4>0
      <4>1. lruOrder' = Tail(lruOrder) /\ removing' = [removing EXCEPT ![t] = "entry"]
            /\ removed' = [removed EXCEPT ![t] = Head(lruOrder)]
        BY <3>2 DEF Evict, StartRemoval
      <4>2. removing[t] = "no" /\ t \in Actors
        BY DEF Evict, EvictableInv
      <4>3. CASE j = Head(lruOrder)
        BY <4>1, <4>2, <4>3
      <4>4. CASE j # Head(lruOrder) /\ Contains(lruOrder, j)
        BY <3>2, <4>1, <4>4, TailKeeps
      <4>5. ASSUME NEW b \in Actors, removing[b] = "entry", removed[b] = j
            PROVE  removing'[b] = "entry" /\ removed'[b] = j
        BY <4>1, <4>2, <4>5
      <4> QED BY <4>3, <4>4, <4>5 DEF EvictableInv, UnracedEvictable
    <3> QED BY <3>1, <3>2
  <2>2. \A u \in Queriers : at'[u] = "store" /\ ~ overlapped'[u] => Contains(lruOrder', asked'[u])
    <3> SUFFICES ASSUME NEW u \in Queriers, at'[u] = "store", ~ overlapped'[u]
                 PROVE  Contains(lruOrder', asked'[u])
      OBVIOUS
    <3>1. at[u] = "store" /\ ~ overlapped[u] /\ asked'[u] = asked[u]
      BY DEF Evict, Meet
    <3>2. Contains(lruOrder, asked[u])
      BY <3>1 DEF EvictableInv
    <3>3. CASE lruOrder = <<>>
      BY <3>1, <3>2, <3>3 DEF Evict
    <3>4. CASE lruOrder # <<>>
      <4>1. lruOrder' = Tail(lruOrder)
        BY <3>4 DEF Evict
      <4>2. asked[u] # Head(lruOrder)
        BY <3>1, <3>4 DEF Evict, Meet
      <4> QED BY <3>1, <3>2, <3>4, <4>1, <4>2, TailKeeps
    <3> QED BY <3>3, <3>4
  <2>3. \A u \in Queriers : removing'[u] # "no" => at'[u] \in {"expired", "register"}
    BY DEF Evict, StartRemoval, EvictableInv
  <2> QED BY <2>1, <2>2, <2>3 DEF EvictableInv, UnracedEvictable
<1> QED BY <1>1, <1>2, <1>3, <1>4, <1>5, <1>6, <1>7

LEMMA RegisterInv ==
  ASSUME CacheShape, CacheShape', CacheInv, NEW t \in Queriers, Register(t)
  PROVE  CacheInv'
<1> USE DEF CacheShape, CacheInv, InFlight, Invalidating, DependentFiles,
            fileVars, storeVars, queryVars, removeVars, watchVars
<1>1. WatcherLags'
  BY DEF Register, WatcherLags
<1>2. UnmarkedAlone'
  BY DEF Register, UnmarkedAlone
<1>3. GoneRaced'
  BY DEF Register, GoneRaced
<1>4. UnmarkedGood'
  <2> SUFFICES ASSUME NEW u \in Queriers, InFlight(u)', ~ overlapped'[u]
               PROVE  /\ \A g \in CachedFiles \ unread'[u] : found'[u][g] >= settled'[g]
                      /\ at'[u] \in {"evict", "register"} =>
                           \A g \in CachedFiles : found'[u][g] # 0 /\ g \notin unregistered'[u]
                             => asked'[u] \in dependents'[g]
                      /\ at'[u] = "store" =>
                           \A g \in CachedFiles : found'[u][g] # 0 => asked'[u] \in dependents'[g]
    BY DEF UnmarkedGood
  <2>1. PICK f \in unregistered[t] :
          /\ dependents' = [dependents EXCEPT ![f] = @ \cup {asked[t]}]
          /\ unregistered' = [unregistered EXCEPT ![t] = @ \ {f}]
    BY DEF Register
  <2>2. InFlight(u) /\ ~ overlapped[u] /\ UNCHANGED <<settled, at, asked, unread, found>>
    BY DEF Register
  <2>3. \A g \in CachedFiles : dependents[g] \subseteq dependents'[g]
    BY <2>1
  <2>4. ASSUME NEW g \in CachedFiles, g \notin unregistered'[u]
        PROVE  g \notin unregistered[u] \/ asked[u] \in dependents'[g]
    BY <2>1, <2>4
  <2> QED BY <2>2, <2>3, <2>4 DEF UnmarkedGood
<1>5. UnracedKnown'
  BY DEF Register, UnracedKnown
<1>6. UnracedCurrent'
  BY DEF Register, UnracedCurrent
<1>7. EvictableInv'
  BY DEF Register, EvictableInv, UnracedEvictable
<1> QED BY <1>1, <1>2, <1>3, <1>4, <1>5, <1>6, <1>7

LEMMA MarkRecentInv ==
  ASSUME CacheShape, CacheShape', CacheInv, NEW t \in Queriers, MarkRecent(t)
  PROVE  CacheInv'
<1> USE DEF CacheShape, CacheInv, InFlight, Invalidating, DependentFiles,
            fileVars, storeVars, queryVars, removeVars, watchVars
<1>1. WatcherLags'
  BY DEF MarkRecent, WatcherLags
<1>2. UnmarkedAlone'
  BY DEF MarkRecent, UnmarkedAlone
<1>3. GoneRaced'
  BY DEF MarkRecent, GoneRaced
<1>4. UnmarkedGood'
  BY DEF MarkRecent, UnmarkedGood, WatcherLags, UnmarkedAlone
<1>5. UnracedKnown'
  BY DEF MarkRecent, UnracedKnown
<1>6. UnracedCurrent'
  BY DEF MarkRecent, UnracedCurrent
<1>7. EvictableInv'
  <2>1. \A j \in entries' \ raced' :
         Contains(lruOrder', j) \/ \E b \in Actors : removing'[b] = "entry" /\ removed'[b] = j
    BY TouchedKeeps DEF MarkRecent, EvictableInv, UnracedEvictable
  <2>2. \A u \in Queriers : at'[u] = "store" /\ ~ overlapped'[u] => Contains(lruOrder', asked'[u])
    <3>1. asked[t] \in QueryKeys /\ lruOrder' = Touched(asked[t])
      BY DEF MarkRecent
    <3>2. Contains(lruOrder', asked[t]) /\ \A j : Contains(lruOrder, j) => Contains(lruOrder', j)
      BY <3>1, TouchedKeeps
    <3>3. UNCHANGED <<asked, overlapped>> /\ \A u \in Queriers : u # t => at'[u] = at[u]
      BY DEF MarkRecent
    <3> QED BY <3>2, <3>3 DEF EvictableInv
  <2>3. \A u \in Queriers : removing'[u] # "no" => at'[u] \in {"expired", "register"}
    BY DEF MarkRecent, EvictableInv
  <2> QED BY <2>1, <2>2, <2>3 DEF EvictableInv, UnracedEvictable
<1> QED BY <1>1, <1>2, <1>3, <1>4, <1>5, <1>6, <1>7

LEMMA StoreInv ==
  ASSUME CacheShape, CacheShape', CacheInv, NEW t \in Queriers, Store(t)
  PROVE  CacheInv'
<1> USE DEF CacheShape, CacheInv, InFlight, Invalidating, DependentFiles,
            fileVars, storeVars, queryVars, removeVars, watchVars
<1>1. WatcherLags'
  BY DEF Store, EndQuery, WatcherLags
<1>2. UnmarkedAlone'
  BY DEF Store, EndQuery, UnmarkedAlone
<1>3. GoneRaced'
  BY DEF Store, EndQuery, GoneRaced, UnmarkedAlone
<1>4. UnmarkedGood'
  BY DEF Store, EndQuery, UnmarkedGood
<1>5. UnracedKnown'
  BY DEF Store, EndQuery, UnracedKnown, UnmarkedAlone, GoneRaced, UnmarkedGood
<1>6. UnracedCurrent'
  BY DEF Store, EndQuery, UnracedCurrent, WatcherLags, UnmarkedAlone, UnmarkedGood, UnracedKnown
<1>7. EvictableInv'
  BY DEF Store, EndQuery, EvictableInv, UnracedEvictable
<1> QED BY <1>1, <1>2, <1>3, <1>4, <1>5, <1>6, <1>7

LEMMA ClearEntriesInv ==
  ASSUME CacheShape, CacheShape', CacheInv, NEW t \in Queriers, ClearEntries(t)
  PROVE  CacheInv'
<1> USE DEF CacheShape, CacheInv, InFlight, Invalidating, DependentFiles,
            fileVars, storeVars, queryVars, removeVars, watchVars
<1>1. WatcherLags'
  BY DEF ClearEntries, Meet, WatcherLags
<1>2. UnmarkedAlone'
  <2> SUFFICES ASSUME NEW u \in Queriers, InFlight(u)', ~ overlapped'[u]
               PROVE  /\ ~ Invalidating'
                      /\ \A b \in Actors : removing'[b] # "no" => removed'[b] # asked'[u]
    BY DEF UnmarkedAlone
  <2>1. u # t /\ at'[u] = at[u]
    BY DEF ClearEntries
  <2>2. asked[u] \in QueryKeys
    BY <2>1
  <2>3. overlapped'[u]
    BY <2>1, <2>2 DEF ClearEntries, Meet
  <2> QED BY <2>3
<1>3. GoneRaced'
  BY DEF ClearEntries, Meet, GoneRaced
<1>4. UnmarkedGood'
  BY DEF ClearEntries, Meet, UnmarkedGood
<1>5. UnracedKnown'
  BY DEF ClearEntries, Meet, UnracedKnown
<1>6. UnracedCurrent'
  BY DEF ClearEntries, Meet, UnracedCurrent
<1>7. EvictableInv'
  BY DEF ClearEntries, Meet, EvictableInv, UnracedEvictable
<1> QED BY <1>1, <1>2, <1>3, <1>4, <1>5, <1>6, <1>7

LEMMA ClearFilesInv ==
  ASSUME CacheShape, CacheShape', CacheInv, NEW t \in Queriers, ClearFiles(t)
  PROVE  CacheInv'
<1> USE DEF CacheShape, CacheInv, InFlight, Invalidating, DependentFiles,
            fileVars, storeVars, queryVars, removeVars, watchVars
<1>1. WatcherLags'
  BY DEF ClearFiles, WatcherLags
<1>2. UnmarkedAlone'
  BY DEF ClearFiles, UnmarkedAlone
<1>3. GoneRaced'
  BY DEF ClearFiles, GoneRaced, UnmarkedAlone
<1>4. UnmarkedGood'
  BY DEF ClearFiles, UnmarkedGood, WatcherLags, UnmarkedAlone
<1>5. UnracedKnown'
  BY DEF ClearFiles, UnracedKnown, UnmarkedAlone, GoneRaced, UnmarkedGood
<1>6. UnracedCurrent'
  BY DEF ClearFiles, UnracedCurrent, WatcherLags, UnmarkedAlone, UnmarkedGood, UnracedKnown
<1>7. EvictableInv'
  BY DEF ClearFiles, EvictableInv, UnracedEvictable
<1> QED BY <1>1, <1>2, <1>3, <1>4, <1>5, <1>6, <1>7

LEMMA ClearRecentInv ==
  ASSUME CacheShape, CacheShape', CacheInv, NEW t \in Queriers, ClearRecent(t)
  PROVE  CacheInv'
<1> USE DEF CacheShape, CacheInv, InFlight, Invalidating, DependentFiles,
            fileVars, storeVars, queryVars, removeVars, watchVars
<1>1. WatcherLags'
  BY DEF ClearRecent, EndQuery, WatcherLags
<1>2. UnmarkedAlone'
  BY DEF ClearRecent, EndQuery, UnmarkedAlone
<1>3. GoneRaced'
  BY DEF ClearRecent, EndQuery, GoneRaced
<1>4. UnmarkedGood'
  BY DEF ClearRecent, EndQuery, UnmarkedGood
<1>5. UnracedKnown'
  BY DEF ClearRecent, EndQuery, UnracedKnown
<1>6. UnracedCurrent'
  BY DEF ClearRecent, EndQuery, UnracedCurrent
<1>7. EvictableInv'
  <2>1. \A j \in entries' \ raced' :
         Contains(lruOrder', j) \/ \E b \in Actors : removing'[b] = "entry" /\ removed'[b] = j
    <3>1. entries \subseteq raced
      BY DEF ClearRecent, GoneRaced
    <3> QED BY <3>1 DEF ClearRecent
  <2>2. \A u \in Queriers : at'[u] = "store" /\ ~ overlapped'[u] => Contains(lruOrder', asked'[u])
    <3> SUFFICES ASSUME NEW u \in Queriers, at'[u] = "store", ~ overlapped'[u]
                 PROVE  FALSE
      OBVIOUS
    <3>1. at[u] = "store" /\ ~ overlapped[u]
      BY DEF ClearRecent, EndQuery
    <3> QED BY <3>1 DEF ClearRecent, UnmarkedAlone
  <2>3. \A u \in Queriers : removing'[u] # "no" => at'[u] \in {"expired", "register"}
    BY DEF ClearRecent, EndQuery, EvictableInv
  <2> QED BY <2>1, <2>2, <2>3 DEF EvictableInv, UnracedEvictable
<1> QED BY <1>1, <1>2, <1>3, <1>4, <1>5, <1>6, <1>7

LEMMA ReadChangeInv ==
  ASSUME CacheShape, CacheShape', CacheInv, NEW f \in CachedFiles, ReadChange(f)
  PROVE  CacheInv'
<1> USE DEF CacheShape, CacheInv, InFlight, Invalidating, DependentFiles,
            fileVars, storeVars, queryVars, removeVars, watchVars
<1>1. WatcherLags'
  BY DEF ReadChange, WatcherLags
<1>2. UnmarkedAlone'
  BY DEF ReadChange, UnmarkedAlone
<1>3. GoneRaced'
  BY DEF ReadChange, GoneRaced
<1>4. UnmarkedGood'
  BY DEF ReadChange, UnmarkedGood
<1>5. UnracedKnown'
  BY DEF ReadChange, UnracedKnown
<1>6. UnracedCurrent'
  BY DEF ReadChange, UnracedCurrent
<1>7. EvictableInv'
  BY DEF ReadChange, EvictableInv, UnracedEvictable
<1> QED BY <1>1, <1>2, <1>3, <1>4, <1>5, <1>6, <1>7

LEMMA ListChangeInv ==
  ASSUME CacheShape, CacheShape', CacheInv, ListChange
  PROVE  CacheInv'
<1> USE DEF CacheShape, CacheInv, InFlight, Invalidating, DependentFiles,
            fileVars, storeVars, queryVars, removeVars, watchVars
<1>1. WatcherLags'
  BY DEF ListChange, WatcherLags
<1>2. UnmarkedAlone'
  BY DEF ListChange, UnmarkedAlone
<1>3. GoneRaced'
  BY DEF ListChange, GoneRaced
<1>4. UnmarkedGood'
  BY DEF ListChange, UnmarkedGood
<1>5. UnracedKnown'
  BY DEF ListChange, UnracedKnown
<1>6. UnracedCurrent'
  BY DEF ListChange, UnracedCurrent
<1>7. EvictableInv'
  BY DEF ListChange, EvictableInv, UnracedEvictable
<1> QED BY <1>1, <1>2, <1>3, <1>4, <1>5, <1>6, <1>7

LEMMA CollectKeysInv ==
  ASSUME CacheShape, CacheShape', CacheInv, CollectKeys
  PROVE  CacheInv'
<1> USE DEF CacheShape, CacheInv, InFlight, Invalidating, DependentFiles,
            fileVars, storeVars, queryVars, removeVars, watchVars
<1>1. WatcherLags'
  BY DEF CollectKeys, Meet, WatcherLags
<1>2. UnmarkedAlone'
  <2>1. \A u \in Queriers : InFlight(u)' => InFlight(u) /\ asked[u] \in QueryKeys
    <3>1. UNCHANGED at
      BY DEF CollectKeys
    <3> QED BY <3>1
  <2>2. \A u \in Queriers : InFlight(u)' => overlapped'[u]
    BY <2>1 DEF CollectKeys, Meet
  <2> QED BY <2>2 DEF UnmarkedAlone
<1>3. GoneRaced'
  BY DEF CollectKeys, Meet, GoneRaced, UnmarkedAlone
<1>4. UnmarkedGood'
  BY DEF CollectKeys, Meet, UnmarkedGood
<1>5. UnracedKnown'
  BY DEF CollectKeys, Meet, UnracedKnown, UnmarkedAlone, GoneRaced, UnmarkedGood
<1>6. UnracedCurrent'
  BY DEF CollectKeys, Meet, UnracedCurrent, WatcherLags, UnmarkedAlone, UnmarkedGood, UnracedKnown
<1>7. EvictableInv'
  BY DEF CollectKeys, Meet, EvictableInv, UnracedEvictable
<1> QED BY <1>1, <1>2, <1>3, <1>4, <1>5, <1>6, <1>7

LEMMA InvalidateKeyInv ==
  ASSUME CacheShape, CacheShape', CacheInv, InvalidateKey
  PROVE  CacheInv'
<1> USE DEF CacheShape, CacheInv, InFlight, Invalidating, DependentFiles,
            fileVars, storeVars, queryVars, removeVars, watchVars
<1>1. WatcherLags'
  BY DEF InvalidateKey, StartRemoval, Meet, WatcherLags
<1>2. UnmarkedAlone'
  BY DEF InvalidateKey, StartRemoval, Meet, UnmarkedAlone
<1>3. GoneRaced'
  BY DEF InvalidateKey, StartRemoval, Meet, GoneRaced, UnmarkedAlone
<1>4. UnmarkedGood'
  BY DEF InvalidateKey, StartRemoval, Meet, UnmarkedGood
<1>5. UnracedKnown'
  BY DEF InvalidateKey, StartRemoval, Meet, UnracedKnown, UnmarkedAlone, GoneRaced, UnmarkedGood
<1>6. UnracedCurrent'
  BY DEF InvalidateKey, StartRemoval, Meet, UnracedCurrent, WatcherLags, UnmarkedAlone, UnmarkedGood, UnracedKnown
<1>7. EvictableInv'
  BY DEF InvalidateKey, StartRemoval, Meet, EvictableInv, UnracedEvictable
<1> QED BY <1>1, <1>2, <1>3, <1>4, <1>5, <1>6, <1>7

LEMMA DropFileInv ==
  ASSUME CacheShape, CacheShape', CacheInv, DropFile
  PROVE  CacheInv'
<1> USE DEF CacheShape, CacheInv, InFlight, Invalidating, DependentFiles,
            fileVars, storeVars, queryVars, removeVars, watchVars
<1>1. WatcherLags'
  BY DEF DropFile, EndChange, WatcherLags
<1>2. UnmarkedAlone'
  BY DEF DropFile, EndChange, UnmarkedAlone
<1>3. GoneRaced'
  BY DEF DropFile, EndChange, GoneRaced, UnmarkedAlone
<1>4. UnmarkedGood'
  BY DEF DropFile, EndChange, UnmarkedGood, WatcherLags, UnmarkedAlone
<1>5. UnracedKnown'
  BY DEF DropFile, EndChange, UnracedKnown, UnmarkedAlone, GoneRaced, UnmarkedGood
<1>6. UnracedCurrent'
  BY DEF DropFile, EndChange, UnracedCurrent, WatcherLags, UnmarkedAlone, UnmarkedGood, UnracedKnown
<1>7. EvictableInv'
  BY DEF DropFile, EndChange, EvictableInv, UnracedEvictable
<1> QED BY <1>1, <1>2, <1>3, <1>4, <1>5, <1>6, <1>7

LEMMA CollectRepoInv ==
  ASSUME CacheShape, CacheShape', CacheInv, CollectRepo
  PROVE  CacheInv'
<1> USE DEF CacheShape, CacheInv, InFlight, Invalidating, DependentFiles,
            fileVars, storeVars, queryVars, removeVars, watchVars
<1>1. WatcherLags'
  BY DEF CollectRepo, Meet, WatcherLags
<1>2. UnmarkedAlone'
  BY DEF CollectRepo, Meet, UnmarkedAlone
<1>3. GoneRaced'
  BY DEF CollectRepo, Meet, GoneRaced
<1>4. UnmarkedGood'
  BY DEF CollectRepo, Meet, UnmarkedGood
<1>5. UnracedKnown'
  BY DEF CollectRepo, Meet, UnracedKnown
<1>6. UnracedCurrent'
  BY DEF CollectRepo, Meet, UnracedCurrent
<1>7. EvictableInv'
  BY DEF CollectRepo, Meet, EvictableInv, UnracedEvictable
<1> QED BY <1>1, <1>2, <1>3, <1>4, <1>5, <1>6, <1>7

LEMMA RepoInvalidatedInv ==
  ASSUME CacheShape, CacheShape', CacheInv, RepoInvalidated
  PROVE  CacheInv'
<1> USE DEF CacheShape, CacheInv, InFlight, Invalidating, DependentFiles,
            fileVars, storeVars, queryVars, removeVars, watchVars
<1>1. WatcherLags'
  BY DEF RepoInvalidated, EndChange, WatcherLags
<1>2. UnmarkedAlone'
  BY DEF RepoInvalidated, EndChange, UnmarkedAlone
<1>3. GoneRaced'
  BY DEF RepoInvalidated, EndChange, GoneRaced
<1>4. UnmarkedGood'
  BY DEF RepoInvalidated, EndChange, UnmarkedGood
<1>5. UnracedKnown'
  BY DEF RepoInvalidated, EndChange, UnracedKnown
<1>6. UnracedCurrent'
  BY DEF RepoInvalidated, EndChange, UnracedCurrent
<1>7. EvictableInv'
  BY DEF RepoInvalidated, EndChange, EvictableInv, UnracedEvictable
<1> QED BY <1>1, <1>2, <1>3, <1>4, <1>5, <1>6, <1>7

LEMMA RemoveEntryInv ==
  ASSUME CacheShape, CacheShape', CacheInv, NEW a \in Actors, RemoveEntry(a)
  PROVE  CacheInv'
<1> USE DEF CacheShape, CacheInv, InFlight, Invalidating, DependentFiles,
            fileVars, storeVars, queryVars, removeVars, watchVars
<1>1. WatcherLags'
  BY DEF RemoveEntry, EndRemoval, WatcherLags
<1>2. UnmarkedAlone'
  <2> SUFFICES ASSUME NEW u \in Queriers, InFlight(u)', ~ overlapped'[u]
               PROVE  /\ ~ Invalidating'
                      /\ \A b \in Actors : removing'[b] # "no" => removed'[b] # asked'[u]
    BY DEF UnmarkedAlone
  <2>1. UNCHANGED <<at, asked, overlapped, watchAt>>
    BY DEF RemoveEntry
  <2>2. \A b \in Actors : removing'[b] # "no" => removing[b] # "no" /\ removed'[b] = removed[b]
    BY DEF RemoveEntry, EndRemoval
  <2>3. ~ Invalidating /\ \A b \in Actors : removing[b] # "no" => removed[b] # asked[u]
    BY <2>1 DEF UnmarkedAlone
  <2> HIDE DEF CacheShape, CacheInv
  <2> QED BY <2>1, <2>2, <2>3
<1>3. GoneRaced'
  <2>1. /\ UNCHANGED at /\ removed[a] \notin entries'
        /\ entries' \subseteq entries /\ \A k \in entries' : k \in raced => k \in raced'
    BY DEF RemoveEntry
  <2>2. (\E u \in Queriers : at'[u] \in {"clearFiles", "clearRecent"}) => entries' \subseteq raced'
    BY <2>1 DEF GoneRaced
  <2>3. ASSUME NEW b \in Actors, removing'[b] = "files", removed'[b] \in entries'
        PROVE  removed'[b] \in raced'
    <3>1. b # a
      BY <2>1, <2>3 DEF RemoveEntry, EndRemoval
    <3>2. removing[b] = "files" /\ removed'[b] = removed[b]
      BY <2>3, <3>1 DEF RemoveEntry, EndRemoval
    <3> QED BY <2>1, <2>3, <3>2 DEF GoneRaced
  <2> QED BY <2>2, <2>3 DEF GoneRaced
<1>4. UnmarkedGood'
  BY DEF RemoveEntry, EndRemoval, UnmarkedGood
<1>5. UnracedKnown'
  BY DEF RemoveEntry, EndRemoval, UnracedKnown, UnmarkedAlone, GoneRaced, UnmarkedGood
<1>6. UnracedCurrent'
  BY DEF RemoveEntry, EndRemoval, UnracedCurrent, WatcherLags, UnmarkedAlone, UnmarkedGood, UnracedKnown
<1>7. EvictableInv'
  <2>1. \A j \in entries' \ raced' :
         Contains(lruOrder', j) \/ \E b \in Actors : removing'[b] = "entry" /\ removed'[b] = j
    <3> SUFFICES ASSUME NEW j \in entries' \ raced'
                 PROVE  \/ Contains(lruOrder, j)
                        \/ \E b \in Actors : removing'[b] = "entry" /\ removed'[b] = j
      BY DEF RemoveEntry
    <3>1. j \in entries \ raced /\ j # removed[a]
      BY DEF RemoveEntry, EndRemoval
    <3>2. ASSUME NEW b \in Actors, b # a
          PROVE  removing'[b] = removing[b] /\ removed'[b] = removed[b]
      BY <3>2 DEF RemoveEntry, EndRemoval
    <3>3. Contains(lruOrder, j) \/ \E b \in Actors : removing[b] = "entry" /\ removed[b] = j
      BY <3>1 DEF EvictableInv, UnracedEvictable
    <3> HIDE DEF CacheShape, CacheInv
    <3> QED BY <3>1, <3>2, <3>3
  <2>2. \A u \in Queriers : at'[u] = "store" /\ ~ overlapped'[u] => Contains(lruOrder', asked'[u])
    BY DEF RemoveEntry, EvictableInv
  <2>3. \A u \in Queriers : removing'[u] # "no" => at'[u] \in {"expired", "register"}
    <3>1. \A u \in Queriers : removing'[u] # "no" => removing[u] # "no"
      BY DEF RemoveEntry, EndRemoval
    <3> QED BY <3>1 DEF RemoveEntry, EvictableInv
  <2> QED BY <2>1, <2>2, <2>3 DEF EvictableInv, UnracedEvictable
<1> QED BY <1>1, <1>2, <1>3, <1>4, <1>5, <1>6, <1>7

LEMMA RemoveFileInv ==
  ASSUME CacheShape, CacheShape', CacheInv, NEW a \in Actors, RemoveFile(a)
  PROVE  CacheInv'
<1> USE DEF CacheShape, CacheInv, InFlight, Invalidating, DependentFiles,
            fileVars, storeVars, queryVars, removeVars, watchVars
<1>1. WatcherLags'
  BY DEF RemoveFile, WatcherLags
<1>2. UnmarkedAlone'
  BY DEF RemoveFile, UnmarkedAlone
<1>3. GoneRaced'
  BY DEF RemoveFile, GoneRaced, UnmarkedAlone
<1>4. UnmarkedGood'
  <2> SUFFICES ASSUME NEW u \in Queriers, InFlight(u), ~ overlapped[u]
               PROVE  /\ \A g \in CachedFiles \ unread[u] : found[u][g] >= settled[g]
                      /\ at[u] \in {"evict", "register"} =>
                           \A g \in DependentFiles(found[u]) \ unregistered[u] :
                             asked[u] \in dependents'[g]
                      /\ at[u] = "store" =>
                           \A g \in DependentFiles(found[u]) : asked[u] \in dependents'[g]
    BY DEF RemoveFile, UnmarkedGood
  <2>1. removed[a] # asked[u]
    BY DEF RemoveFile, UnmarkedAlone
  <2>2. \A g \in CachedFiles : asked[u] \in dependents[g] => asked[u] \in dependents'[g]
    BY <2>1 DEF RemoveFile
  <2> QED BY <2>2 DEF UnmarkedGood
<1>5. UnracedKnown'
  <2>1. UNCHANGED <<entries, raced, answers, watchAt, changedFile, doomed, removing, removed>>
    BY DEF RemoveFile
  <2>2. removed[a] \in entries => removed[a] \in raced
    BY DEF RemoveFile, GoneRaced
  <2>3. \A k \in entries \ raced, g \in CachedFiles : k \in dependents[g] => k \in dependents'[g]
    BY <2>2 DEF RemoveFile
  <2>4. UnracedKnown
    OBVIOUS
  <2> HIDE DEF CacheShape, CacheInv
  <2> QED BY <2>1, <2>3, <2>4 DEF UnracedKnown
<1>6. UnracedCurrent'
  BY DEF RemoveFile, UnracedCurrent, WatcherLags, UnmarkedAlone, UnmarkedGood, UnracedKnown
<1>7. EvictableInv'
  BY DEF RemoveFile, EvictableInv, UnracedEvictable
<1> QED BY <1>1, <1>2, <1>3, <1>4, <1>5, <1>6, <1>7

LEMMA RemoveRecentInv ==
  ASSUME CacheShape, CacheShape', CacheInv, NEW a \in Actors, RemoveRecent(a)
  PROVE  CacheInv'
<1> USE DEF CacheShape, CacheInv, InFlight, Invalidating, DependentFiles,
            fileVars, storeVars, queryVars, removeVars, watchVars
<1>1. WatcherLags'
  BY DEF RemoveRecent, EndRemoval, WatcherLags
<1>2. UnmarkedAlone'
  BY DEF RemoveRecent, EndRemoval, UnmarkedAlone
<1>3. GoneRaced'
  BY DEF RemoveRecent, EndRemoval, GoneRaced
<1>4. UnmarkedGood'
  BY DEF RemoveRecent, EndRemoval, UnmarkedGood
<1>5. UnracedKnown'
  BY DEF RemoveRecent, EndRemoval, UnracedKnown
<1>6. UnracedCurrent'
  BY DEF RemoveRecent, EndRemoval, UnracedCurrent
<1>7. EvictableInv'
  <2>1. \A j \in entries' \ raced' :
         Contains(lruOrder', j) \/ \E b \in Actors : removing'[b] = "entry" /\ removed'[b] = j
    <3> SUFFICES ASSUME NEW j \in entries \ raced
                 PROVE  \/ Contains(lruOrder', j)
                        \/ \E b \in Actors : removing'[b] = "entry" /\ removed'[b] = j
      BY DEF RemoveRecent
    <3>1. j # removed[a]
      BY DEF RemoveRecent, GoneRaced
    <3>2. Contains(lruOrder, j) => Contains(lruOrder', j)
      <4>1. lruOrder \in Seq(QueryKeys) /\ lruOrder' = Without(lruOrder, removed[a])
        BY DEF RemoveRecent
      <4> HIDE DEF CacheShape, CacheInv
      <4> QED BY <3>1, <4>1, WithoutKeeps
    <3>3. ASSUME NEW b \in Actors, removing[b] = "entry"
          PROVE  removing'[b] = "entry" /\ removed'[b] = removed[b]
      BY <3>3 DEF RemoveRecent, EndRemoval
    <3> QED BY <3>2, <3>3 DEF EvictableInv, UnracedEvictable
  <2>2. \A u \in Queriers : at'[u] = "store" /\ ~ overlapped'[u] => Contains(lruOrder', asked'[u])
    <3> SUFFICES ASSUME NEW u \in Queriers, at[u] = "store", ~ overlapped[u]
                 PROVE  Contains(lruOrder', asked[u])
      BY DEF RemoveRecent
    <3>1. Contains(lruOrder, asked[u])
      BY DEF EvictableInv
    <3>2. removed[a] # asked[u]
      BY DEF RemoveRecent, UnmarkedAlone
    <3> QED BY <3>1, <3>2, WithoutKeeps DEF RemoveRecent
  <2>3. \A u \in Queriers : removing'[u] # "no" => at'[u] \in {"expired", "register"}
    BY DEF RemoveRecent, EndRemoval, EvictableInv
  <2> QED BY <2>1, <2>2, <2>3 DEF EvictableInv, UnracedEvictable
<1> QED BY <1>1, <1>2, <1>3, <1>4, <1>5, <1>6, <1>7

LEMMA EditInv ==
  ASSUME CacheShape, CacheShape', CacheInv, NEW f \in CachedFiles, Edit(f)
  PROVE  CacheInv'
<1> USE DEF CacheShape, CacheInv, InFlight, Invalidating, DependentFiles,
            fileVars, storeVars, queryVars, removeVars, watchVars
<1>1. WatcherLags'
  BY DEF Edit, WatcherLags
<1>2. UnmarkedAlone'
  BY DEF Edit, UnmarkedAlone
<1>3. GoneRaced'
  BY DEF Edit, GoneRaced
<1>4. UnmarkedGood'
  BY DEF Edit, UnmarkedGood
<1>5. UnracedKnown'
  BY DEF Edit, UnracedKnown
<1>6. UnracedCurrent'
  BY DEF Edit, UnracedCurrent
<1>7. EvictableInv'
  BY DEF Edit, EvictableInv, UnracedEvictable
<1> QED BY <1>1, <1>2, <1>3, <1>4, <1>5, <1>6, <1>7

LEMMA StutterInv ==
  ASSUME CacheShape, CacheInv, UNCHANGED queryCacheVars
  PROVE  CacheInv'
BY DEF queryCacheVars, fileVars, storeVars, queryVars, removeVars, watchVars, CacheInv,
       WatcherLags, UnmarkedAlone, GoneRaced, UnmarkedGood, UnracedKnown, UnracedCurrent,
       InFlight, Invalidating, DependentFiles, EvictableInv, UnracedEvictable

LEMMA NextInv == CacheShape /\ CacheInv /\ [CacheNext]_queryCacheVars => CacheInv'
<1> SUFFICES ASSUME CacheShape, CacheInv, [CacheNext]_queryCacheVars PROVE CacheInv'
  OBVIOUS
<1>1. CacheShape'
  BY NextShape
<1>2. ASSUME NEW t \in Queriers, Querying(t) PROVE CacheInv'
  BY <1>1, <1>2, HitInv, ExpiredInv, MissInv, ReadSymbolsInv, ReadFilesInv, ReadFileInv,
     CheckRoomInv, EvictInv, RegisterInv, MarkRecentInv, StoreInv, ClearEntriesInv,
     ClearFilesInv, ClearRecentInv
     DEF Querying
<1>3. CASE Watching
  BY <1>1, <1>3, ReadChangeInv, ListChangeInv, CollectKeysInv, InvalidateKeyInv, DropFileInv,
     CollectRepoInv, RepoInvalidatedInv
     DEF Watching
<1>4. CASE Removals
  BY <1>1, <1>4, RemoveEntryInv, RemoveFileInv, RemoveRecentInv DEF Removals
<1>5. ASSUME NEW f \in CachedFiles, Edit(f) PROVE CacheInv'
  BY <1>1, <1>5, EditInv
<1> QED BY <1>2, <1>3, <1>4, <1>5, StutterInv DEF CacheNext

\* CacheInv holds in every reachable state: insert_with_files, remove and
\* invalidate_for_file, step by step, keep it for any number of files, queries and
\* threads.
THEOREM CacheInvariant == CacheSpec => []CacheInv
<1>1. CacheInit => CacheShape /\ CacheInv
  BY InitShape, InitInv
<1>2. CacheShape /\ CacheInv /\ [CacheNext]_queryCacheVars => (CacheShape /\ CacheInv)'
  BY NextShape, NextInv
<1> QED BY <1>1, <1>2, PTL DEF CacheSpec

\* An entry whose insertion (insert_with_files) overlapped no removal of its key and
\* no invalidation is never older than a change of a listed file the watcher has
\* dealt with.
THEOREM CacheUnracedCurrent == CacheSpec => []UnracedCurrent
<1>1. CacheInv => UnracedCurrent
  BY DEF CacheInv
<1> QED BY <1>1, CacheInvariant, PTL

\* evict_lru can always make room of an entry whose insertion raced nothing: its key is
\* in lru_order, or an actor is about to remove it.
THEOREM CacheUnracedEvictable == CacheSpec => []UnracedEvictable
<1>1. CacheInv => UnracedEvictable
  BY DEF CacheInv, EvictableInv
<1> QED BY <1>1, CacheInvariant, PTL

=============================================================================
