-------------------------- MODULE IndexStore_proofs --------------------------
(* Theorems about IndexStore, for every value of its constants. *)
EXTENDS IndexStore, TLAPS

-----------------------------------------------------------------------------
(* Type correctness. *)

\* The initial state is of the right type.
LEMMA InitTypeOK == Init => TypeOK
<1>1. NoRow \in Row /\ NoRows \in [Files -> Row] /\ NoFunctions \in [Files -> Content]
  BY DEF NoRow, Row, NoRows, NoFunctions, Content
<1>2. EmptyGraph \in [Files -> SUBSET Texts] /\ NoSnapshot \in GraphSnapshot
  BY <1>1 DEF EmptyGraph, NoSnapshot, GraphSnapshot
<1>3. NothingPersisted \in [warm : BOOLEAN, format : BOOLEAN, rows : [Files -> Row],
                            stamp : Nat, torn : BOOLEAN]
  BY <1>1 DEF NothingPersisted
<1>4. NoChanges \in [Files -> Change]
  BY DEF NoChanges, Change
<1> SUFFICES ASSUME Init PROVE TypeOK
  OBVIOUS
<1>5. EnvTypeOK
  BY DEF Init, EnvTypeOK, Content
<1>6. StoreTypeOK
  BY <1>1, <1>2 DEF Init, StoreTypeOK
<1>7. MemoryTypeOK
  BY <1>1, <1>2 DEF Init, MemoryTypeOK
<1>8. WalkTypeOK
  BY <1>1, <1>3 DEF Init, WalkTypeOK
<1>9. WatchTypeOK
  BY <1>4 DEF Init, WatchTypeOK
<1>10. SaveTypeOK
  BY <1>1, <1>2 DEF Init, SaveTypeOK, Idle
<1> QED
  BY <1>5, <1>6, <1>7, <1>8, <1>9, <1>10 DEF TypeOK

\* An edit changes the disk and the watcher's buffer only.
LEMMA EditTypeOK ==
  ASSUME TypeOK, NEW f \in Files, NEW text \in Content, Edit(f, text)
  PROVE  TypeOK'
<1>1. EnvTypeOK'
  BY DEF TypeOK, EnvTypeOK, Edit
<1>2. WatchTypeOK'
  BY DEF TypeOK, WatchTypeOK, Edit, Change
<1> QED
  BY <1>1, <1>2 DEF TypeOK, StoreTypeOK, MemoryTypeOK, WalkTypeOK, SaveTypeOK, Edit,
                    storeVars, memoryVars, walkVars, saveVars

\* The end of the process empties what was in memory.
LEMMA StopTypeOK ==
  ASSUME TypeOK, Stop
  PROVE  TypeOK'
<1>1. EnvTypeOK' /\ StoreTypeOK' /\ WalkTypeOK'
  BY DEF TypeOK, EnvTypeOK, StoreTypeOK, WalkTypeOK, Stop, storeVars
<1>2. MemoryTypeOK'
  BY DEF TypeOK, MemoryTypeOK, Stop, NoFunctions, EmptyGraph, Content
<1>3. WatchTypeOK'
  BY DEF TypeOK, WatchTypeOK, Stop, NoChanges, Change
<1>4. SaveTypeOK'
  BY DEF TypeOK, SaveTypeOK, Stop, Idle
<1> QED
  BY <1>1, <1>2, <1>3, <1>4 DEF TypeOK

LEMMA SearchTypeOK ==
  ASSUME TypeOK, Search
  PROVE  TypeOK'
<1>1. MemoryTypeOK'
  BY DEF TypeOK, MemoryTypeOK, Search, memoryVars
<1> QED
  BY <1>1 DEF TypeOK, EnvTypeOK, StoreTypeOK, WalkTypeOK, WatchTypeOK, SaveTypeOK, Search,
              envVars, storeVars, walkVars, watchVars, saveVars

\* What a start takes from the store is a persisted index.
LEMMA BootTypeOK ==
  ASSUME TypeOK, Boot
  PROVE  TypeOK'
<1>1. MemoryTypeOK'
  BY DEF TypeOK, StoreTypeOK, MemoryTypeOK, Boot, Row
<1>2. WalkTypeOK'
  BY DEF TypeOK, StoreTypeOK, WalkTypeOK, Boot
<1> QED
  BY <1>1, <1>2 DEF TypeOK, EnvTypeOK, StoreTypeOK, WatchTypeOK, SaveTypeOK, Boot,
                    envVars, storeVars, watchVars, saveVars

LEMMA WalkBeginTypeOK ==
  ASSUME TypeOK, WalkBegin
  PROVE  TypeOK'
<1>1. MemoryTypeOK'
  BY DEF TypeOK, StoreTypeOK, MemoryTypeOK, GraphSnapshot, WalkBegin
<1>2. WalkTypeOK'
  BY DEF TypeOK, EnvTypeOK, WalkTypeOK, WalkBegin, NoFunctions, Content
<1> QED
  BY <1>1, <1>2 DEF TypeOK, EnvTypeOK, StoreTypeOK, WatchTypeOK, SaveTypeOK, WalkBegin,
                    envVars, storeVars, watchVars, saveVars

\* A file that is there is indexed by a text, and its symbols are of a content.
LEMMA WalkFileTypeOK ==
  ASSUME TypeOK, NEW f \in Files, WalkFile(f)
  PROVE  TypeOK'
<1>1. FileSymbols(f) \in Content
  BY DEF TypeOK, EnvTypeOK, WalkTypeOK, Row, FileSymbols
<1>2. OnDisk(f) => disk[f].text \in Texts
  BY DEF TypeOK, EnvTypeOK, OnDisk, Content
<1>3. OnDisk(f) => Reindexed(f) \in SUBSET Texts
  BY <1>2 DEF TypeOK, MemoryTypeOK, Reindexed
<1>4. MemoryTypeOK'
  <2>1. CASE ~ OnDisk(f)
    BY <2>1 DEF TypeOK, MemoryTypeOK, WalkFile
  <2>2. CASE OnDisk(f)
    <3>1. documents' \in [Files -> SUBSET Texts]
      BY <2>2, <1>3 DEF TypeOK, MemoryTypeOK, WalkFile
    <3>2. graph' \in [Files -> SUBSET Texts] /\ registered' \in [Files -> Content]
      BY <2>2, <1>2 DEF TypeOK, MemoryTypeOK, WalkFile, Content
    <3> QED
      BY <2>2, <3>1, <3>2 DEF TypeOK, MemoryTypeOK, WalkFile
  <2> QED
    BY <2>1, <2>2
<1>5. WalkTypeOK'
  BY <1>1 DEF TypeOK, WalkTypeOK, WalkFile
<1> QED
  BY <1>4, <1>5 DEF TypeOK, EnvTypeOK, StoreTypeOK, WatchTypeOK, SaveTypeOK, WalkFile,
                    envVars, storeVars, watchVars, saveVars

LEMMA WalkInsertTypeOK ==
  ASSUME TypeOK, WalkInsert
  PROVE  TypeOK'
  BY DEF TypeOK, EnvTypeOK, StoreTypeOK, MemoryTypeOK, WalkTypeOK, WatchTypeOK, SaveTypeOK,
         WalkInsert, envVars, storeVars, watchVars, saveVars

LEMMA WalkCommitTypeOK ==
  ASSUME TypeOK, WalkCommit
  PROVE  TypeOK'
<1>1. MemoryTypeOK'
  BY DEF TypeOK, StoreTypeOK, MemoryTypeOK, WalkTypeOK, GraphSnapshot, WalkCommit
<1> QED
  BY <1>1 DEF TypeOK, EnvTypeOK, StoreTypeOK, WalkTypeOK, WatchTypeOK, SaveTypeOK, WalkCommit,
              envVars, storeVars, watchVars, saveVars

LEMMA ReindexTypeOK ==
  ASSUME TypeOK, Reindex
  PROVE  TypeOK'
<1>1. EnvTypeOK'
  BY DEF TypeOK, EnvTypeOK, Reindex
<1>2. MemoryTypeOK'
  BY DEF TypeOK, MemoryTypeOK, Reindex, NoFunctions, Content
<1>3. WalkTypeOK'
  BY DEF TypeOK, WalkTypeOK, Reindex, NothingPersisted, NoRows, NoRow, Row, Content
<1> QED
  BY <1>1, <1>2, <1>3 DEF TypeOK, StoreTypeOK, WatchTypeOK, SaveTypeOK, Reindex,
                    storeVars, watchVars, saveVars

LEMMA WatchReceiveTypeOK ==
  ASSUME TypeOK, NEW batch \in SUBSET Files, WatchReceive(batch)
  PROVE  TypeOK'
<1>1. WatchTypeOK'
  BY DEF TypeOK, WatchTypeOK, WatchReceive, Change
<1> QED
  BY <1>1 DEF TypeOK, EnvTypeOK, StoreTypeOK, MemoryTypeOK, WalkTypeOK, SaveTypeOK, WatchReceive,
              envVars, storeVars, memoryVars, walkVars, saveVars

LEMMA WatchFileTypeOK ==
  ASSUME TypeOK, NEW f \in Files, WatchFile(f)
  PROVE  TypeOK'
<1>1. OnDisk(f) => disk[f].text \in Texts
  BY DEF TypeOK, EnvTypeOK, OnDisk, Content
<1>2. /\ symbols' \in [Files -> Content] /\ fileCache' \subseteq Files
      /\ documents' \in [Files -> SUBSET Texts]
      /\ watchSources' \in SUBSET [file : Files, text : Content]
  <2>1. CASE WatchSkip(f)
    BY <2>1 DEF TypeOK, MemoryTypeOK, WatchTypeOK, WatchSkip
  <2>2. CASE WatchModified(f)
    BY <2>2, <1>1 DEF TypeOK, MemoryTypeOK, WatchTypeOK, WatchModified, Content
  <2>3. CASE WatchDeleted(f)
    BY <2>3 DEF TypeOK, MemoryTypeOK, WatchTypeOK, WatchDeleted, Content
  <2> QED
    BY <2>1, <2>2, <2>3 DEF WatchFile
<1>3. MemoryTypeOK'
  BY <1>2 DEF TypeOK, MemoryTypeOK, WatchFile
<1>4. WatchTypeOK'
  BY <1>2 DEF TypeOK, WatchTypeOK, WatchFile, Change
<1> QED
  BY <1>3, <1>4 DEF TypeOK, EnvTypeOK, StoreTypeOK, WalkTypeOK, SaveTypeOK, WatchFile,
                    envVars, storeVars, walkVars, saveVars

\* Every source of a batch names one of the files and a content.
LEMMA WatchGraphTypeOK ==
  ASSUME TypeOK, WatchGraph
  PROVE  TypeOK'
<1> DEFINE of(f) == CHOOSE source \in watchSources : source.file = f
           updated == IF CallGraphEnabled THEN {source.file : source \in watchSources} ELSE {}
<1>1. ASSUME NEW f \in updated
      PROVE  of(f) \in [file : Files, text : Content] /\ of(f).file = f
  <2>1. PICK source \in watchSources : source.file = f
    BY <1>1
  <2>2. of(f) \in watchSources /\ of(f).file = f
    BY <2>1
  <2> QED
    BY <2>2 DEF TypeOK, WatchTypeOK
<1>2. ASSUME NEW f \in updated
      PROVE  GraphAfter(of(f)) \in SUBSET Texts
  <2>1. f \in Files /\ of(f).file = f /\ of(f).text \in Content
    BY <1>1, <1>2
  <2>2. graph[f] \in SUBSET Texts /\ {of(f).text} \ {NoText} \in SUBSET Texts
    BY <2>1 DEF TypeOK, MemoryTypeOK, Content
  <2> HIDE DEF of
  <2> QED
    BY <2>1, <2>2 DEF GraphAfter
<1>3. graph' = [f \in Files |-> IF f \in updated THEN GraphAfter(of(f)) ELSE graph[f]]
  BY DEF WatchGraph
<1>4. registered' = [f \in Files |-> IF f \in updated THEN of(f).text ELSE registered[f]]
  BY DEF WatchGraph
<1> HIDE DEF of, updated
<1>5. graph' \in [Files -> SUBSET Texts]
  BY <1>2, <1>3 DEF TypeOK, MemoryTypeOK
<1>6. registered' \in [Files -> Content]
  BY <1>1, <1>4 DEF TypeOK, MemoryTypeOK
<1>7. MemoryTypeOK'
  BY <1>5, <1>6 DEF TypeOK, MemoryTypeOK, WatchGraph
<1>8. WatchTypeOK'
  BY DEF TypeOK, WatchTypeOK, WatchGraph
<1> QED
  BY <1>7, <1>8 DEF TypeOK, EnvTypeOK, StoreTypeOK, WalkTypeOK, SaveTypeOK, WatchGraph,
                    envVars, storeVars, walkVars, saveVars

\* A save writes rows and a snapshot of the right type.
LEMMA SaveStepTypeOK ==
  ASSUME TypeOK, NEW s \in Savers, Save(s)
  PROVE  TypeOK'
<1> USE DEF TypeOK
<1>1. CASE SaveBegin(s)
  BY <1>1 DEF EnvTypeOK, StoreTypeOK, MemoryTypeOK, WalkTypeOK, WatchTypeOK, SaveTypeOK,
              SaveBegin, envVars, storeVars, memoryVars, walkVars, watchVars
<1>2. CASE SaveGraphRead(s)
  <2>1. [stamp |-> saveStamp[s], nodes |-> graph, registered |-> registered,
         torn |-> persisted.torn] \in GraphSnapshot
    BY DEF MemoryTypeOK, WalkTypeOK, SaveTypeOK, GraphSnapshot
  <2> QED
    BY <1>2, <2>1 DEF EnvTypeOK, StoreTypeOK, MemoryTypeOK, WalkTypeOK, WatchTypeOK, SaveTypeOK,
                      SaveGraphRead, envVars, storeVars, memoryVars, walkVars, watchVars
<1>3. CASE SaveGraphWrite(s)
  BY <1>3 DEF EnvTypeOK, StoreTypeOK, MemoryTypeOK, WalkTypeOK, WatchTypeOK, SaveTypeOK,
              SaveGraphWrite, envVars, memoryVars, walkVars, watchVars
<1>4. CASE SaveSymbols(s)
  <2>1. SaveTypeOK'
    BY <1>4 DEF MemoryTypeOK, SaveTypeOK, SaveSymbols
  <2> QED
    BY <1>4, <2>1 DEF EnvTypeOK, StoreTypeOK, MemoryTypeOK, WalkTypeOK, WatchTypeOK,
                      SaveSymbols, envVars, storeVars, memoryVars, walkVars, watchVars
<1>5. CASE SaveStat(s)
  <2>1. ASSUME NEW f \in Files
        PROVE  [mtime |-> disk[f].mtime,
                hash |-> IF rows[f].mtime = disk[f].mtime THEN rows[f].hash ELSE disk[f].text,
                symbols |-> saveSymbols[s][f]] \in Row
    BY DEF EnvTypeOK, StoreTypeOK, SaveTypeOK, Row
  <2>2. NoRow \in Row
    BY DEF NoRow, Row, Content
  <2>3. saveRows'[s] \in [Files -> Row]
    BY <1>5, <2>1, <2>2 DEF SaveStat, SaveTypeOK
  <2>4. saveRows' \in [Savers -> [Files -> Row]]
    BY <1>5, <2>3 DEF SaveStat, SaveTypeOK
  <2>5. SaveTypeOK'
    BY <1>5, <2>4 DEF SaveStat, SaveTypeOK
  <2> QED
    BY <1>5, <2>5 DEF EnvTypeOK, StoreTypeOK, MemoryTypeOK, WalkTypeOK, WatchTypeOK,
                      SaveStat, envVars, storeVars, memoryVars, walkVars, watchVars
<1>6. CASE SaveRows(s)
  BY <1>6 DEF EnvTypeOK, StoreTypeOK, MemoryTypeOK, WalkTypeOK, WatchTypeOK, SaveTypeOK,
              SaveRows, envVars, memoryVars, walkVars, watchVars
<1>7. CASE SaveFormat(s)
  BY <1>7 DEF EnvTypeOK, StoreTypeOK, MemoryTypeOK, WalkTypeOK, WatchTypeOK, SaveTypeOK,
              SaveFormat, envVars, memoryVars, walkVars, watchVars
<1>8. CASE SaveStamp(s)
  BY <1>8 DEF EnvTypeOK, StoreTypeOK, MemoryTypeOK, WalkTypeOK, WatchTypeOK, SaveTypeOK,
              SaveStamp, envVars, memoryVars, walkVars, watchVars
<1>9. CASE SaveEnd(s)
  <2>1. EnvTypeOK' /\ StoreTypeOK' /\ MemoryTypeOK'
    BY <1>9 DEF EnvTypeOK, StoreTypeOK, MemoryTypeOK, SaveEnd, envVars, storeVars, memoryVars
  <2>2. WalkTypeOK'
    BY <1>9 DEF WalkTypeOK, SaveEnd
  <2>3. WatchTypeOK'
    BY <1>9 DEF WatchTypeOK, SaveEnd
  <2>4. SaveTypeOK'
    BY <1>9 DEF SaveTypeOK, SaveEnd
  <2> QED
    BY <2>1, <2>2, <2>3, <2>4
<1> QED
  BY <1>1, <1>2, <1>3, <1>4, <1>5, <1>6, <1>7, <1>8, <1>9 DEF Save

\* TypeOK holds in every state: no crash, restart or interleaving of the walk,
\* the watcher and the two saves takes a variable out of its type.
THEOREM TypeCorrect == Spec => []TypeOK
<1>1. Init => TypeOK
  BY InitTypeOK
<1>2. TypeOK /\ [Next]_vars => TypeOK'
  <2> SUFFICES ASSUME TypeOK, [Next]_vars PROVE TypeOK'
    OBVIOUS
  <2>1. CASE \E f \in Files, text \in Content : Edit(f, text)
    BY <2>1, EditTypeOK
  <2>2. CASE Stop \/ Boot \/ Search \/ Reindex
    BY <2>2, StopTypeOK, BootTypeOK, SearchTypeOK, ReindexTypeOK
  <2>3. CASE Walk
    BY <2>3, WalkBeginTypeOK, WalkFileTypeOK, WalkInsertTypeOK, WalkCommitTypeOK DEF Walk
  <2>4. CASE Watch
    BY <2>4, WatchReceiveTypeOK, WatchFileTypeOK, WatchGraphTypeOK DEF Watch
  <2>5. CASE \E s \in Savers : Save(s)
    BY <2>5, SaveStepTypeOK
  <2>6. CASE UNCHANGED vars
    BY <2>6 DEF TypeOK, EnvTypeOK, StoreTypeOK, MemoryTypeOK, WalkTypeOK, WatchTypeOK, SaveTypeOK,
                vars, envVars, storeVars, memoryVars, walkVars, watchVars, saveVars
  <2> QED
    BY <2>1, <2>2, <2>3, <2>4, <2>5, <2>6 DEF Next
<1> QED
  BY <1>1, <1>2, PTL DEF Spec

-----------------------------------------------------------------------------
(* Files edited only while the server is down. *)

\* A file that did not change since a truthful record has its recorded symbols.
LEMMA UnchangedSymbols ==
  ASSUME NEW rs, Truthful(rs), NEW f \in Files, UnchangedSince(rs, f)
  PROVE  rs[f].symbols = disk[f].text
BY DEF Truthful, UnchangedSince, NeedsReindex

\* What the walk takes for the symbols of a file that is there is what the
\* parser would extract.
LEMMA WalkedSymbols ==
  ASSUME OfflineInv, NEW f \in Files, OnDisk(f), walkPc = "files"
  PROVE  FileSymbols(f) = disk[f].text
<1>1. CASE graphLoaded
  <2>1. UnchangedSince(persisted.rows, f)
    BY <1>1 DEF OfflineInv
  <2> QED
    BY <1>1, <2>1, UnchangedSymbols DEF OfflineInv, FileSymbols
<1>2. CASE ~ graphLoaded
  BY <1>2 DEF OfflineInv, FileSymbols, NeedsReindex, Truthful
<1> QED
  BY <1>1, <1>2

LEMMA OfflineInit == Init => OfflineInv
<1> SUFFICES ASSUME Init PROVE OfflineInv
  OBVIOUS
<1>1. \A f \in Files : disk[f].mtime = 1
  BY DEF Init
<1>2. Truthful(NoRows)
  BY <1>1 DEF Truthful, NoRows, NoRow
<1> QED
  BY <1>1, <1>2 DEF Init, OfflineInv, NothingPersisted, Idle, Savers

LEMMA OfflineEdit ==
  ASSUME EditPhases \subseteq {"down"}, TypeOK, OfflineInv,
         NEW f \in Files, NEW text \in Content, Edit(f, text)
  PROVE  OfflineInv'
<1>1. ~ up /\ walkPc = "off" /\ savePc["walk"] = "idle"
  BY DEF Edit, Phase, OfflineInv
<1>2. /\ disk' = [disk EXCEPT ![f] = [text |-> text, mtime |-> disk[f].mtime + 1]]
      /\ disk \in [Files -> [text : Content, mtime : Nat]]
  BY DEF Edit, TypeOK, EnvTypeOK
<1>3. \A g \in Files : disk'[g].mtime # 0
  BY <1>2 DEF OfflineInv
<1>4. ASSUME NEW rs \in [Files -> Row], Truthful(rs)
      PROVE  Truthful(rs)'
  <2> SUFFICES ASSUME NEW g \in Files
               PROVE  /\ rs[g].symbols = rs[g].hash
                      /\ rs[g].mtime <= disk'[g].mtime
                      /\ rs[g].mtime = disk'[g].mtime /\ OnDisk(g)' => rs[g].hash = disk'[g].text
    BY DEF Truthful
  <2>1. rs[g].mtime \in Nat /\ disk[g].mtime \in Nat
    BY <1>2 DEF Row
  <2>2. CASE g = f
    BY <1>2, <1>4, <2>1, <2>2 DEF Truthful
  <2>3. CASE g # f
    BY <1>2, <1>4, <2>1, <2>3 DEF Truthful, OnDisk
  <2> QED
    BY <2>2, <2>3
<1>5. Truthful(rows)' /\ Truthful(persisted.rows)' /\ Truthful(saveRows["walk"])'
  <2>1. /\ rows \in [Files -> Row] /\ persisted.rows \in [Files -> Row]
        /\ saveRows["walk"] \in [Files -> Row]
    BY DEF TypeOK, StoreTypeOK, WalkTypeOK, SaveTypeOK, Savers
  <2>2. UNCHANGED <<rows, persisted, saveRows>>
    BY DEF Edit, storeVars, walkVars, saveVars
  <2> QED
    BY <1>4, <2>1, <2>2 DEF OfflineInv, Truthful, OnDisk
<1> QED
  BY <1>1, <1>3, <1>5 DEF Edit, OfflineInv, storeVars, memoryVars, walkVars, saveVars

LEMMA OfflineWalk ==
  ASSUME TypeOK, OfflineInv, Walk
  PROVE  OfflineInv'
<1> USE DEF OfflineInv
<1>0. /\ UNCHANGED <<disk, rows, up, pending, watchPc, savePc, saveRows, saveSymbols>>
      /\ persisted'.rows = persisted.rows
  <2>1. UNCHANGED <<disk, rows, up, pending, watchPc, savePc, saveRows, saveSymbols>>
    BY DEF Walk, WalkBegin, WalkFile, WalkInsert, WalkCommit, envVars, storeVars, watchVars, saveVars
  <2>2. CASE WalkBegin
    BY <2>1, <2>2 DEF WalkBegin, TypeOK, WalkTypeOK
  <2>3. CASE ~ WalkBegin
    BY <2>1, <2>3 DEF Walk, WalkFile, WalkInsert, WalkCommit
  <2> QED
    BY <2>2, <2>3
<1>1. /\ Truthful(rows)' /\ Truthful(persisted.rows)' /\ Truthful(saveRows["walk"])'
      /\ savePc'["walk"] = "idle"
  BY <1>0 DEF Truthful, OnDisk, Walk, WalkBegin, WalkFile, WalkInsert, WalkCommit
<1>2. CASE WalkBegin
  <2>1. \A f \in Files : IF f \in todo' THEN OnDisk(f)' ELSE acc'[f] = disk'[f].text
    BY <1>0, <1>2 DEF WalkBegin, NoFunctions, OnDisk
  <2>2. graphLoaded' => \A f \in Files : OnDisk(f) => UnchangedSince(persisted.rows, f)
    BY <1>2 DEF WalkBegin
  <2>3. graphLoaded' => \A f \in Files : OnDisk(f)' => UnchangedSince(persisted.rows, f)'
    BY <1>0, <2>2 DEF OnDisk, UnchangedSince, NeedsReindex
  <2> QED
    BY <1>0, <1>1, <1>2, <2>1, <2>3 DEF WalkBegin
<1>3. CASE \E f \in Files : WalkFile(f)
  <2>1. PICK f \in Files : WalkFile(f)
    BY <1>3
  <2>2. walkPc = "files" /\ walkPc' = "files" /\ graphLoaded' = graphLoaded /\ todo' = todo \ {f}
    BY <2>1 DEF WalkFile
  <2>3. OnDisk(f)
    BY <2>1 DEF WalkFile
  <2>4. acc' = [acc EXCEPT ![f] = FileSymbols(f)] /\ acc \in [Files -> Content]
    BY <2>1, <2>3 DEF WalkFile, TypeOK, WalkTypeOK
  <2>5. FileSymbols(f) = disk[f].text
    BY <2>2, <2>3, WalkedSymbols
  <2>6. \A g \in Files : IF g \in todo' THEN OnDisk(g)' ELSE acc'[g] = disk'[g].text
    BY <1>0, <2>2, <2>4, <2>5 DEF OnDisk
  <2>7. graphLoaded' => \A g \in Files : OnDisk(g)' => UnchangedSince(persisted.rows, g)'
    BY <1>0, <2>2 DEF OnDisk, UnchangedSince, NeedsReindex
  <2> QED
    BY <1>0, <1>1, <2>2, <2>6, <2>7
<1>4. CASE WalkInsert
  BY <1>0, <1>1, <1>4 DEF WalkInsert, OfSymbols
<1>5. CASE WalkCommit
  BY <1>0, <1>1, <1>5 DEF WalkCommit, OfSymbols
<1> QED
  BY <1>2, <1>3, <1>4, <1>5 DEF Walk

LEMMA OfflineSave ==
  ASSUME TypeOK, OfflineInv, NEW s \in Savers, Save(s)
  PROVE  OfflineInv'
<1> USE DEF OfflineInv, Savers
<1>0. UNCHANGED <<disk, up, pending, symbols, persisted, todo, acc, graphLoaded>>
  BY DEF Save, SaveBegin, SaveGraphRead, SaveGraphWrite, SaveSymbols, SaveStat, SaveRows,
         SaveFormat, SaveStamp, SaveEnd, envVars, memoryVars, walkVars, watchVars
<1>1. savePc \in [Savers -> {"idle", "symbols", "stat", "rows", "format", "stamp", "join"}] /\ saveSymbols \in [Savers -> [Files -> Content]]
      /\ saveRows \in [Savers -> [Files -> Row]]
  BY DEF TypeOK, SaveTypeOK
<1>2. Truthful(persisted.rows)'
  BY <1>0 DEF Truthful, OnDisk
<1>3. ASSUME UNCHANGED <<rows, saveRows>>
      PROVE  Truthful(rows)' /\ Truthful(saveRows["walk"])'
  BY <1>0, <1>3 DEF Truthful, OnDisk
<1>4. ASSUME walkPc' = walkPc
      PROVE  /\ walkPc' = "files" =>
                  \A f \in Files : IF f \in todo' THEN OnDisk(f)' ELSE acc'[f] = disk'[f].text
             /\ walkPc' = "files" /\ graphLoaded' =>
                  \A f \in Files : OnDisk(f)' => UnchangedSince(persisted.rows, f)'
             /\ walkPc' \in {"commit", "save", "done"} => OfSymbols(symbols)'
  BY <1>0, <1>4 DEF OnDisk, UnchangedSince, NeedsReindex, OfSymbols
<1>5. CASE SaveGraphRead(s) \/ SaveGraphWrite(s)
  <2>1. UNCHANGED <<rows, saveRows, walkPc, watchPc, savePc, saveSymbols>>
    BY <1>5 DEF SaveGraphRead, SaveGraphWrite, storeVars, walkVars, watchVars
  <2> QED
    BY <1>0, <1>2, <1>3, <1>4, <2>1 DEF OfSymbols
<1>6. CASE SaveBegin(s)
  <2>1. UNCHANGED <<rows, saveRows, walkPc, watchPc, saveSymbols>> /\ s = "walk"
    BY <1>6 DEF SaveBegin, WantsSave, storeVars, walkVars, watchVars
  <2>2. walkPc = "save" /\ savePc' = [savePc EXCEPT !["walk"] = "symbols"]
    BY <1>6, <2>1 DEF SaveBegin, WantsSave
  <2> QED
    BY <1>0, <1>1, <1>2, <1>3, <1>4, <2>1, <2>2
<1>7. ASSUME savePc[s] # "idle"
      PROVE  s = "walk" /\ walkPc = "save" /\ up /\ OfSymbols(symbols)
  BY <1>7
<1>8. CASE SaveSymbols(s)
  <2>1. UNCHANGED <<rows, saveRows, walkPc, watchPc>> /\ savePc[s] # "idle"
    BY <1>8 DEF SaveSymbols, storeVars, walkVars, watchVars
  <2>2. /\ savePc' = [savePc EXCEPT !["walk"] = "stat"]
        /\ saveSymbols' = [saveSymbols EXCEPT !["walk"] = symbols]
    BY <1>7, <1>8, <2>1 DEF SaveSymbols
  <2>3. OfSymbols(saveSymbols["walk"])'
    BY <1>0, <1>1, <1>7, <2>1, <2>2 DEF OfSymbols
  <2> QED
    BY <1>0, <1>1, <1>2, <1>3, <1>4, <1>7, <2>1, <2>2, <2>3
<1>9. CASE SaveStat(s)
  <2>1. UNCHANGED <<rows, saveSymbols, walkPc, watchPc>> /\ savePc[s] = "stat"
    BY <1>9 DEF SaveStat, storeVars, walkVars, watchVars
  <2>2. s = "walk" /\ walkPc = "save" /\ up /\ OfSymbols(saveSymbols["walk"])
    BY <1>7, <2>1
  <2>3. /\ savePc' = [savePc EXCEPT !["walk"] = "rows"]
        /\ saveRows'["walk"] =
             [f \in Files |->
                IF f \in saveFiles["walk"] /\ OnDisk(f)
                THEN [mtime |-> disk[f].mtime,
                      hash |-> IF rows[f].mtime = disk[f].mtime THEN rows[f].hash ELSE disk[f].text,
                      symbols |-> saveSymbols["walk"][f]]
                ELSE NoRow]
    BY <1>1, <1>9, <2>2 DEF SaveStat
  <2>4. ASSUME NEW f \in Files
        PROVE  /\ saveRows'["walk"][f].symbols = saveRows'["walk"][f].hash
               /\ saveRows'["walk"][f].mtime <= disk[f].mtime
               /\ saveRows'["walk"][f].mtime = disk[f].mtime /\ OnDisk(f) =>
                    saveRows'["walk"][f].hash = disk[f].text
    <3>1. disk[f].mtime \in Nat /\ disk[f].mtime # 0
      BY DEF TypeOK, EnvTypeOK
    <3>2. CASE f \in saveFiles["walk"] /\ OnDisk(f)
      BY <2>2, <2>3, <3>1, <3>2 DEF Truthful, OfSymbols
    <3>3. CASE ~ (f \in saveFiles["walk"] /\ OnDisk(f))
      BY <2>3, <3>1, <3>3 DEF NoRow
    <3> QED
      BY <3>2, <3>3
  <2>5. Truthful(saveRows["walk"])' /\ Truthful(rows)'
    BY <1>0, <2>1, <2>4 DEF Truthful, OnDisk
  <2> QED
    BY <1>0, <1>1, <1>2, <1>4, <2>1, <2>2, <2>3, <2>5
<1>10. CASE SaveRows(s)
  <2>1. UNCHANGED <<saveRows, saveSymbols, walkPc, watchPc>> /\ savePc[s] # "idle"
    BY <1>10 DEF SaveRows, walkVars, watchVars
  <2>2. rows' = saveRows["walk"] /\ savePc' = [savePc EXCEPT !["walk"] = "format"]
    BY <1>7, <1>10, <2>1 DEF SaveRows
  <2>3. Truthful(rows)' /\ Truthful(saveRows["walk"])'
    BY <1>0, <2>1, <2>2 DEF Truthful, OnDisk
  <2> QED
    BY <1>0, <1>1, <1>2, <1>4, <1>7, <2>1, <2>2, <2>3
<1>11. CASE SaveFormat(s) \/ SaveStamp(s)
  <2>1. UNCHANGED <<rows, saveRows, saveSymbols, walkPc, watchPc>> /\ savePc[s] # "idle"
    BY <1>11 DEF SaveFormat, SaveStamp, walkVars, watchVars
  <2>2. savePc'["walk"] # "stat" /\ savePc'["watch"] = "idle"
    BY <1>1, <1>7, <1>11, <2>1 DEF SaveFormat, SaveStamp
  <2> QED
    BY <1>0, <1>2, <1>3, <1>4, <1>7, <2>1, <2>2
<1>12. CASE SaveEnd(s)
  <2>1. UNCHANGED <<rows, saveRows, saveSymbols>> /\ savePc[s] # "idle"
    BY <1>12 DEF SaveEnd, storeVars
  <2>2. walkPc' = "done" /\ UNCHANGED watchPc /\ savePc' = [savePc EXCEPT !["walk"] = "idle"]
    BY <1>7, <1>12, <2>1 DEF SaveEnd
  <2>3. OfSymbols(symbols)'
    BY <1>0, <1>7, <2>1 DEF OfSymbols
  <2> QED
    BY <1>0, <1>1, <1>2, <1>3, <1>7, <2>1, <2>2, <2>3
<1> QED
  BY <1>5, <1>6, <1>8, <1>9, <1>10, <1>11, <1>12 DEF Save

\* Exits, starts, searches and `reindex' calls.
LEMMA OfflineServer ==
  ASSUME TypeOK, OfflineInv, Stop \/ Boot \/ Search \/ Reindex
  PROVE  OfflineInv'
<1> USE DEF OfflineInv
<1>1. UNCHANGED <<disk, rows, saveRows, pending, watchPc>>
  BY DEF Stop, Boot, Search, Reindex, storeVars, envVars, watchVars, saveVars, NoChanges
<1>2. Truthful(rows)' /\ Truthful(saveRows["walk"])' /\ Truthful(NoRows)'
  <2>1. \A f \in Files : disk[f].mtime \in Nat \ {0}
    BY DEF TypeOK, EnvTypeOK
  <2>2. Truthful(rows)' /\ Truthful(saveRows["walk"])'
    BY <1>1 DEF Truthful, OnDisk
  <2> QED
    BY <1>1, <2>1, <2>2 DEF Truthful, NoRows, NoRow
<1>3. CASE Stop
  BY <1>1, <1>2, <1>3 DEF Stop, Idle, Savers, Truthful, OnDisk
<1>4. CASE Boot
  BY <1>1, <1>2, <1>4 DEF Boot, saveVars, Truthful, OnDisk
<1>5. CASE Search
  BY <1>1, <1>2, <1>5 DEF Search, envVars, storeVars, memoryVars, walkVars, watchVars, saveVars,
                          Truthful, OnDisk, OfSymbols, UnchangedSince, NeedsReindex
<1>6. CASE Reindex
  BY <1>1, <1>2, <1>6 DEF Reindex, NothingPersisted, saveVars
<1> QED
  BY <1>3, <1>4, <1>5, <1>6

\* Without edits while the server runs, the watcher has nothing to do.
LEMMA OfflineWatch ==
  ASSUME OfflineInv
  PROVE  ~ Watch
<1>1. watchPc = "idle" /\ \A f \in Files : pending[f] = "none"
  BY DEF OfflineInv, NoChanges
<1>2. ASSUME NEW batch \in (SUBSET Files) \ {{}}, WatchReceive(batch)
      PROVE  FALSE
  <2>1. batch # {} /\ batch \subseteq Files /\ \A f \in batch : pending[f] # "none"
    BY <1>2 DEF WatchReceive
  <2> QED
    BY <1>1, <2>1
<1> QED
  BY <1>1, <1>2 DEF Watch, WatchFile, WatchGraph

\* OfflineInv is inductive: without edits while the server runs the watcher has
\* nothing to do, and the walk hands the present symbols to the save.
THEOREM OfflineInvariant == EditPhases \subseteq {"down"} /\ Spec => []OfflineInv
<1> SUFFICES ASSUME EditPhases \subseteq {"down"} PROVE Spec => []OfflineInv
  OBVIOUS
<1>1. TypeOK /\ OfflineInv /\ [Next]_vars => OfflineInv'
  <2> SUFFICES ASSUME TypeOK, OfflineInv, [Next]_vars PROVE OfflineInv'
    OBVIOUS
  <2>1. CASE \E f \in Files, text \in Content : Edit(f, text)
    BY <2>1, OfflineEdit
  <2>2. CASE Stop \/ Boot \/ Search \/ Reindex
    BY <2>2, OfflineServer
  <2>3. CASE Walk
    BY <2>3, OfflineWalk
  <2>4. CASE Watch
    BY <2>4, OfflineWatch
  <2>5. CASE \E s \in Savers : Save(s)
    BY <2>5, OfflineSave
  <2>6. CASE UNCHANGED vars
    BY <2>6 DEF OfflineInv, Truthful, OfSymbols, OnDisk, UnchangedSince, NeedsReindex,
                vars, envVars, storeVars, memoryVars, walkVars, watchVars, saveVars
  <2> QED
    BY <2>1, <2>2, <2>3, <2>4, <2>5, <2>6 DEF Next
<1> QED
  BY <1>1, OfflineInit, TypeCorrect, PTL DEF Spec

\* However often the server is stopped between two steps of a walk or a save,
\* rows of the store whose file did not change hold the symbols of the file, as
\* long as files are edited only while it is down.
THEOREM OfflineRowsTruthful == EditPhases \subseteq {"down"} /\ Spec => []RowsTruthful
<1>1. OfflineInv => RowsTruthful
  BY UnchangedSymbols DEF OfflineInv, RowsTruthful
<1> QED
  BY <1>1, OfflineInvariant, PTL

\* And what find_symbols answers from, once the server is ready, is the symbols
\* of the files on disk.
THEOREM OfflineSymbolsCurrent == EditPhases \subseteq {"down"} /\ Spec => []ReadySymbolsCurrent
<1>1. OfflineInv => ReadySymbolsCurrent
  BY DEF OfflineInv, ReadySymbolsCurrent, Settled, OfSymbols
<1> QED
  BY <1>1, OfflineInvariant, PTL

-----------------------------------------------------------------------------
(* The call graph, while files are edited only when the server is down. *)

AnyFile == \E f \in Files : OnDisk(f)
Functions(text) == {text} \ {NoText}

\* A saved graph holds what the rows of its save were computed from.
Paired(rs, nodes) ==
  Recorded(rs) # {} => \A f \in Files : nodes[f] = Functions(rs[f].hash)

\* The rows of a save that has just been made.
FileRows(rs) ==
  \A f \in Files : IF OnDisk(f) THEN rs[f].hash = disk[f].text ELSE rs[f] = NoRow

OfFiles(nodes) == AnyFile => \A f \in Files : nodes[f] = Functions(disk[f].text)

\* Every save has a stamp of its own, and what it has written carries it.
StampInv ==
  /\ stamp <= lastStamp /\ rowsStamp <= lastStamp /\ snapshot.stamp <= lastStamp
  /\ saveStamp["walk"] <= lastStamp
  /\ graphPc["watch"] = "idle"
  /\ graphPc["walk"] # "idle" => savePc["walk"] # "idle"
  /\ graphPc["walk"] = "write" => saveGraph["walk"].stamp = saveStamp["walk"]
  /\ savePc["walk"] \in {"symbols", "stat", "rows"} => rowsStamp # saveStamp["walk"]

\* Until the walk of a start begins, what it goes by is what the store holds.
BootInv ==
  walkPc = "begin" /\ walkBy = "startup" =>
    /\ persisted.rows = rows /\ persisted.stamp = stamp
    /\ persisted.torn = (rowsStamp # stamp \/ snapshot.torn)

\* The rows a save has gathered, and those it has written, are of the files.
SavedInv ==
  /\ savePc["walk"] = "stat" => \A f \in Files : OnDisk(f) => f \in saveFiles["walk"]
  /\ savePc["walk"] = "rows" => FileRows(saveRows["walk"])
  /\ savePc["walk"] \in {"format", "stamp", "join"} => FileRows(rows)

\* The graph of a process that has none yet, of one that walks, and of one that
\* has walked.
WalkedGraphInv ==
  /\ ~ up \/ (walkPc = "begin" /\ walkBy = "startup") => graph = EmptyGraph
  /\ walkPc = "begin" /\ walkBy = "reindex" => ~ persisted.warm
  /\ up /\ ~ persisted.torn =>
       /\ walkPc \in {"commit", "save", "done"} \/ (walkPc = "begin" /\ walkBy = "reindex") =>
            OfFiles(graph)
       /\ walkPc = "files" /\ AnyFile =>
            \A f \in Files :
              /\ graph[f] \subseteq Functions(disk[f].text)
              /\ f \notin todo \/ graphLoaded => graph[f] = Functions(disk[f].text)

\* The graph a save has read, and the one it has written before its rows.
SavedGraphInv ==
  /\ graphPc["walk"] = "write" /\ ~ saveGraph["walk"].torn => OfFiles(saveGraph["walk"].nodes)
  /\ savePc["walk"] \in {"symbols", "stat", "rows"} /\ snapshot.stamp = saveStamp["walk"]
       /\ ~ snapshot.torn =>
       OfFiles(snapshot.nodes)

\* The snapshot and the rows of one save belong together.
PairInv ==
  snapshot.stamp = rowsStamp /\ snapshot.stamp # 0 /\ ~ snapshot.torn =>
    Paired(rows, snapshot.nodes)

OfflineGraphInv ==
  /\ StampInv /\ BootInv /\ SavedInv
  /\ CallGraphEnabled => WalkedGraphInv /\ SavedGraphInv /\ PairInv

LEMMA OfflineGraphInit == Init => OfflineGraphInv
<1> SUFFICES ASSUME Init PROVE OfflineGraphInv
  OBVIOUS
<1>1. StampInv /\ BootInv /\ SavedInv
  BY DEF Init, StampInv, BootInv, SavedInv, Idle, Savers, NoSnapshot
<1>2. WalkedGraphInv /\ SavedGraphInv /\ PairInv
  BY DEF Init, WalkedGraphInv, SavedGraphInv, PairInv, Idle, Savers, NoSnapshot
<1> QED
  BY <1>1, <1>2 DEF OfflineGraphInv

\* Only the task that walked saves.
LEMMA OfflineSaver ==
  ASSUME OfflineInv, StampInv, NEW s \in Savers, Save(s)
  PROVE  s = "walk"
<1> SUFFICES ASSUME s = "watch" PROVE FALSE
  BY DEF Savers
<1>1. savePc["watch"] = "idle" /\ graphPc["watch"] = "idle" /\ watchPc = "idle"
  BY DEF OfflineInv, StampInv
<1> QED
  BY <1>1 DEF Save, SaveBegin, WantsSave, SaveGraphRead, SaveGraphWrite, SaveSymbols, SaveStat,
              SaveRows, SaveFormat, SaveStamp, SaveEnd

LEMMA OfflineGraphEdit ==
  ASSUME EditPhases \subseteq {"down"}, OfflineInv, OfflineGraphInv,
         NEW f \in Files, NEW text \in Content, Edit(f, text)
  PROVE  OfflineGraphInv'
<1>1. ~ up /\ walkPc = "off" /\ savePc["walk"] = "idle" /\ (StampInv => graphPc["walk"] = "idle")
  BY DEF Edit, Phase, OfflineInv, StampInv
<1>2. UNCHANGED <<storeVars, up, memoryVars, walkVars, saveVars>>
  BY DEF Edit
<1>3. StampInv' /\ BootInv' /\ SavedInv'
  BY <1>1, <1>2 DEF OfflineGraphInv, StampInv, BootInv, SavedInv, storeVars, walkVars, saveVars
<1>4. CallGraphEnabled => WalkedGraphInv' /\ SavedGraphInv' /\ PairInv'
  BY <1>1, <1>2 DEF OfflineGraphInv, WalkedGraphInv, SavedGraphInv, PairInv, StampInv, Paired, Recorded,
                    storeVars, memoryVars, walkVars, saveVars
<1> QED
  BY <1>3, <1>4 DEF OfflineGraphInv

LEMMA OfflineGraphServer ==
  ASSUME OfflineInv, OfflineGraphInv, Stop \/ Boot \/ Search \/ Reindex
  PROVE  OfflineGraphInv'
<1> USE DEF OfflineGraphInv
<1>1. /\ UNCHANGED <<disk, storeVars, lastStamp, saveStamp, saveFiles, saveRows, saveGraph>>
      /\ UNCHANGED <<savePc, graphPc>> \/ (savePc' = Idle /\ graphPc' = Idle)
  BY DEF Stop, Boot, Search, Reindex, envVars, storeVars, saveVars
<1>2. Idle["walk"] = "idle" /\ Idle["watch"] = "idle"
  BY DEF Idle, Savers
<1>3. StampInv' /\ SavedInv'
  BY <1>1, <1>2 DEF StampInv, SavedInv, FileRows, OnDisk, storeVars
<1>4. CallGraphEnabled => SavedGraphInv' /\ PairInv'
  BY <1>1, <1>2 DEF SavedGraphInv, PairInv, OfFiles, AnyFile, Paired, Recorded, OnDisk, storeVars
<1>5. BootInv' /\ (CallGraphEnabled => WalkedGraphInv')
  <2>1. CASE Stop
    BY <2>1 DEF Stop, BootInv, WalkedGraphInv
  <2>2. CASE Boot
    BY <1>1, <2>2 DEF Boot, BootInv, WalkedGraphInv, storeVars
  <2>3. CASE Search
    BY <1>1, <2>3 DEF Search, BootInv, WalkedGraphInv, OfFiles, AnyFile, OnDisk, storeVars, walkVars,
                      memoryVars
  <2>4. CASE Reindex
    <3>1. /\ UNCHANGED <<up, graph>> /\ walkPc = "done" /\ up
          /\ persisted'.torn = persisted.torn /\ ~ persisted'.warm
          /\ walkPc' = "begin" /\ walkBy' = "reindex"
      BY <2>4 DEF Reindex, NothingPersisted, OfflineInv
    <3> QED
      BY <1>1, <3>1 DEF BootInv, WalkedGraphInv, OfFiles, AnyFile, OnDisk
  <2> QED
    BY <2>1, <2>2, <2>3, <2>4
<1> QED
  BY <1>3, <1>4, <1>5

\* A snapshot loaded under the stamp of its rows, when no file changed since
\* they were written, is the graph of the files.
LEMMA LoadedGraph ==
  ASSUME TypeOK, OfflineInv, OfflineGraphInv, CallGraphEnabled, AnyFile,
         walkBy = "startup", WalkBegin, graphLoaded', ~ persisted'.torn
  PROVE  \A f \in Files : graph'[f] = Functions(disk[f].text)
<1>1. walkPc = "begin" /\ graph' = snapshot.nodes
  BY DEF WalkBegin
<1>2. /\ \A f \in Files : OnDisk(f) => UnchangedSince(persisted.rows, f)
      /\ \A f \in Files : ~ OnDisk(f) => persisted.rows[f] = NoRow
      /\ persisted.stamp # 0 /\ snapshot.stamp = persisted.stamp
  BY DEF WalkBegin, SnapshotOfTheSave, Recorded
<1>3. ~ persisted.torn
  BY DEF WalkBegin, TypeOK, WalkTypeOK
<1>4. persisted.rows = rows /\ rowsStamp = snapshot.stamp /\ ~ snapshot.torn
  BY <1>1, <1>2, <1>3 DEF OfflineGraphInv, BootInv
<1>5. Recorded(rows) # {}
  BY <1>2, <1>4 DEF AnyFile, UnchangedSince, Recorded
<1>6. \A f \in Files : snapshot.nodes[f] = Functions(rows[f].hash)
  BY <1>2, <1>4, <1>5 DEF OfflineGraphInv, PairInv, Paired
<1>7. ASSUME NEW f \in Files
      PROVE  rows[f].hash = disk[f].text
  <2>1. CASE OnDisk(f)
    BY <1>2, <1>4, <2>1 DEF OfflineInv, Truthful, UnchangedSince, NeedsReindex
  <2>2. CASE ~ OnDisk(f)
    BY <1>2, <1>4, <2>2 DEF NoRow, OnDisk
  <2> QED
    BY <2>1, <2>2
<1> QED
  BY <1>1, <1>6, <1>7

LEMMA OfflineGraphWalk ==
  ASSUME TypeOK, OfflineInv, OfflineGraphInv, Walk
  PROVE  OfflineGraphInv'
<1> USE DEF OfflineGraphInv
<1>1. UNCHANGED <<disk, storeVars, up, saveVars>> /\ walkPc' # "begin"
  BY DEF Walk, WalkBegin, WalkFile, WalkInsert, WalkCommit, envVars
<1>2. StampInv' /\ BootInv' /\ SavedInv'
  BY <1>1 DEF StampInv, BootInv, SavedInv, FileRows, OnDisk, storeVars, saveVars
<1>3. CallGraphEnabled => SavedGraphInv' /\ PairInv'
  BY <1>1 DEF SavedGraphInv, PairInv, OfFiles, AnyFile, Paired, Recorded, OnDisk, storeVars, saveVars
<1>4. up /\ up'
  BY <1>1 DEF OfflineInv, Walk, WalkBegin, WalkFile, WalkInsert, WalkCommit
<1>5. ASSUME CallGraphEnabled
      PROVE  WalkedGraphInv'
  <2>1. CASE WalkBegin
    <3>1. walkPc = "begin" /\ walkPc' = "files" /\ todo' = {f \in Files : OnDisk(f)}
      BY <2>1 DEF WalkBegin
    <3>2. SUFFICES ASSUME AnyFile, ~ persisted'.torn, NEW f \in Files
                   PROVE  /\ graph'[f] \subseteq Functions(disk[f].text)
                          /\ f \notin todo' \/ graphLoaded' => graph'[f] = Functions(disk[f].text)
      BY <1>1, <1>4, <3>1 DEF WalkedGraphInv, AnyFile, OnDisk
    <3>3. CASE walkBy = "startup" /\ graphLoaded'
      BY <1>5, <2>1, <3>2, <3>3, LoadedGraph
    <3>4. CASE walkBy = "startup" /\ ~ graphLoaded'
      <4>1. graph' = EmptyGraph
        BY <1>5, <2>1, <3>1, <3>4 DEF WalkBegin, WalkedGraphInv
      <4> QED
        BY <3>1, <3>4, <4>1 DEF EmptyGraph, Functions, OnDisk
    <3>5. CASE walkBy = "reindex"
      <4>1. ~ persisted.warm /\ ~ persisted.torn
        BY <1>5, <2>1, <3>1, <3>2, <3>5 DEF WalkedGraphInv, WalkBegin, TypeOK, WalkTypeOK
      <4>2. graph' = graph
        BY <2>1, <4>1 DEF WalkBegin, SameFormat
      <4>3. OfFiles(graph)
        BY <1>4, <1>5, <3>1, <3>5, <4>1 DEF WalkedGraphInv
      <4> QED
        BY <3>2, <4>2, <4>3 DEF OfFiles
    <3> QED
      BY <3>3, <3>4, <3>5 DEF TypeOK, WalkTypeOK
  <2>2. CASE \E f \in Files : WalkFile(f)
    <3>1. PICK f \in Files : WalkFile(f)
      BY <2>2
    <3>2. /\ walkPc = "files" /\ walkPc' = "files" /\ f \in todo /\ todo' = todo \ {f}
          /\ UNCHANGED <<graphLoaded, persisted>> /\ OnDisk(f)
      BY <3>1 DEF WalkFile, OfflineInv
    <3>3. graph' = IF graphLoaded THEN graph ELSE [graph EXCEPT ![f] = @ \cup {disk[f].text}]
      BY <1>5, <3>1, <3>2 DEF WalkFile
    <3>4. graph \in [Files -> SUBSET Texts]
      BY DEF TypeOK, MemoryTypeOK
    <3>5. SUFFICES ASSUME AnyFile, ~ persisted.torn, NEW g \in Files
                   PROVE  /\ graph'[g] \subseteq Functions(disk[g].text)
                          /\ g \notin todo' \/ graphLoaded => graph'[g] = Functions(disk[g].text)
      BY <1>1, <1>4, <3>2 DEF WalkedGraphInv, AnyFile, OnDisk
    <3>6. /\ graph[g] \subseteq Functions(disk[g].text)
          /\ g \notin todo \/ graphLoaded => graph[g] = Functions(disk[g].text)
      BY <1>4, <1>5, <3>2, <3>5 DEF WalkedGraphInv
    <3>7. CASE g = f
      BY <3>2, <3>3, <3>4, <3>6, <3>7 DEF Functions, OnDisk
    <3>8. CASE g # f
      BY <3>2, <3>3, <3>4, <3>6, <3>8
    <3> QED
      BY <3>7, <3>8
  <2>3. CASE WalkInsert
    BY <1>1, <1>4, <1>5, <2>3 DEF WalkInsert, WalkedGraphInv, OfFiles, AnyFile, OnDisk
  <2>4. CASE WalkCommit
    <3>1. /\ walkPc = "commit" /\ walkPc' \in {"save", "done"} /\ UNCHANGED persisted
          /\ graph' = IF TakesStartupGraph THEN snapshot.nodes ELSE graph
      BY <2>4 DEF WalkCommit
    <3>2. SUFFICES ASSUME AnyFile, ~ persisted.torn
                   PROVE  graph' = graph
      BY <1>1, <1>4, <1>5, <3>1 DEF WalkedGraphInv, OfFiles, AnyFile, OnDisk
    <3>3. graph # EmptyGraph
      BY <1>4, <1>5, <3>1, <3>2 DEF WalkedGraphInv, OfFiles, AnyFile, OnDisk, EmptyGraph, Functions
    <3> QED
      BY <3>1, <3>3 DEF TakesStartupGraph
  <2> QED
    BY <2>1, <2>2, <2>3, <2>4 DEF Walk
<1> QED
  BY <1>2, <1>3, <1>5

\* The graph of the files belongs to the rows of the files.
LEMMA SavedTogether ==
  ASSUME NEW rs, NEW nodes, FileRows(rs), OfFiles(nodes)
  PROVE  Paired(rs, nodes)
<1> SUFFICES ASSUME NEW g \in Files, rs[g] # NoRow, NEW f \in Files
             PROVE  nodes[f] = Functions(rs[f].hash)
  BY DEF Paired, Recorded
<1>1. AnyFile
  BY DEF FileRows, AnyFile
<1>2. rs[f].hash = disk[f].text
  BY DEF FileRows, OnDisk, NoRow
<1> QED
  BY <1>1, <1>2 DEF OfFiles

LEMMA OfflineGraphSave ==
  ASSUME TypeOK, OfflineInv, OfflineGraphInv, NEW s \in Savers, Save(s)
  PROVE  OfflineGraphInv'
<1> USE DEF OfflineGraphInv
<1>1. s = "walk" /\ "walk" \in Savers /\ "watch" \in Savers
  BY OfflineSaver DEF Savers
<1>2. UNCHANGED <<disk, up, graph, persisted, todo, graphLoaded, walkBy, fileCache, symbols>>
  BY DEF Save, SaveBegin, SaveGraphRead, SaveGraphWrite, SaveSymbols, SaveStat, SaveRows,
         SaveFormat, SaveStamp, SaveEnd, envVars, memoryVars, walkVars
<1>3. walkPc = "save" /\ walkPc' \in {"save", "done"} /\ up
  BY <1>1 DEF OfflineInv, StampInv, Save, SaveBegin, WantsSave, SaveGraphRead, SaveGraphWrite,
              SaveSymbols, SaveStat, SaveRows, SaveFormat, SaveStamp, SaveEnd, walkVars
<1>4. BootInv' /\ (CallGraphEnabled => WalkedGraphInv')
  BY <1>2, <1>3 DEF BootInv, WalkedGraphInv, OfFiles, AnyFile, OnDisk
<1>5. SaveTypeOK /\ StoreTypeOK
  BY DEF TypeOK
<1>7. CASE SaveBegin(s)
  <2>1. /\ UNCHANGED <<storeVars, saveGraph, saveRows, saveFiles>> /\ lastStamp' = lastStamp + 1
        /\ saveStamp'["walk"] = lastStamp + 1
        /\ savePc'["walk"] = "symbols" /\ graphPc'["walk"] \in {"idle", "read"}
        /\ graphPc'["watch"] = "idle"
    BY <1>1, <1>5, <1>7 DEF SaveBegin, SaveTypeOK, StampInv
  <2>2. StampInv' /\ SavedInv'
    BY <1>5, <2>1 DEF StampInv, SavedInv, StoreTypeOK, SaveTypeOK, GraphSnapshot, storeVars
  <2>3. SavedGraphInv' /\ (CallGraphEnabled => PairInv')
    BY <1>5, <2>1 DEF StampInv, SavedGraphInv, PairInv, Paired, Recorded, StoreTypeOK, SaveTypeOK,
                      GraphSnapshot, storeVars
  <2> QED
    BY <1>4, <2>2, <2>3
<1>8. CASE SaveGraphRead(s)
  <2>1. /\ UNCHANGED <<storeVars, saveRows, saveFiles, lastStamp, saveStamp, savePc>>
        /\ graphPc["walk"] = "read" /\ graphPc' = [graphPc EXCEPT !["walk"] = "write"]
        /\ saveGraph' = [saveGraph EXCEPT !["walk"] =
             [stamp |-> saveStamp["walk"], nodes |-> graph, registered |-> registered,
              torn |-> persisted.torn]]
    BY <1>1, <1>8 DEF SaveGraphRead
  <2>2. /\ saveGraph'["walk"].stamp = saveStamp["walk"] /\ saveGraph'["walk"].nodes = graph
        /\ saveGraph'["walk"].torn = persisted.torn
        /\ graphPc'["walk"] = "write" /\ graphPc'["watch"] = graphPc["watch"]
    BY <1>1, <1>5, <2>1 DEF SaveTypeOK
  <2>3. StampInv' /\ SavedInv'
    BY <1>2, <2>1, <2>2 DEF StampInv, SavedInv, FileRows, OnDisk, storeVars
  <2>4. CallGraphEnabled => SavedGraphInv' /\ PairInv'
    BY <1>2, <1>3, <2>1, <2>2 DEF SavedGraphInv, WalkedGraphInv, PairInv, Paired, Recorded, OfFiles,
                                  AnyFile, OnDisk, storeVars
  <2> QED
    BY <1>4, <2>3, <2>4
<1>9. CASE SaveGraphWrite(s)
  <2>1. /\ UNCHANGED <<rows, format, stamp, rowsStamp, saveRows, saveFiles, saveGraph, lastStamp,
                       saveStamp, savePc>>
        /\ graphPc["walk"] = "write" /\ snapshot' = saveGraph["walk"]
        /\ graphPc'["walk"] = "idle" /\ graphPc'["watch"] = graphPc["watch"]
    BY <1>1, <1>5, <1>9 DEF SaveGraphWrite, SaveTypeOK
  <2>2. StampInv' /\ SavedInv'
    BY <1>2, <2>1 DEF StampInv, SavedInv, FileRows, OnDisk
  <2>3. ASSUME CallGraphEnabled
        PROVE  SavedGraphInv' /\ PairInv'
    <3>1. ~ snapshot'.torn => OfFiles(snapshot'.nodes)
      BY <2>1, <2>3 DEF SavedGraphInv
    <3>2. SavedGraphInv'
      BY <1>2, <2>1, <3>1 DEF SavedGraphInv, OfFiles, AnyFile, OnDisk
    <3>3. snapshot'.stamp = rowsStamp => FileRows(rows)
      BY <1>1, <1>5, <2>1 DEF StampInv, SavedInv, SaveTypeOK
    <3>4. PairInv'
      BY <2>1, <3>1, <3>3, SavedTogether DEF PairInv, Paired, Recorded
    <3> QED
      BY <3>2, <3>4
  <2> QED
    BY <1>4, <2>2, <2>3
<1>10. CASE SaveSymbols(s)
  <2>1. /\ UNCHANGED <<storeVars, saveRows, saveGraph, lastStamp, saveStamp, graphPc>>
        /\ savePc["walk"] = "symbols" /\ savePc'["walk"] = "stat"
        /\ saveFiles'["walk"] = fileCache \cup {f \in Files : symbols[f] # NoText}
    BY <1>1, <1>5, <1>10 DEF SaveSymbols, SaveTypeOK
  <2>2. StampInv' /\ SavedInv'
    BY <1>2, <1>3, <2>1 DEF StampInv, SavedInv, OfflineInv, OfSymbols, OnDisk, storeVars
  <2>3. CallGraphEnabled => SavedGraphInv' /\ PairInv'
    BY <1>2, <2>1 DEF SavedGraphInv, PairInv, Paired, Recorded, OfFiles, AnyFile, OnDisk, storeVars
  <2> QED
    BY <1>4, <2>2, <2>3
<1>11. CASE SaveStat(s)
  <2>1. /\ UNCHANGED <<storeVars, saveFiles, saveGraph, lastStamp, saveStamp, graphPc>>
        /\ savePc["walk"] = "stat" /\ savePc'["walk"] = "rows"
        /\ saveRows'["walk"] =
             [f \in Files |->
                IF f \in saveFiles["walk"] /\ OnDisk(f)
                THEN [mtime |-> disk[f].mtime,
                      hash |-> IF rows[f].mtime = disk[f].mtime THEN rows[f].hash ELSE disk[f].text,
                      symbols |-> saveSymbols["walk"][f]]
                ELSE NoRow]
    BY <1>1, <1>5, <1>11 DEF SaveStat, SaveTypeOK
  <2>2. FileRows(saveRows'["walk"])
    BY <2>1 DEF FileRows, SavedInv, OfflineInv, Truthful
  <2>3. StampInv' /\ SavedInv'
    BY <1>2, <2>1, <2>2 DEF StampInv, SavedInv, FileRows, OnDisk, storeVars
  <2>4. CallGraphEnabled => SavedGraphInv' /\ PairInv'
    BY <1>2, <2>1 DEF SavedGraphInv, PairInv, Paired, Recorded, OfFiles, AnyFile, OnDisk, storeVars
  <2> QED
    BY <1>4, <2>3, <2>4
<1>12. CASE SaveRows(s)
  <2>1. /\ UNCHANGED <<format, stamp, snapshot, saveRows, saveFiles, saveGraph, lastStamp, saveStamp,
                       graphPc>>
        /\ savePc["walk"] = "rows" /\ savePc'["walk"] = "format"
        /\ rows' = saveRows["walk"] /\ rowsStamp' = saveStamp["walk"]
    BY <1>1, <1>5, <1>12 DEF SaveRows, SaveTypeOK
  <2>2. FileRows(rows')
    BY <2>1 DEF SavedInv
  <2>3. StampInv' /\ SavedInv'
    BY <1>2, <2>1, <2>2 DEF StampInv, SavedInv, FileRows, OnDisk
  <2>4. ASSUME CallGraphEnabled
        PROVE  SavedGraphInv' /\ PairInv'
    <3>1. SavedGraphInv'
      BY <1>2, <2>1, <2>4 DEF SavedGraphInv, OfFiles, AnyFile, OnDisk
    <3>2. snapshot.stamp = rowsStamp' /\ ~ snapshot.torn => OfFiles(snapshot.nodes)
      BY <2>1, <2>4 DEF SavedGraphInv
    <3>3. PairInv'
      BY <2>1, <2>2, <3>2, SavedTogether DEF PairInv, Paired, Recorded
    <3> QED
      BY <3>1, <3>3
  <2> QED
    BY <1>4, <2>3, <2>4
<1>13. CASE SaveFormat(s) \/ SaveStamp(s)
  <2>1. /\ UNCHANGED <<rows, rowsStamp, snapshot, saveRows, saveFiles, saveGraph, lastStamp, saveStamp,
                       graphPc>>
        /\ stamp' \in {stamp, saveStamp["walk"]}
        /\ savePc["walk"] \in {"format", "stamp"} /\ savePc'["walk"] \in {"stamp", "join"}
    BY <1>1, <1>5, <1>13 DEF SaveFormat, SaveStamp, SaveTypeOK
  <2>2. StampInv' /\ SavedInv'
    BY <1>2, <2>1 DEF StampInv, SavedInv, FileRows, OnDisk
  <2>3. CallGraphEnabled => SavedGraphInv' /\ PairInv'
    BY <1>2, <2>1 DEF SavedGraphInv, PairInv, Paired, Recorded, OfFiles, AnyFile, OnDisk
  <2> QED
    BY <1>4, <2>2, <2>3
<1>14. CASE SaveEnd(s)
  <2>1. /\ UNCHANGED <<storeVars, saveRows, saveFiles, saveGraph, lastStamp, saveStamp, graphPc>>
        /\ graphPc["walk"] = "idle" /\ savePc'["walk"] = "idle"
    BY <1>1, <1>5, <1>14 DEF SaveEnd, SaveTypeOK
  <2>2. StampInv' /\ SavedInv'
    BY <1>2, <2>1 DEF StampInv, SavedInv, storeVars
  <2>3. CallGraphEnabled => SavedGraphInv' /\ PairInv'
    BY <1>2, <2>1 DEF SavedGraphInv, PairInv, Paired, Recorded, storeVars
  <2> QED
    BY <1>4, <2>2, <2>3
<1> QED
  BY <1>7, <1>8, <1>9, <1>10, <1>11, <1>12, <1>13, <1>14 DEF Save

\* OfflineGraphInv is inductive, given OfflineInv: a stamp is given to one save
\* only, so a snapshot and rows of one stamp belong together whichever of the two
\* the save has written, and whatever it was cut off before.
THEOREM OfflineGraphInvariant ==
  EditPhases \subseteq {"down"} /\ Spec => []OfflineGraphInv
<1> SUFFICES ASSUME EditPhases \subseteq {"down"} PROVE Spec => []OfflineGraphInv
  OBVIOUS
<1>1. TypeOK /\ OfflineInv /\ OfflineGraphInv /\ [Next]_vars => OfflineGraphInv'
  <2> SUFFICES ASSUME TypeOK, OfflineInv, OfflineGraphInv, [Next]_vars PROVE OfflineGraphInv'
    OBVIOUS
  <2>1. CASE \E f \in Files, text \in Content : Edit(f, text)
    BY <2>1, OfflineGraphEdit
  <2>2. CASE Stop \/ Boot \/ Search \/ Reindex
    BY <2>2, OfflineGraphServer
  <2>3. CASE Walk
    BY <2>3, OfflineGraphWalk
  <2>4. CASE Watch
    BY <2>4, OfflineWatch
  <2>5. CASE \E s \in Savers : Save(s)
    BY <2>5, OfflineGraphSave
  <2>6. CASE UNCHANGED vars
    <3>1. UNCHANGED <<disk, storeVars, up, memoryVars, walkVars, saveVars>>
      BY <2>6 DEF vars, envVars
    <3>2. StampInv' /\ BootInv' /\ SavedInv'
      BY <3>1 DEF OfflineGraphInv, StampInv, BootInv, SavedInv, FileRows, OnDisk, storeVars, walkVars, saveVars
    <3>3. CallGraphEnabled => WalkedGraphInv' /\ SavedGraphInv' /\ PairInv'
      BY <3>1 DEF OfflineGraphInv, WalkedGraphInv, SavedGraphInv, PairInv, Paired, Recorded, OfFiles, AnyFile,
                  OnDisk, storeVars, memoryVars, walkVars, saveVars
    <3> QED
      BY <3>2, <3>3 DEF OfflineGraphInv
  <2> QED
    BY <2>1, <2>2, <2>3, <2>4, <2>5, <2>6 DEF Next
<1> QED
  BY <1>1, OfflineGraphInit, OfflineInvariant, TypeCorrect, PTL DEF Spec

\* The call graph is the one the files define once the server is ready, as long
\* as files are edited only while it is down: a walk that finds a file changed
\* makes the graph anew, and one that finds none changed loads it from the
\* snapshot, which was made with the rows of the same stamp.  Left out are the
\* graphs that were loaded after a save cut off between its rows and its stamp,
\* and the graphs that were saved from those.
THEOREM OfflineGraphCurrent ==
  EditPhases \subseteq {"down"} /\ Spec => []ReadyGraphCurrentUnlessTorn
<1>1. OfflineInv /\ OfflineGraphInv => ReadyGraphCurrentUnlessTorn
  BY DEF OfflineInv, OfflineGraphInv, WalkedGraphInv, OfFiles, AnyFile, Functions,
         ReadyGraphCurrentUnlessTorn, ReadyGraphCurrent, Settled, GraphCurrent
<1> QED
  BY <1>1, OfflineGraphInvariant, OfflineInvariant, PTL

-----------------------------------------------------------------------------
(* The search documents, while files are edited only when the server is down *)
(* and no edit brings back an earlier content.                               *)

\* A content is the number of the write that made it, and so is a recorded one.
Numbered ==
  \A f \in Files :
    /\ disk[f].text \in {NoText, disk[f].mtime}
    /\ rows[f].hash <= disk[f].mtime /\ saveRows["walk"][f].hash <= disk[f].mtime

\* Until the walk of a start is over, what it goes by is what the store holds.
StartedFrom ==
  walkPc \in {"begin", "files", "commit"} =>
    /\ walkBy = "startup" /\ persisted.rows = rows /\ persisted.format = format
    /\ persisted.warm = (Recorded(rows) # {})

\* Of rows of this build's format, those of unchanged files speak for documents.
Spoken(docs) ==
  \A f \in Files : format /\ UnchangedSince(rows, f) => docs[f] = {disk[f].text}

\* Every file is found by its content and no other.
Found(docs) == \A f \in Files : OnDisk(f) => docs[f] = {disk[f].text}

DocumentsInv ==
  /\ Numbered /\ StartedFrom
  /\ ~ up => documents = committed
  /\ Spoken(documents) /\ Spoken(committed)
  /\ walkPc = "files" =>
       \A f \in Files : OnDisk(f) =>
         IF f \in todo
         THEN /\ searchWarm \/ documents[f] = {}
              /\ searchWarm /\ UnchangedSince(rows, f) => documents[f] = {disk[f].text}
         ELSE documents[f] = {disk[f].text}
  /\ walkPc \in {"commit", "save", "done"} => Found(documents)
  /\ walkPc \in {"save", "done"} => Found(committed)

LEMMA FoundSpoken ==
  ASSUME NEW docs, Found(docs)
  PROVE  Spoken(docs)
BY DEF Found, Spoken, UnchangedSince

LEMMA DocumentsInit == Init => DocumentsInv
<1> SUFFICES ASSUME Init PROVE DocumentsInv
  OBVIOUS
<1>1. Numbered
  BY TextsAssumption DEF Init, Numbered, NoRows, NoRow, NoText, Savers
<1> QED
  BY <1>1 DEF Init, DocumentsInv, StartedFrom, Spoken

LEMMA DocumentsEdit ==
  ASSUME EditPhases \subseteq {"down"}, ~ Reverts, TypeOK, OfflineInv, DocumentsInv,
         NEW f \in Files, NEW text \in Content, Edit(f, text)
  PROVE  DocumentsInv'
<1> USE DEF DocumentsInv
<1>1. ~ up /\ walkPc = "off"
  BY DEF Edit, Phase, OfflineInv
<1>2. /\ UNCHANGED <<rows, format, saveRows, up, documents, committed, walkPc>>
      /\ text \in {NoText, disk[f].mtime + 1}
      /\ disk' = [disk EXCEPT ![f] = [text |-> text, mtime |-> disk[f].mtime + 1]]
      /\ disk \in [Files -> [text : Content, mtime : Nat]]
      /\ Content \subseteq Nat /\ rows \in [Files -> Row] /\ saveRows["walk"] \in [Files -> Row]
  <2>1. UNCHANGED <<rows, format, saveRows, up, documents, committed, walkPc>>
    BY DEF Edit, storeVars, memoryVars, walkVars, saveVars
  <2>2. /\ text \in {NoText, disk[f].mtime + 1}
        /\ disk' = [disk EXCEPT ![f] = [text |-> text, mtime |-> disk[f].mtime + 1]]
    BY DEF Edit
  <2>3. /\ disk \in [Files -> [text : Content, mtime : Nat]]
        /\ rows \in [Files -> Row] /\ saveRows["walk"] \in [Files -> Row]
    BY DEF TypeOK, EnvTypeOK, StoreTypeOK, SaveTypeOK, Savers
  <2>4. Content \subseteq Nat
    BY TextsAssumption DEF Content, NoText
  <2> QED
    BY <2>1, <2>2, <2>3, <2>4
<1>3. ASSUME NEW g \in Files
      PROVE  /\ disk'[g].text \in {NoText, disk'[g].mtime}
             /\ rows[g].hash <= disk'[g].mtime /\ saveRows["walk"][g].hash <= disk'[g].mtime
  <2>1. /\ disk[g].mtime \in Nat /\ rows[g].hash \in Nat /\ saveRows["walk"][g].hash \in Nat
        /\ rows[g].hash <= disk[g].mtime /\ saveRows["walk"][g].hash <= disk[g].mtime
        /\ disk[g].text \in {NoText, disk[g].mtime}
    BY <1>2 DEF Row, Numbered
  <2>2. CASE g = f
    BY <1>2, <2>1, <2>2
  <2>3. CASE g # f
    BY <1>2, <2>1, <2>3
  <2> QED
    BY <2>2, <2>3
<1>4. ~ UnchangedSince(rows, f)'
  <2>1. disk'[f].text = text /\ disk'[f].mtime = disk[f].mtime + 1 /\ disk[f].mtime \in Nat
    BY <1>2
  <2>2. /\ rows[f].mtime \in Nat /\ rows[f].mtime <= disk[f].mtime
        /\ rows[f].hash \in Nat /\ rows[f].hash <= disk[f].mtime
    BY <1>2 DEF Row, Numbered, OfflineInv, Truthful
  <2>3. rows[f].mtime # disk'[f].mtime
    BY <2>1, <2>2
  <2>4. text # NoText => rows[f].hash # text
    BY <1>2, <2>1, <2>2
  <2> QED
    BY <1>2, <2>1, <2>3, <2>4 DEF UnchangedSince, OnDisk, NeedsReindex
<1>5. \A g \in Files : g # f => disk'[g] = disk[g]
  BY <1>2
<1>6. Spoken(documents)' /\ Spoken(committed)'
  BY <1>2, <1>4, <1>5 DEF Spoken, UnchangedSince, OnDisk, NeedsReindex
<1>7. Numbered'
  BY <1>2, <1>3 DEF Numbered
<1> QED
  BY <1>1, <1>2, <1>6, <1>7 DEF StartedFrom

\* Exits, starts and searches.
LEMMA DocumentsServer ==
  ASSUME OfflineInv, DocumentsInv, Stop \/ Boot \/ Search
  PROVE  DocumentsInv'
<1> USE DEF DocumentsInv
<1>1. UNCHANGED <<disk, rows, format, saveRows>>
  BY DEF Stop, Boot, Search, envVars, storeVars, saveVars
<1>2. Numbered'
  BY <1>1 DEF Numbered
<1>3. CASE Stop
  BY <1>1, <1>2, <1>3 DEF Stop, StartedFrom, Spoken, UnchangedSince, OnDisk, NeedsReindex
<1>4. CASE Boot
  BY <1>1, <1>2, <1>4 DEF Boot, StartedFrom, Spoken, UnchangedSince, OnDisk, NeedsReindex
<1>5. CASE Search
  <2>1. UNCHANGED <<up, documents, walkPc, walkBy, persisted, todo, searchWarm>> /\ up
        /\ committed' = documents
    BY <1>5 DEF Search, memoryVars, walkVars
  <2> QED
    BY <1>1, <1>2, <2>1 DEF StartedFrom, Spoken, Found, UnchangedSince, OnDisk, NeedsReindex, Recorded
<1> QED
  BY <1>3, <1>4, <1>5

LEMMA DocumentsWalk ==
  ASSUME TypeOK, OfflineInv, DocumentsInv, Walk
  PROVE  DocumentsInv'
<1> USE DEF DocumentsInv
<1>1. UNCHANGED <<disk, rows, format, saveRows, up>> /\ up
  BY DEF Walk, WalkBegin, WalkFile, WalkInsert, WalkCommit, OfflineInv, envVars, storeVars, saveVars
<1>2. Numbered'
  BY <1>1 DEF Numbered
<1>3. CASE WalkBegin
  <2> DEFINE gone == Recorded(persisted.rows) \ {f \in Files : OnDisk(f)}
             warm == SameFormat /\ \E f \in Files : documents[f] # {}
  <2>1. /\ walkPc = "begin" /\ walkPc' = "files" /\ UNCHANGED walkBy
        /\ searchWarm' = warm /\ todo' = {f \in Files : OnDisk(f)}
        /\ documents' = [f \in Files |-> IF warm /\ f \notin gone THEN documents[f] ELSE {}]
        /\ committed' = IF SameFormat THEN documents ELSE committed
        /\ persisted' = [persisted EXCEPT !.torn = persisted'.torn]
    BY <1>3 DEF WalkBegin, TypeOK, WalkTypeOK
  <2>2. StartedFrom'
    BY <1>1, <2>1 DEF StartedFrom, Recorded, TypeOK, WalkTypeOK
  <2>3. ASSUME NEW f \in Files, format, UnchangedSince(rows, f)
        PROVE  warm /\ f \notin gone
    <3>1. documents[f] = {disk[f].text}
      BY <2>3 DEF Spoken
    <3>2. f \in Recorded(rows) /\ OnDisk(f)
      BY <2>3 DEF UnchangedSince, Recorded
    <3>3. SameFormat
      BY <2>1, <2>3, <3>2 DEF SameFormat, StartedFrom
    <3> QED
      BY <3>1, <3>2, <3>3
  <2>4. warm => format
    BY <2>1 DEF SameFormat, StartedFrom
  <2> HIDE DEF gone, warm
  <2>5. \A f \in Files : format /\ UnchangedSince(rows, f) => documents'[f] = {disk[f].text}
    BY <2>1, <2>3 DEF Spoken
  <2>6. \A f \in Files : OnDisk(f) =>
          /\ f \in todo' /\ (searchWarm' \/ documents'[f] = {})
          /\ searchWarm' /\ UnchangedSince(rows, f) => documents'[f] = {disk[f].text}
    BY <2>1, <2>4, <2>5
  <2>7. Spoken(documents)' /\ Spoken(committed)'
    BY <1>1, <2>1, <2>5 DEF Spoken, UnchangedSince, OnDisk, NeedsReindex
  <2> QED
    BY <1>1, <1>2, <2>1, <2>2, <2>6, <2>7 DEF UnchangedSince, OnDisk, NeedsReindex
<1>4. CASE \E f \in Files : WalkFile(f)
  <2>1. PICK f \in Files : WalkFile(f)
    BY <1>4
  <2>2. /\ walkPc = "files" /\ walkPc' = "files" /\ f \in todo /\ todo' = todo \ {f} /\ OnDisk(f)
        /\ UNCHANGED <<walkBy, persisted, searchWarm, committed>>
    BY <2>1 DEF WalkFile, OfflineInv
  <2>3. persisted.rows = rows
    BY <2>2 DEF StartedFrom
  <2>4. documents' = [documents EXCEPT ![f] = {disk[f].text}]
    <3>1. documents \in [Files -> SUBSET Texts]
      BY DEF TypeOK, MemoryTypeOK
    <3>2. CASE searchWarm /\ UnchangedSince(rows, f)
      <4>1. documents' = documents
        BY <2>1, <2>2, <2>3, <3>2 DEF WalkFile
      <4>2. documents[f] = {disk[f].text}
        BY <2>2, <3>2
      <4> QED
        BY <3>1, <4>1, <4>2
    <3>3. CASE ~ (searchWarm /\ UnchangedSince(rows, f))
      <4>1. documents' = [documents EXCEPT ![f] = Reindexed(f)]
        BY <2>1, <2>2, <2>3, <3>3 DEF WalkFile
      <4>2. Reindexed(f) = {disk[f].text}
        BY <2>2 DEF Reindexed
      <4> QED
        BY <4>1, <4>2
    <3> QED
      BY <3>2, <3>3
  <2>5. StartedFrom'
    BY <1>1, <2>2 DEF StartedFrom, Recorded
  <2>6. /\ documents'[f] = {disk[f].text}
        /\ \A g \in Files : g # f => documents'[g] = documents[g]
    BY <2>4 DEF TypeOK, MemoryTypeOK
  <2>7. Spoken(documents)' /\ Spoken(committed)'
    BY <1>1, <2>2, <2>6 DEF Spoken, UnchangedSince, OnDisk, NeedsReindex
  <2>8. \A g \in Files : OnDisk(g) =>
          IF g \in todo'
          THEN /\ searchWarm \/ documents'[g] = {}
               /\ searchWarm /\ UnchangedSince(rows, g) => documents'[g] = {disk[g].text}
          ELSE documents'[g] = {disk[g].text}
    BY <2>2, <2>6
  <2> QED
    BY <1>1, <1>2, <2>2, <2>5, <2>7, <2>8 DEF UnchangedSince, OnDisk, NeedsReindex
<1>5. CASE WalkInsert
  <2>1. /\ walkPc = "files" /\ todo = {} /\ walkPc' \in {"commit", "save"}
        /\ walkPc' = IF walkBy = "startup" THEN "commit" ELSE "save"
        /\ UNCHANGED <<walkBy, persisted, documents, committed>>
    BY <1>5 DEF WalkInsert
  <2>2. walkPc' = "commit" /\ StartedFrom'
    BY <1>1, <2>1 DEF StartedFrom, Recorded
  <2> QED
    BY <1>1, <1>2, <2>1, <2>2 DEF Spoken, Found, UnchangedSince, OnDisk, NeedsReindex
<1>6. CASE WalkCommit
  <2>1. walkPc = "commit" /\ walkPc' \in {"save", "done"} /\ committed' = documents
        /\ UNCHANGED documents
    BY <1>6 DEF WalkCommit
  <2> QED
    BY <1>1, <1>2, <2>1 DEF StartedFrom, Spoken, Found, UnchangedSince, OnDisk, NeedsReindex
<1> QED
  BY <1>3, <1>4, <1>5, <1>6 DEF Walk

LEMMA DocumentsSave ==
  ASSUME TypeOK, OfflineInv, StampInv, DocumentsInv, NEW s \in Savers, Save(s)
  PROVE  DocumentsInv'
<1> USE DEF DocumentsInv
<1>1. s = "walk" /\ "walk" \in Savers
  BY OfflineSaver DEF Savers
<1>2. UNCHANGED <<disk, up, documents, committed>>
  BY DEF Save, SaveBegin, SaveGraphRead, SaveGraphWrite, SaveSymbols, SaveStat, SaveRows,
         SaveFormat, SaveStamp, SaveEnd, envVars, memoryVars
<1>3. walkPc = "save" /\ walkPc' \in {"save", "done"} /\ up
  BY <1>1 DEF OfflineInv, StampInv, Save, SaveBegin, WantsSave, SaveGraphRead, SaveGraphWrite,
              SaveSymbols, SaveStat, SaveRows, SaveFormat, SaveStamp, SaveEnd, walkVars
<1>4. Found(documents)' /\ Found(committed)'
  BY <1>2, <1>3 DEF Found, OnDisk
<1>5. Spoken(documents)' /\ Spoken(committed)'
  BY <1>4 DEF Spoken, Found, UnchangedSince
<1>6. StartedFrom'
  BY <1>3 DEF StartedFrom
<1>7. Numbered'
  <2>1. CASE SaveStat(s)
    <3>1. /\ UNCHANGED rows
          /\ saveRows'["walk"] =
               [f \in Files |->
                  IF f \in saveFiles["walk"] /\ OnDisk(f)
                  THEN [mtime |-> disk[f].mtime,
                        hash |-> IF rows[f].mtime = disk[f].mtime THEN rows[f].hash ELSE disk[f].text,
                        symbols |-> saveSymbols["walk"][f]]
                  ELSE NoRow]
      BY <1>1, <2>1 DEF SaveStat, TypeOK, SaveTypeOK, storeVars
    <3>2. ASSUME NEW f \in Files
          PROVE  saveRows'["walk"][f].hash <= disk[f].mtime
      <4>1. disk[f].mtime \in Nat /\ disk[f].text \in {NoText, disk[f].mtime} /\ rows[f].hash <= disk[f].mtime
        BY DEF TypeOK, EnvTypeOK, Numbered
      <4> QED
        BY <3>1, <4>1 DEF NoRow, NoText
    <3> QED
      BY <1>2, <3>1, <3>2 DEF Numbered
  <2>2. CASE SaveRows(s)
    BY <1>1, <1>2, <2>2 DEF SaveRows, Numbered
  <2>3. CASE ~ SaveStat(s) /\ ~ SaveRows(s)
    <3>1. UNCHANGED <<rows, saveRows>>
      BY <2>3 DEF Save, SaveBegin, SaveGraphRead, SaveGraphWrite, SaveSymbols, SaveFormat, SaveStamp,
                  SaveEnd, storeVars
    <3> QED
      BY <1>2, <3>1 DEF Numbered
  <2> QED
    BY <2>1, <2>2, <2>3
<1> QED
  BY <1>2, <1>3, <1>4, <1>5, <1>6, <1>7

\* Once the server is ready, a search finds every file by its content and by no
\* earlier one, however often it was stopped between two steps of a walk, a
\* commit or a save, as long as files are edited only while it is down and get no
\* content a second time: the documents an unchanged row speaks for were committed
\* before the row.
THEOREM OfflineDocumentsCurrent ==
  EditPhases \subseteq {"down"} /\ ~ Reverts /\ MaxReindexes = 0 /\ Spec => []ReadyDocumentsCurrent
<1> SUFFICES ASSUME EditPhases \subseteq {"down"}, ~ Reverts, MaxReindexes = 0
             PROVE  Spec => []ReadyDocumentsCurrent
  OBVIOUS
<1>1. TypeOK /\ OfflineInv /\ OfflineGraphInv /\ DocumentsInv /\ [Next]_vars => DocumentsInv'
  <2> SUFFICES ASSUME TypeOK, OfflineInv, OfflineGraphInv, DocumentsInv, [Next]_vars
               PROVE  DocumentsInv'
    OBVIOUS
  <2>1. CASE \E f \in Files, text \in Content : Edit(f, text)
    BY <2>1, DocumentsEdit
  <2>2. CASE Stop \/ Boot \/ Search
    BY <2>2, DocumentsServer
  <2>3. ~ Reindex
    BY DEF Reindex, TypeOK, EnvTypeOK
  <2>4. CASE Walk
    BY <2>4, DocumentsWalk
  <2>5. CASE Watch
    BY <2>5, OfflineWatch
  <2>6. CASE \E s \in Savers : Save(s)
    BY <2>6, DocumentsSave DEF OfflineGraphInv
  <2>7. CASE UNCHANGED vars
    <3>1. UNCHANGED <<disk, rows, format, saveRows, up, documents, committed, walkPc, walkBy, persisted,
                      todo, searchWarm>>
      BY <2>7 DEF vars, envVars, storeVars, memoryVars, walkVars, saveVars
    <3> QED
      BY <3>1 DEF DocumentsInv, Numbered, StartedFrom, Spoken, Found, Recorded, UnchangedSince, OnDisk,
                  NeedsReindex
  <2> QED
    BY <2>1, <2>2, <2>3, <2>4, <2>5, <2>6, <2>7 DEF Next
<1>2. DocumentsInv => ReadyDocumentsCurrent
  BY DEF DocumentsInv, Found, ReadyDocumentsCurrent, Settled
<1> QED
  BY <1>1, <1>2, DocumentsInit, OfflineGraphInvariant, OfflineInvariant, TypeCorrect, PTL DEF Spec

-----------------------------------------------------------------------------
(* Memory and rows in watch mode, while no file is edited during the walk.   *)

\* The first start finds nothing saved, and nothing is saved before its walk is over.
FirstStartInv ==
  /\ walkBy = "startup" /\ (up <=> walkPc # "off") /\ (ready <=> walkPc = "done")
  /\ walkPc \in {"off", "begin", "files", "commit"} =>
       stamp = 0 /\ snapshot.stamp = 0 /\ rows = NoRows /\ savePc = Idle
  /\ walkPc = "begin" => persisted.stamp = 0
  /\ walkPc \in {"begin", "files", "commit"} => ~ persisted.warm
  /\ walkPc \in {"off", "begin"} => registered = NoFunctions
  /\ walkPc = "files" => ~ graphLoaded
  /\ walkPc \in {"files", "commit"} => ~ searchWarm /\ changed
  /\ \A s \in Savers : graphPc[s] # "idle" => savePc[s] # "idle"
  /\ savePc["walk"] # "idle" => walkPc = "save"

\* The watcher has nothing to do until the server is ready, and between batches.
QuietInv ==
  /\ ~ ready => pending = NoChanges /\ watchPc = "idle"
  /\ watchPc # "files" => watchBatch = NoChanges /\ watchSources = {}
  /\ savePc["watch"] # "idle" => watchPc = "save"

\* Every event of the file has been dealt with.
Heard(f) == pending[f] = "none" /\ watchBatch[f] = "none"

\* The last event of a file tells whether it is there.
Tells(change, f) ==
  /\ change = "deleted" => ~ OnDisk(f)
  /\ change = "modified" => OnDisk(f)

EventsInv ==
  \A f \in Files :
    /\ Tells(pending[f], f)
    /\ pending[f] = "none" => Tells(watchBatch[f], f)

\* A batch takes one source of each file, the present one unless a later event waits.
SourcesInv ==
  \A source \in watchSources :
    /\ \A other \in watchSources : other.file = source.file => other = source
    /\ watchBatch[source.file] = "none"
    /\ pending[source.file] = "none" => source.text = disk[source.file].text

\* The graph is that of the registered functions, and these are of the files the
\* walk is through with and of those no event is under way for.
RegisteredInv ==
  CallGraphEnabled => \A f \in Files :
    /\ graph[f] = Functions(registered[f])
    /\ walkPc = "files" =>
         IF f \in todo THEN registered[f] = NoText /\ OnDisk(f) ELSE registered[f] = disk[f].text
    /\ walkPc \in {"commit", "save"} => registered[f] = disk[f].text
    /\ walkPc = "done" /\ Heard(f) /\ (\A source \in watchSources : source.file # f) =>
         registered[f] = disk[f].text

\* The walk hands on the symbols and documents of the files it is through with; from then
\* on memory is right of every file but those an event is under way for.
MemoryInv ==
  /\ walkPc \in {"commit", "save", "done"} => hasSymbols
  /\ \A f \in Files :
       /\ walkPc = "files" =>
            IF f \in todo THEN OnDisk(f) /\ documents[f] = {}
            ELSE acc[f] = disk[f].text /\ (OnDisk(f) => documents[f] = {disk[f].text})
       /\ walkPc \in {"commit", "save", "done"} /\ Heard(f) =>
            symbols[f] = disk[f].text /\ (OnDisk(f) => documents[f] = {disk[f].text})

PresentRow(row, f) ==
  row.symbols = disk[f].text /\ (OnDisk(f) => row.mtime = disk[f].mtime)

\* A save hands on what memory had of the files without events since; what the watcher
\* has changed and not saved is among its sources.
RowsInv ==
  \A f \in Files : Heard(f) =>
    /\ \A s \in Savers :
         /\ savePc[s] = "stat" =>
              saveSymbols[s][f] = disk[f].text /\ (OnDisk(f) => f \in saveFiles[s])
         /\ savePc[s] = "rows" => PresentRow(saveRows[s][f], f)
         /\ savePc[s] \in {"format", "stamp", "join"} => PresentRow(rows[f], f)
    /\ walkPc = "done" /\ watchPc # "save" /\ (\A source \in watchSources : source.file # f) =>
         PresentRow(rows[f], f)

WatchedInv ==
  /\ FirstStartInv /\ QuietInv /\ EventsInv /\ SourcesInv
  /\ RegisteredInv /\ MemoryInv /\ RowsInv

LEMMA WatchedInit == Init => WatchedInv
<1> SUFFICES ASSUME Init PROVE WatchedInv
  OBVIOUS
<1>1. FirstStartInv /\ QuietInv
  BY DEF Init, FirstStartInv, QuietInv, NoSnapshot, Idle, Savers
<1>2. EventsInv /\ SourcesInv
  BY DEF Init, EventsInv, SourcesInv, Tells, NoChanges
<1>3. RegisteredInv
  BY DEF Init, RegisteredInv, Functions, EmptyGraph, NoFunctions
<1>4. MemoryInv /\ RowsInv
  BY DEF Init, MemoryInv, RowsInv, Idle, Savers
<1> QED
  BY <1>1, <1>2, <1>3, <1>4 DEF WatchedInv

LEMMA WatchedEdit ==
  ASSUME EditPhases \subseteq {"down", "ready"}, WatchEnabled, TypeOK, WatchedInv,
         NEW f \in Files, NEW text \in Content, Edit(f, text)
  PROVE  WatchedInv'
<1> USE DEF WatchedInv
<1>1. /\ UNCHANGED <<storeVars, up, ready, memoryVars, walkVars, watchPc, watchBatch, watchSources,
                     saveVars>>
      /\ ~ up \/ (up /\ ready)
  BY DEF Edit, Phase
<1>2. CASE ~ up
  <2>1. /\ walkPc = "off" /\ ~ ready /\ pending' = pending /\ pending = NoChanges
        /\ watchPc = "idle" /\ watchBatch = NoChanges /\ watchSources = {} /\ savePc = Idle
    BY <1>2 DEF Edit, FirstStartInv, QuietInv
  <2>2. FirstStartInv' /\ QuietInv'
    BY <1>1, <2>1 DEF FirstStartInv, QuietInv, storeVars, memoryVars, walkVars, saveVars
  <2>3. EventsInv' /\ SourcesInv'
    BY <1>1, <2>1 DEF EventsInv, SourcesInv, Tells, NoChanges
  <2>4. RegisteredInv' /\ MemoryInv'
    BY <1>1, <2>1 DEF RegisteredInv, MemoryInv, memoryVars, walkVars
  <2>5. RowsInv'
    BY <1>1, <2>1 DEF RowsInv, Idle, Savers, walkVars, saveVars
  <2> QED
    BY <2>2, <2>3, <2>4, <2>5
<1>3. CASE up /\ ready
  <2>1. /\ walkPc = "done" /\ text # disk[f].text
        /\ disk'[f].text = text /\ pending'[f] = IF text = NoText THEN "deleted" ELSE "modified"
        /\ \A g \in Files : g # f => disk'[g] = disk[g] /\ pending'[g] = pending[g]
    BY <1>3 DEF Edit, TypeOK, EnvTypeOK, WatchTypeOK, FirstStartInv
  <2>2. ~ Heard(f)' /\ \A g \in Files : g # f => Heard(g)' = Heard(g) /\ OnDisk(g)' = OnDisk(g)
    BY <1>1, <2>1 DEF Heard, OnDisk
  <2>3. FirstStartInv' /\ QuietInv'
    BY <1>1, <1>3 DEF FirstStartInv, QuietInv, storeVars, memoryVars, walkVars, saveVars
  <2>4. EventsInv'
    BY <1>1, <2>1 DEF EventsInv, Tells, OnDisk
  <2>5. SourcesInv'
    BY <1>1, <2>1 DEF SourcesInv, TypeOK, WatchTypeOK
  <2>6. RegisteredInv'
    BY <1>1, <2>1, <2>2 DEF RegisteredInv, memoryVars, walkVars
  <2>7. MemoryInv'
    BY <1>1, <2>1, <2>2 DEF MemoryInv, memoryVars, walkVars
  <2>8. RowsInv'
    BY <1>1, <2>1, <2>2 DEF RowsInv, PresentRow, storeVars, walkVars, saveVars
  <2> QED
    BY <2>3, <2>4, <2>5, <2>6, <2>7, <2>8
<1> QED
  BY <1>1, <1>2, <1>3

LEMMA WatchedServer ==
  ASSUME TypeOK, WatchedInv, Boot \/ Search
  PROVE  WatchedInv'
<1> USE DEF WatchedInv
<1>1. UNCHANGED <<disk, storeVars, graph, registered, watchVars, saveVars>>
  BY DEF Boot, Search, envVars, memoryVars
<1>2. EventsInv' /\ SourcesInv'
  BY <1>1 DEF EventsInv, Tells, OnDisk, SourcesInv, watchVars
<1>3. CASE Boot
  <2>1. /\ ~ up /\ ~ ready /\ up' /\ ~ ready' /\ walkPc = "off" /\ walkPc' = "begin"
        /\ walkBy' = "startup" /\ persisted'.stamp = stamp /\ rows = NoRows
    BY <1>3 DEF Boot, FirstStartInv
  <2>2. ~ persisted'.warm
    BY <1>3, <2>1 DEF Boot, Recorded, NoRows
  <2>3. FirstStartInv' /\ QuietInv'
    BY <1>1, <2>1, <2>2 DEF FirstStartInv, QuietInv, storeVars, watchVars, saveVars
  <2>4. RegisteredInv' /\ MemoryInv'
    BY <1>1, <2>1 DEF RegisteredInv, MemoryInv
  <2>5. RowsInv'
    BY <1>1, <2>1 DEF FirstStartInv, RowsInv, Idle, Savers, saveVars
  <2> QED
    BY <1>2, <2>3, <2>4, <2>5
<1>4. CASE Search
  <2>1. UNCHANGED <<up, ready, memoryVars, walkVars>>
    BY <1>4 DEF Search
  <2>2. FirstStartInv' /\ QuietInv'
    BY <1>1, <2>1 DEF FirstStartInv, QuietInv, storeVars, walkVars, watchVars, saveVars
  <2>3. RegisteredInv' /\ MemoryInv' /\ RowsInv'
    BY <1>1, <2>1 DEF RegisteredInv, MemoryInv, RowsInv, PresentRow, Heard, OnDisk, storeVars,
                      memoryVars, walkVars, watchVars, saveVars
  <2> QED
    BY <1>2, <2>2, <2>3
<1> QED
  BY <1>3, <1>4

LEMMA WatchedWalk ==
  ASSUME TypeOK, WatchedInv, Walk
  PROVE  WatchedInv'
<1> USE DEF WatchedInv
<1>1. UNCHANGED <<disk, storeVars, up, walkBy, watchVars, saveVars>>
  BY DEF Walk, WalkBegin, WalkFile, WalkInsert, WalkCommit, envVars
<1>2. EventsInv' /\ SourcesInv'
  BY <1>1 DEF EventsInv, Tells, OnDisk, SourcesInv, watchVars
<1>3. walkPc \in {"begin", "files", "commit"} /\ ~ ready /\ walkBy = "startup"
  BY DEF Walk, WalkBegin, WalkFile, WalkInsert, WalkCommit, FirstStartInv
<1>4. QuietInv'
  BY <1>1, <1>3 DEF QuietInv, watchVars, saveVars
<1>5. ~ persisted.warm /\ savePc = Idle
  BY <1>3 DEF FirstStartInv
<1>6. ASSUME walkPc' # "done"
      PROVE  RowsInv'
  BY <1>1, <1>5, <1>6 DEF RowsInv, Idle, Savers, saveVars
<1>7. CASE WalkBegin
  <2>1. /\ walkPc = "begin" /\ walkPc' = "files" /\ UNCHANGED ready
        /\ todo' = {f \in Files : OnDisk(f)} /\ persisted'.warm = persisted.warm /\ changed'
    BY <1>5, <1>7 DEF WalkBegin, TypeOK, WalkTypeOK
  <2>2. ~ graphLoaded' /\ ~ searchWarm' /\ UNCHANGED <<graph, registered>>
    BY <1>5, <1>7, <2>1 DEF WalkBegin, FirstStartInv, SnapshotOfTheSave, SameFormat
  <2>3. acc' = NoFunctions /\ \A f \in Files : documents'[f] = {}
    BY <1>5, <1>7 DEF WalkBegin, SameFormat
  <2>4. FirstStartInv'
    BY <1>1, <1>3, <1>5, <2>1, <2>2 DEF FirstStartInv, storeVars, saveVars
  <2>5. RegisteredInv'
    BY <1>1, <2>1, <2>2 DEF RegisteredInv, FirstStartInv, NoFunctions, OnDisk
  <2>6. MemoryInv'
    BY <1>1, <2>1, <2>3 DEF MemoryInv, NoFunctions, OnDisk
  <2> QED
    BY <1>2, <1>4, <1>6, <2>1, <2>4, <2>5, <2>6
<1>8. CASE \E f \in Files : WalkFile(f)
  <2>1. PICK f \in Files : WalkFile(f)
    BY <1>8
  <2>2. /\ walkPc = "files" /\ walkPc' = "files" /\ f \in todo /\ todo' = todo \ {f}
        /\ UNCHANGED <<ready, graphLoaded, searchWarm, persisted>>
        /\ ~ graphLoaded /\ ~ searchWarm /\ changed /\ OnDisk(f) /\ documents[f] = {}
    BY <2>1 DEF WalkFile, FirstStartInv, MemoryInv
  <2>3. changed' /\ acc' = [acc EXCEPT ![f] = FileSymbols(f)]
        /\ documents' = [documents EXCEPT ![f] = Reindexed(f)]
    BY <2>1, <2>2 DEF WalkFile
  <2>4. FileSymbols(f) = disk[f].text /\ Reindexed(f) = {disk[f].text}
    BY <1>5, <2>2 DEF FileSymbols, Reindexed, SameFormat
  <2>5. /\ acc'[f] = disk[f].text /\ documents'[f] = {disk[f].text}
        /\ \A g \in Files : g # f => acc'[g] = acc[g] /\ documents'[g] = documents[g]
    BY <2>3, <2>4 DEF TypeOK, WalkTypeOK, MemoryTypeOK
  <2>6. FirstStartInv'
    BY <1>1, <1>3, <1>5, <2>2, <2>3 DEF FirstStartInv, storeVars, saveVars
  <2>7. MemoryInv'
    BY <1>1, <2>2, <2>5 DEF MemoryInv, OnDisk
  <2>8. ASSUME CallGraphEnabled
        PROVE  /\ graph'[f] = Functions(registered'[f]) /\ registered'[f] = disk[f].text
               /\ \A g \in Files : g # f => graph'[g] = graph[g] /\ registered'[g] = registered[g]
    <3>1. /\ graph' = [graph EXCEPT ![f] = @ \cup {disk[f].text}]
          /\ registered' = [registered EXCEPT ![f] = disk[f].text]
      BY <2>1, <2>2, <2>8 DEF WalkFile
    <3>2. /\ graph'[f] = graph[f] \cup {disk[f].text} /\ registered'[f] = disk[f].text
          /\ \A g \in Files : g # f => graph'[g] = graph[g] /\ registered'[g] = registered[g]
      BY <3>1 DEF TypeOK, MemoryTypeOK
    <3> QED
      BY <2>2, <2>8, <3>2 DEF RegisteredInv, Functions, OnDisk
  <2>9. RegisteredInv'
    BY <1>1, <2>2, <2>8 DEF RegisteredInv, OnDisk
  <2> QED
    BY <1>2, <1>4, <1>6, <2>2, <2>6, <2>7, <2>9
<1>9. CASE WalkInsert
  <2>1. /\ walkPc = "files" /\ todo = {} /\ walkPc' = "commit" /\ symbols' = acc /\ hasSymbols'
        /\ UNCHANGED <<ready, graph, registered, documents, persisted, searchWarm, changed>>
    BY <1>3, <1>9 DEF WalkInsert
  <2>2. FirstStartInv'
    BY <1>1, <1>3, <1>5, <2>1 DEF FirstStartInv, storeVars, saveVars
  <2>3. RegisteredInv' /\ MemoryInv'
    BY <1>1, <2>1 DEF RegisteredInv, MemoryInv, OnDisk
  <2> QED
    BY <1>2, <1>4, <1>6, <2>1, <2>2, <2>3
<1>10. CASE WalkCommit
  <2>1. /\ walkPc = "commit" /\ changed /\ walkPc' = "save" /\ ~ ready'
        /\ UNCHANGED <<symbols, hasSymbols, documents>>
    BY <1>10 DEF WalkCommit, FirstStartInv
  <2>2. UNCHANGED <<graph, registered>>
    BY <1>10, <2>1 DEF WalkCommit, TakesStartupGraph, FirstStartInv
  <2>3. FirstStartInv'
    BY <1>1, <1>3, <1>5, <2>1 DEF FirstStartInv, storeVars, saveVars
  <2>4. RegisteredInv' /\ MemoryInv'
    BY <1>1, <2>1, <2>2 DEF RegisteredInv, MemoryInv, Heard, OnDisk, watchVars
  <2> QED
    BY <1>2, <1>4, <1>6, <2>1, <2>3, <2>4
<1> QED
  BY <1>7, <1>8, <1>9, <1>10 DEF Walk

\* A batch is taken from the events: each event is now in the one or the other.
LEMMA WatchedReceive ==
  ASSUME TypeOK, WatchedInv, NEW batch \in SUBSET Files, batch # {}, WatchReceive(batch)
  PROVE  WatchedInv'
<1> USE DEF WatchedInv
<1>1. /\ UNCHANGED <<disk, storeVars, up, ready, memoryVars, walkVars, saveVars>>
      /\ up /\ watchPc = "idle" /\ watchPc' = "files" /\ watchSources' = {}
      /\ \A f \in batch : pending[f] # "none"
      /\ \A f \in Files : /\ watchBatch'[f] = IF f \in batch THEN pending[f] ELSE "none"
                          /\ pending'[f] = IF f \in batch THEN "none" ELSE pending[f]
  BY DEF WatchReceive, envVars
<1>2. ready
  <2>1. pending # NoChanges
    BY <1>1 DEF NoChanges
  <2> QED
    BY <2>1 DEF QuietInv
<1>3. savePc["watch"] = "idle" /\ watchBatch = NoChanges
  BY <1>1 DEF QuietInv
<1>4. FirstStartInv' /\ QuietInv'
  BY <1>1, <1>2, <1>3 DEF FirstStartInv, QuietInv, storeVars, walkVars, saveVars
<1>5. EventsInv' /\ SourcesInv'
  BY <1>1 DEF EventsInv, SourcesInv, Tells, OnDisk
<1>6. /\ watchSources = {} /\ UNCHANGED <<disk, walkPc>>
      /\ \A f \in Files : Heard(f)' => Heard(f)
  BY <1>1, <1>3 DEF QuietInv, NoChanges, Heard, walkVars
<1>7. RegisteredInv'
  BY <1>1, <1>6 DEF RegisteredInv, OnDisk, memoryVars, walkVars
<1>8. MemoryInv'
  BY <1>1, <1>6 DEF MemoryInv, OnDisk, memoryVars, walkVars
<1>9. RowsInv'
  BY <1>1, <1>6 DEF RowsInv, PresentRow, OnDisk, storeVars, saveVars
<1> QED
  BY <1>4, <1>5, <1>7, <1>8, <1>9

\* A change dealt with leaves the file's present source, or a later event waits.
LEMMA WatchedFile ==
  ASSUME TypeOK, WatchedInv, NEW f \in Files, WatchFile(f)
  PROVE  WatchedInv'
<1> USE DEF WatchedInv
<1>1. /\ UNCHANGED <<disk, storeVars, up, ready, graph, registered, hasSymbols, walkVars, pending,
                     watchPc, saveVars>>
      /\ watchPc = "files" /\ watchBatch[f] \in {"modified", "deleted"}
      /\ watchBatch'[f] = "none" /\ \A g \in Files : g # f => watchBatch'[g] = watchBatch[g]
  BY DEF WatchFile, WatchSkip, WatchModified, WatchDeleted, envVars, TypeOK, WatchTypeOK
<1>2. \A source \in watchSources : source.file \in Files /\ source.file # f
  BY <1>1 DEF SourcesInv, TypeOK, WatchTypeOK
<1>3. FirstStartInv' /\ QuietInv'
  BY <1>1 DEF FirstStartInv, QuietInv, storeVars, walkVars, saveVars
<1>4. EventsInv'
  BY <1>1 DEF EventsInv, Tells, OnDisk
<1>5. walkPc = "done" /\ walkPc' = "done" /\ hasSymbols
  BY <1>1 DEF QuietInv, FirstStartInv, MemoryInv, walkVars
<1>6. \A g \in Files : g # f => Heard(g)' = Heard(g) /\ OnDisk(g)' = OnDisk(g)
  BY <1>1 DEF Heard, OnDisk
<1>7. ASSUME \A g \in Files : g # f => symbols'[g] = symbols[g] /\ documents'[g] = documents[g],
             Heard(f)' => symbols'[f] = disk[f].text /\ (OnDisk(f) => documents'[f] = {disk[f].text})
      PROVE  MemoryInv'
  BY <1>1, <1>5, <1>6, <1>7 DEF MemoryInv, OnDisk
<1>8. savePc["watch"] = "idle" /\ savePc["walk"] = "idle"
  BY <1>1, <1>5 DEF QuietInv, FirstStartInv
<1>9. CASE WatchSkip(f)
  <2>1. UNCHANGED <<watchSources, symbols, documents>> /\ pending[f] # "none"
    BY <1>9 DEF WatchSkip, EventsInv, Tells
  <2>2. ~ Heard(f)'
    BY <1>1, <2>1 DEF Heard
  <2>3. SourcesInv'
    BY <1>1, <1>2, <2>1 DEF SourcesInv
  <2>4. RegisteredInv'
    BY <1>1, <1>5, <1>6, <2>1, <2>2 DEF RegisteredInv
  <2>5. MemoryInv'
    BY <1>7, <2>1, <2>2
  <2>6. RowsInv'
    BY <1>1, <1>5, <1>6, <1>8, <2>1, <2>2 DEF RowsInv, PresentRow, OnDisk, storeVars, saveVars, Savers
  <2> QED
    BY <1>3, <1>4, <2>3, <2>4, <2>5, <2>6
<1>10. CASE WatchModified(f) \/ WatchDeleted(f)
  <2>1. PICK text : /\ watchSources' = watchSources \cup {[file |-> f, text |-> text]}
                    /\ pending[f] = "none" => text = disk[f].text
    BY <1>10 DEF WatchModified, WatchDeleted, EventsInv, Tells, OnDisk
  <2> DEFINE new == [file |-> f, text |-> text]
  <2>2. watchSources' = watchSources \cup {new} /\ new.file = f /\ new.text = text
    BY <2>1
  <2> HIDE DEF new
  <2>3. SourcesInv'
    BY <1>1, <1>2, <2>1, <2>2 DEF SourcesInv
  <2>4. RegisteredInv'
    BY <1>1, <1>5, <1>6, <2>2 DEF RegisteredInv
  <2>5. MemoryInv'
    <3>1. CASE WatchModified(f)
      <4>1. /\ symbols' = [symbols EXCEPT ![f] = disk[f].text]
            /\ documents' = [documents EXCEPT ![f] = {disk[f].text}]
        BY <1>5, <3>1 DEF WatchModified
      <4> QED
        BY <1>7, <4>1 DEF TypeOK, MemoryTypeOK
    <3>2. CASE WatchDeleted(f)
      <4>1. symbols' = [symbols EXCEPT ![f] = NoText] /\ documents' = documents
            /\ watchBatch[f] = "deleted"
        BY <3>2 DEF WatchDeleted
      <4>2. Heard(f)' => ~ OnDisk(f)
        BY <1>1, <4>1 DEF Heard, EventsInv, Tells
      <4> QED
        BY <1>7, <4>1, <4>2 DEF TypeOK, MemoryTypeOK, OnDisk
    <3> QED
      BY <1>10, <3>1, <3>2
  <2>6. RowsInv'
    BY <1>1, <1>5, <1>6, <1>8, <2>2 DEF RowsInv, PresentRow, OnDisk, storeVars, saveVars, Savers
  <2> QED
    BY <1>3, <1>4, <2>3, <2>4, <2>5, <2>6
<1> QED
  BY <1>9, <1>10 DEF WatchFile

\* update_call_graph takes out exactly what it had put in.
LEMMA WatchedGraph ==
  ASSUME TypeOK, WatchedInv, WatchGraph
  PROVE  WatchedInv'
<1> USE DEF WatchedInv
<1>1. /\ UNCHANGED <<disk, storeVars, up, ready, symbols, hasSymbols, documents, walkVars, pending,
                     watchBatch, saveVars>>
      /\ watchPc = "files" /\ watchPc' = IF watchSources # {} THEN "save" ELSE "idle"
      /\ watchBatch = NoChanges /\ watchSources' = {}
  BY DEF WatchGraph, envVars
<1>2. walkPc = "done" /\ ready /\ walkPc' = "done"
  BY <1>1 DEF QuietInv, FirstStartInv, walkVars
<1>3. FirstStartInv' /\ QuietInv'
  BY <1>1, <1>2 DEF FirstStartInv, QuietInv, storeVars, walkVars, saveVars
<1>4. EventsInv' /\ SourcesInv'
  BY <1>1 DEF EventsInv, SourcesInv, Tells, OnDisk
<1>5. \A f \in Files : Heard(f)' = Heard(f) /\ OnDisk(f)' = OnDisk(f)
  BY <1>1 DEF Heard, OnDisk
<1>6. MemoryInv'
  BY <1>1, <1>2, <1>5 DEF MemoryInv
<1>7. savePc["watch"] = "idle" /\ savePc["walk"] = "idle"
  BY <1>1, <1>2 DEF QuietInv, FirstStartInv
<1>8. RowsInv'
  BY <1>1, <1>2, <1>5, <1>7 DEF RowsInv, PresentRow, storeVars, saveVars, Savers
<1>9. ASSUME CallGraphEnabled
      PROVE  RegisteredInv'
  <2> DEFINE of(f) == CHOOSE source \in watchSources : source.file = f
             updated == {source.file : source \in watchSources}
  <2>1. /\ graph' = [f \in Files |-> IF f \in updated THEN GraphAfter(of(f)) ELSE graph[f]]
        /\ registered' = [f \in Files |-> IF f \in updated THEN of(f).text ELSE registered[f]]
    BY <1>9 DEF WatchGraph
  <2>2. ASSUME NEW f \in Files, f \in updated
        PROVE  of(f) \in watchSources /\ of(f).file = f
    <3>1. PICK source \in watchSources : source.file = f
      BY <2>2
    <3> QED
      BY <3>1
  <2> HIDE DEF of
  <2>3. ASSUME NEW f \in Files
        PROVE  graph'[f] = Functions(registered'[f])
    <3>1. CASE f \in updated
      <4>1. GraphAfter(of(f)) = (graph[f] \ {registered[f]}) \cup Functions(of(f).text)
        BY <2>2, <3>1 DEF GraphAfter, Functions
      <4>2. graph[f] \ {registered[f]} = {}
        BY <1>9 DEF RegisteredInv, Functions
      <4> QED
        BY <2>1, <3>1, <4>1, <4>2
    <3>2. CASE f \notin updated
      BY <1>9, <2>1, <3>2 DEF RegisteredInv
    <3> QED
      BY <3>1, <3>2
  <2>4. ASSUME NEW f \in Files, Heard(f)
        PROVE  registered'[f] = disk[f].text
    <3>1. CASE f \in updated
      BY <2>1, <2>2, <2>4, <3>1 DEF SourcesInv, Heard
    <3>2. CASE f \notin updated
      BY <1>2, <1>9, <2>1, <2>4, <3>2 DEF RegisteredInv
    <3> QED
      BY <3>1, <3>2
  <2> QED
    BY <1>1, <1>2, <1>5, <2>3, <2>4 DEF RegisteredInv
<1>10. RegisteredInv'
  BY <1>9 DEF RegisteredInv
<1> QED
  BY <1>3, <1>4, <1>6, <1>8, <1>10

\* The task that saves is alone with its save.
LEMMA WatchedSaver ==
  ASSUME WatchedInv, NEW s \in Savers, Save(s)
  PROVE  /\ \A other \in Savers : other # s => savePc[other] = "idle"
         /\ s = "walk" => walkPc = "save" /\ ~ ready
         /\ s = "watch" => watchPc = "save" /\ walkPc = "done" /\ ready
<1>1. WantsSave(s) \/ savePc[s] # "idle"
  BY DEF Save, SaveBegin, SaveGraphRead, SaveGraphWrite, SaveSymbols, SaveStat, SaveRows,
         SaveFormat, SaveStamp, SaveEnd, WatchedInv, FirstStartInv
<1> QED
  BY <1>1 DEF WantsSave, WatchedInv, FirstStartInv, QuietInv, Savers

\* What a save hands on is right of every file without an event since: its symbols and its
\* metadata are then of one content.
LEMMA WatchedSaveRows ==
  ASSUME TypeOK, WatchedInv, NEW s \in Savers, Save(s)
  PROVE  RowsInv'
<1> USE DEF WatchedInv
<1>1. UNCHANGED <<disk, symbols, pending, watchBatch, watchSources>>
  BY DEF Save, SaveBegin, SaveGraphRead, SaveGraphWrite, SaveSymbols, SaveStat, SaveRows,
         SaveFormat, SaveStamp, SaveEnd, envVars, memoryVars, watchVars
<1>2. /\ \A other \in Savers : other # s => savePc[other] = "idle"
      /\ s = "walk" => walkPc = "save"
      /\ s = "watch" => watchPc = "save" /\ walkPc = "done"
  BY WatchedSaver
<1>3. \A other \in Savers : other # s => savePc'[other] = "idle"
  BY <1>2 DEF Save, SaveBegin, SaveGraphRead, SaveGraphWrite, SaveSymbols, SaveStat, SaveRows,
              SaveFormat, SaveStamp, SaveEnd, TypeOK, SaveTypeOK
<1> SUFFICES ASSUME NEW f \in Files, Heard(f)
             PROVE  /\ savePc'[s] = "stat" => /\ saveSymbols'[s][f] = disk[f].text
                                              /\ OnDisk(f) => f \in saveFiles'[s]
                    /\ savePc'[s] = "rows" => PresentRow(saveRows'[s][f], f)
                    /\ savePc'[s] \in {"format", "stamp", "join"} => PresentRow(rows'[f], f)
                    /\ walkPc' = "done" /\ watchPc' # "save" => PresentRow(rows'[f], f)
  BY <1>1, <1>3 DEF RowsInv, PresentRow, Heard, OnDisk
<1>4. symbols[f] = disk[f].text
  BY <1>2 DEF MemoryInv, Savers
<1>5. /\ savePc[s] = "stat" => saveSymbols[s][f] = disk[f].text /\ (OnDisk(f) => f \in saveFiles[s])
      /\ savePc[s] = "rows" => PresentRow(saveRows[s][f], f)
      /\ savePc[s] \in {"format", "stamp", "join"} => PresentRow(rows[f], f)
  BY DEF RowsInv
<1>6. SaveTypeOK
  BY DEF TypeOK
<1>7. ASSUME ~ SaveEnd(s)
      PROVE  ~ (walkPc' = "done" /\ watchPc' # "save")
  <2>1. UNCHANGED <<walkPc, watchPc>>
    BY <1>7 DEF Save, SaveBegin, SaveGraphRead, SaveGraphWrite, SaveSymbols, SaveStat, SaveRows,
                SaveFormat, SaveStamp, walkVars, watchVars
  <2> QED
    BY <1>2, <2>1 DEF Savers
<1>8. CASE SaveBegin(s) \/ SaveGraphRead(s) \/ SaveGraphWrite(s)
  <2>1. /\ UNCHANGED <<rows, saveSymbols, saveFiles, saveRows>> /\ ~ SaveEnd(s)
        /\ savePc'[s] = savePc[s] \/ savePc'[s] = "symbols"
    BY <1>6, <1>8 DEF SaveBegin, SaveGraphRead, SaveGraphWrite, SaveEnd, SaveTypeOK, storeVars
  <2> QED
    BY <1>5, <1>7, <2>1
<1>9. CASE SaveSymbols(s)
  <2>1. /\ savePc'[s] = "stat" /\ ~ SaveEnd(s)
        /\ saveSymbols'[s] = symbols /\ saveFiles'[s] = fileCache \cup {g \in Files : symbols[g] # NoText}
    BY <1>6, <1>9 DEF SaveSymbols, SaveEnd, SaveTypeOK
  <2> QED
    BY <1>4, <1>7, <2>1 DEF OnDisk
<1>10. CASE SaveStat(s)
  <2>1. savePc[s] = "stat" /\ savePc'[s] = "rows" /\ ~ SaveEnd(s)
    BY <1>6, <1>10 DEF SaveStat, SaveEnd, SaveTypeOK
  <2>2. saveRows'[s][f] = IF f \in saveFiles[s] /\ OnDisk(f)
                          THEN [mtime |-> disk[f].mtime,
                                hash |-> IF rows[f].mtime = disk[f].mtime
                                         THEN rows[f].hash ELSE disk[f].text,
                                symbols |-> saveSymbols[s][f]]
                          ELSE NoRow
    BY <1>6, <1>10 DEF SaveStat, SaveTypeOK
  <2>3. PresentRow(saveRows'[s][f], f)
    BY <1>5, <2>1, <2>2 DEF PresentRow, OnDisk, NoRow
  <2> QED
    BY <1>7, <2>1, <2>3
<1>11. CASE SaveRows(s)
  <2>1. /\ savePc[s] = "rows" /\ savePc'[s] = "format" /\ ~ SaveEnd(s) /\ rows' = saveRows[s]
    BY <1>6, <1>11 DEF SaveRows, SaveEnd, SaveTypeOK
  <2> QED
    BY <1>5, <1>7, <2>1
<1>12. CASE SaveFormat(s) \/ SaveStamp(s)
  <2>1. /\ savePc[s] \in {"format", "stamp"} /\ savePc'[s] \in {"stamp", "join"} /\ ~ SaveEnd(s)
        /\ rows' = rows
    BY <1>6, <1>12 DEF SaveFormat, SaveStamp, SaveEnd, SaveTypeOK
  <2> QED
    BY <1>5, <1>7, <2>1
<1>13. CASE SaveEnd(s)
  <2>1. savePc[s] = "join" /\ savePc'[s] = "idle" /\ rows' = rows
    BY <1>6, <1>13 DEF SaveEnd, SaveTypeOK, storeVars
  <2> QED
    BY <1>5, <2>1
<1> QED
  BY <1>8, <1>9, <1>10, <1>11, <1>12, <1>13 DEF Save

LEMMA WatchedSave ==
  ASSUME TypeOK, WatchedInv, NEW s \in Savers, Save(s)
  PROVE  WatchedInv'
<1> USE DEF WatchedInv
<1>1. /\ UNCHANGED <<disk, up, memoryVars, pending, watchBatch, watchSources>>
      /\ UNCHANGED <<walkBy, persisted, todo, acc, graphLoaded, searchWarm, changed>>
  BY DEF Save, SaveBegin, SaveGraphRead, SaveGraphWrite, SaveSymbols, SaveStat, SaveRows,
         SaveFormat, SaveStamp, SaveEnd, envVars, walkVars, watchVars
<1>2. /\ \A other \in Savers : other # s => savePc[other] = "idle"
      /\ s = "walk" => walkPc = "save" /\ ~ ready
      /\ s = "watch" => watchPc = "save" /\ walkPc = "done" /\ ready
  BY WatchedSaver
<1>3. RowsInv'
  BY WatchedSaveRows
<1>4. EventsInv' /\ SourcesInv'
  BY <1>1 DEF EventsInv, SourcesInv, Tells, OnDisk
<1>5. \A f \in Files : Heard(f)' = Heard(f) /\ OnDisk(f)' = OnDisk(f)
  BY <1>1 DEF Heard, OnDisk
<1>6. SaveTypeOK
  BY DEF TypeOK
<1>7. ASSUME ~ SaveEnd(s)
      PROVE  WatchedInv'
  <2>1. UNCHANGED <<walkPc, ready, watchPc>>
    BY <1>7 DEF Save, SaveBegin, SaveGraphRead, SaveGraphWrite, SaveSymbols, SaveStat, SaveRows,
                SaveFormat, SaveStamp, walkVars, watchVars
  <2>2. /\ \A other \in Savers : other # s => UNCHANGED <<savePc[other], graphPc[other]>>
        /\ graphPc'[s] # "idle" => savePc'[s] # "idle"
    BY <1>6, <1>7 DEF Save, SaveBegin, SaveGraphRead, SaveGraphWrite, SaveSymbols, SaveStat, SaveRows,
                      SaveFormat, SaveStamp, SaveTypeOK, FirstStartInv
  <2>3. walkPc \in {"save", "done"}
    BY <1>2 DEF Savers
  <2>4. FirstStartInv' /\ QuietInv'
    BY <1>1, <1>2, <2>1, <2>2, <2>3 DEF FirstStartInv, QuietInv, Savers
  <2>5. RegisteredInv' /\ MemoryInv'
    BY <1>1, <1>5, <2>1 DEF RegisteredInv, MemoryInv, memoryVars
  <2> QED
    BY <1>3, <1>4, <2>4, <2>5
<1>8. CASE SaveEnd(s)
  <2>1. /\ UNCHANGED graphPc /\ graphPc[s] = "idle" /\ savePc'[s] = "idle"
        /\ \A other \in Savers : other # s => savePc'[other] = savePc[other]
    BY <1>6, <1>8 DEF SaveEnd, SaveTypeOK
  <2>2. CASE s = "walk"
    <3>1. walkPc' = "done" /\ ready' /\ UNCHANGED watchPc
      BY <1>8, <2>2 DEF SaveEnd
    <3>2. FirstStartInv' /\ QuietInv'
      BY <1>1, <1>2, <2>1, <2>2, <3>1 DEF FirstStartInv, QuietInv, Savers
    <3>3. RegisteredInv' /\ MemoryInv'
      BY <1>1, <1>2, <1>5, <2>2, <3>1 DEF RegisteredInv, MemoryInv, memoryVars
    <3> QED
      BY <1>3, <1>4, <3>2, <3>3
  <2>3. CASE s = "watch"
    <3>1. watchPc' = "idle" /\ UNCHANGED <<walkPc, ready>>
      BY <1>8, <2>3 DEF SaveEnd
    <3>2. FirstStartInv' /\ QuietInv'
      BY <1>1, <1>2, <2>1, <2>3, <3>1 DEF FirstStartInv, QuietInv, Savers
    <3>3. RegisteredInv' /\ MemoryInv'
      BY <1>1, <1>5, <3>1 DEF RegisteredInv, MemoryInv, memoryVars
    <3> QED
      BY <1>3, <1>4, <3>2, <3>3
  <2> QED
    BY <2>2, <2>3 DEF Savers
<1> QED
  BY <1>7, <1>8

\* The inductive invariant of watch mode: whatever the order in which edits, batches and
\* saves interleave, an event that comes while its file is in a batch is kept for the
\* next, memory and rows are right of every file no event is under way for, and
\* update_call_graph takes out what it, or the walk, had put in
\* (process_file_changes, save_index_filtered).
THEOREM WatchedInvariant ==
  /\ EditPhases \subseteq {"down", "ready"} /\ WatchEnabled /\ MaxStops = 0 /\ MaxReindexes = 0
  /\ Spec
  => []WatchedInv
<1> SUFFICES ASSUME EditPhases \subseteq {"down", "ready"}, WatchEnabled, MaxStops = 0,
                    MaxReindexes = 0
             PROVE  Spec => []WatchedInv
  OBVIOUS
<1>1. TypeOK /\ WatchedInv /\ [Next]_vars => WatchedInv'
  <2> SUFFICES ASSUME TypeOK, WatchedInv, [Next]_vars PROVE WatchedInv'
    OBVIOUS
  <2>1. CASE \E f \in Files, text \in Content : Edit(f, text)
    BY <2>1, WatchedEdit
  <2>2. CASE Boot \/ Search
    BY <2>2, WatchedServer
  <2>3. ~ Stop /\ ~ Reindex
    BY DEF Stop, Reindex, TypeOK, EnvTypeOK
  <2>4. CASE Walk
    BY <2>4, WatchedWalk
  <2>5. CASE Watch
    <3>1. ASSUME NEW batch \in (SUBSET Files) \ {{}}, WatchReceive(batch)
          PROVE  WatchedInv'
      BY <3>1, WatchedReceive
    <3> QED
      BY <2>5, <3>1, WatchedFile, WatchedGraph DEF Watch
  <2>6. CASE \E s \in Savers : Save(s)
    BY <2>6, WatchedSave
  <2>7. CASE UNCHANGED vars
    <3>1. UNCHANGED <<disk, storeVars, up, ready, memoryVars, walkVars, watchVars, saveVars>>
      BY <2>7 DEF vars, envVars
    <3>2. FirstStartInv' /\ QuietInv'
      BY <3>1 DEF WatchedInv, FirstStartInv, QuietInv, storeVars, memoryVars, walkVars, watchVars, saveVars
    <3>3. EventsInv' /\ SourcesInv'
      BY <3>1 DEF WatchedInv, EventsInv, SourcesInv, Tells, OnDisk, watchVars
    <3>4. RegisteredInv' /\ MemoryInv' /\ RowsInv'
      BY <3>1 DEF WatchedInv, RegisteredInv, MemoryInv, RowsInv, PresentRow, Heard, OnDisk, storeVars,
                  memoryVars, walkVars, watchVars, saveVars
    <3> QED
      BY <3>2, <3>3, <3>4 DEF WatchedInv
  <2> QED
    BY <2>1, <2>2, <2>3, <2>4, <2>5, <2>6, <2>7 DEF Next
<1> QED
  BY <1>1, WatchedInit, TypeCorrect, PTL DEF Spec

\* In a server that stays up and walks undisturbed, whenever the watcher is through with
\* every event the symbols, the search documents, the saved rows and the call graph are
\* those of the files on disk (process_file_changes, save_index_filtered).
THEOREM WatchedIsCurrent ==
  /\ EditPhases \subseteq {"down", "ready"} /\ WatchEnabled /\ MaxStops = 0 /\ MaxReindexes = 0
  /\ Spec
  => []SettledIsCurrent
<1> SUFFICES ASSUME EditPhases \subseteq {"down", "ready"}, WatchEnabled, MaxStops = 0,
                    MaxReindexes = 0
             PROVE  Spec => []SettledIsCurrent
  OBVIOUS
<1>1. WatchedInv => SettledIsCurrent
  <2> SUFFICES ASSUME WatchEnabled, WatchedInv, Settled PROVE Current
    BY DEF SettledIsCurrent
  <2>1. /\ walkPc = "done" /\ watchPc = "idle" /\ watchSources = {}
        /\ \A f \in Files : Heard(f)
    BY DEF WatchedInv, QuietInv, Settled, NoChanges, Heard
  <2>2. \A f \in Files : symbols[f] = disk[f].text /\ (OnDisk(f) => documents[f] = {disk[f].text})
    BY <2>1 DEF WatchedInv, MemoryInv
  <2>3. \A f \in Files : rows[f].symbols = disk[f].text /\ (OnDisk(f) => rows[f].mtime = disk[f].mtime)
    BY <2>1 DEF WatchedInv, RowsInv, PresentRow
  <2>4. CallGraphEnabled => GraphCurrent
    BY <2>1 DEF WatchedInv, RegisteredInv, GraphCurrent, Functions
  <2> QED
    BY <2>2, <2>3, <2>4 DEF Current
<1> QED
  BY <1>1, WatchedInvariant, PTL

\* In particular the call graph is the one the files define, as restore_unchanged says of
\* the one it loads.
COROLLARY WatchedGraphCurrent ==
  /\ EditPhases \subseteq {"down", "ready"} /\ WatchEnabled /\ MaxStops = 0 /\ MaxReindexes = 0
  /\ Spec
  => []ReadyGraphCurrent
<1>1. SettledIsCurrent => ReadyGraphCurrent
  BY DEF SettledIsCurrent, Current, ReadyGraphCurrent
<1> QED
  BY <1>1, WatchedIsCurrent, PTL
=============================================================================
