SPECIFICATION WorktreesFairSpec
CONSTANTS
 c1=c1 c2=c2 r1=r1 wt=wt nb=nb nr=nr a=a x=x y=y
 Roots={a}
 Nested={a}
 WorktreeFiles={x,y}
 Callers={c1,c2}
 Reindexers={r1}
 WatchTask=wt Nobody=nb NoRoot=nr
 MaxChanges=1
 StartModes={"walk","reindex"}
INVARIANTS WorktreesTypeOK ReadyIsComplete RemovedIsDropped ReadyIsWatched
PROPERTIES CallsShareWork EveryCallReturns
CHECK_DEADLOCK FALSE
