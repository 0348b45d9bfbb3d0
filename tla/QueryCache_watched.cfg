SPECIFICATION CacheSpec
CONSTANTS
 t1=t1 t2=t2 w=w k1=k1 k2=k2 f1=f1
 CachedFiles={f1}
 QueryKeys={k1,k2}
 SymbolKeys={k1}
 Queriers={t1,t2}
 Watcher=w NoKey=nk NoFile=nf nk=nk nf=nf
 Capacity=1
 MaxVersion=2
INVARIANTS UnracedCurrent UnracedEvictable CacheInv
SYMMETRY Sym
CHECK_DEADLOCK FALSE
