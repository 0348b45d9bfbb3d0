---- MODULE MCQueryCache ----
EXTENDS QueryCache
CONSTANTS t1, t2, w, k1, k2, nk, nf, f1
Sym == Permutations(Queriers) \cup Permutations(QueryKeys \ SymbolKeys)
====
