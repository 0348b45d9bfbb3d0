--------------------------- MODULE MCTantivyIndex ---------------------------
(* TantivyIndex for TLC: the threads and files its runs are made of. *)
EXTENDS TantivyIndex

CONSTANTS i1, i2, s1, c1, f1, f2
=============================================================================
