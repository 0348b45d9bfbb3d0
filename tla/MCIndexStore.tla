---------------------------- MODULE MCIndexStore ----------------------------
(* IndexStore for TLC: two files that hold one of two contents. *)
EXTENDS IndexStore

CONSTANTS a, b

MCFiles == {a, b}
=============================================================================
