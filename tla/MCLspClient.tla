---- MODULE MCLspClient ----
(* LspClient for TLC. *)
EXTENDS LspClient

CONSTANTS d, f, w

MCMaxCalls == [c \in Callers |-> IF c = f THEN 2 ELSE 1]
====
