----------------------------- MODULE FreshIndex -----------------------------
(***************************************************************************)
(* What the search index promises its callers, whatever its buffer, its    *)
(* flag and its locks do: writes take effect one after another; a read     *)
(* answers from a prefix of them that has every write which returned       *)
(* before the read was called; what one read was shown the next one, or a  *)
(* restarted server, still knows.                                          *)
(*                                                                         *)
(* A prefix of the writes is its length.                                   *)
(***************************************************************************)
EXTENDS Naturals

CONSTANT Searchers

VARIABLES
  written,   \* writes that took effect
  returned,  \* writes up to this one may be known to be complete
  shown,     \* the prefix reads are answered from
  reading,   \* searchers inside a read
  floor      \* what had returned when the searcher's read was called

vars == <<written, returned, shown, reading, floor>>

Init ==
  /\ written = 0 /\ returned = 0 /\ shown = 0
  /\ reading = {} /\ floor = [t \in Searchers |-> 0]

Write ==
  /\ written' = written + 1
  /\ UNCHANGED <<returned, shown, reading, floor>>

Return ==
  /\ returned' \in returned .. written
  /\ UNCHANGED <<written, shown, reading, floor>>

Publish ==
  /\ shown' \in shown .. written
  /\ UNCHANGED <<written, returned, reading, floor>>

Read(t) ==
  /\ t \notin reading
  /\ reading' = reading \cup {t}
  /\ floor' = [floor EXCEPT ![t] = returned]
  /\ UNCHANGED <<written, returned, shown>>

Answer(t) ==
  /\ t \in reading
  /\ floor[t] <= shown
  /\ reading' = reading \ {t}
  /\ UNCHANGED <<written, returned, shown, floor>>

\* The process ends: writes nobody was shown may be lost.
Restart ==
  /\ written' \in shown .. written
  /\ shown' = written' /\ returned' = written'
  /\ reading' = {}
  /\ UNCHANGED floor

Next ==
  \/ Write \/ Return \/ Publish \/ Restart
  \/ \E t \in Searchers : Read(t) \/ Answer(t)

Spec == Init /\ [][Next]_vars
=============================================================================
