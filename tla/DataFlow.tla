------------------------------- MODULE DataFlow -------------------------------
(***************************************************************************)
(* The analyses of one control flow graph: dominators and unreachable      *)
(* blocks (src/cfg.rs), reaching definitions, liveness and what they say   *)
(* of each definition and use (src/dfg.rs).                                *)
(*                                                                         *)
(* The blocks are in a hash map, so the worklists begin in any order.      *)
(* `pending' is the worklist of the analysis at work, a set: any of its    *)
(* blocks may be next, which includes the order of the code's queues.      *)
(***************************************************************************)
EXTENDS Naturals, Sequences, FiniteSets, SequencesExt

CONSTANT Graphs  \* the graphs of the functions that may be analysed

\* A graph: code[b + 1] are the statements of block b, each with its line and the variables
\* it writes and reads; block 0 is the entry; the edges are in the order they were added.
BlocksOf(g) == 0 .. Len(g.code) - 1
IsGraph(g) ==
  /\ Len(g.code) \in Nat \ {0} /\ g.edges \in Seq(BlocksOf(g) \X BlocksOf(g))
  /\ \A n \in 1 .. Len(g.code) :
       Len(g.code[n]) \in Nat /\ DOMAIN g.code[n] = 1 .. Len(g.code[n])

ASSUME GraphsAssumption == \A g \in Graphs : IsGraph(g)

VARIABLES
  graph,
  phase,              \* the analysis at work
  pending,            \* the blocks it has still to visit
  idom, changed,      \* compute_dominators
  reached,            \* find_unreachable_blocks
  reachIn, reachOut,  \* compute_reaching_definitions
  liveIn, liveOut     \* compute_liveness

dominatorVars == <<idom, changed>>
reachingVars  == <<reachIn, reachOut>>
livenessVars  == <<liveIn, liveOut>>
flowVars == <<graph, phase, pending, dominatorVars, reached, reachingVars, livenessVars>>

Blocks == BlocksOf(graph)
Code(b) == graph.code[b + 1]
Edges == Range(graph.edges)
Predecessors(b) == {p \in Blocks : <<p, b>> \in Edges}
Successors(b) == {s \in Blocks : <<b, s>> \in Edges}

-----------------------------------------------------------------------------
(* Definitions and uses (extract_defs_and_uses).                           *)

Definitions(b) ==
  UNION {{[variable |-> v, block |-> b, line |-> Code(b)[i].line, index |-> i] :
            v \in Code(b)[i].writes} : i \in DOMAIN Code(b)}
Uses(b) ==
  UNION {{[variable |-> v, block |-> b, line |-> Code(b)[i].line, index |-> i] :
            v \in Code(b)[i].reads} : i \in DOMAIN Code(b)}
AllDefinitions == UNION {Definitions(b) : b \in Blocks}
AllUses == UNION {Uses(b) : b \in Blocks}

Defined(b) == {d.variable : d \in Definitions(b)}

UseBeforeDef(b) == {u.variable : u \in Uses(b)} \ Defined(b)

Killed(d, b) == \E e \in Definitions(b) : e.variable = d.variable /\ e # d

\* (Mutant: a definition of a variable does not end the others of it.)
UnkilledOut(b, in) == Definitions(b) \cup in

ReachingOut(b, in) == Definitions(b) \cup {d \in in : ~ Killed(d, b)}

\* (Mutant: a variable stays live above its definition.)
LiveThrough(b, out) == UseBeforeDef(b) \cup out

LiveAtStart(b, out) == UseBeforeDef(b) \cup (out \ Defined(b))

ReachingAtStart(b) == UNION {reachOut[p] : p \in Predecessors(b)}
LiveAtEnd(b) == UNION {liveIn[s] : s \in Successors(b)}

-----------------------------------------------------------------------------
FlowInit ==
  /\ graph \in Graphs
  /\ phase = "dominators" /\ pending = Blocks
  /\ idom = [b \in {0} |-> 0] /\ changed = FALSE
  /\ reached = {0}
  /\ reachIn = [b \in Blocks |-> {}] /\ reachOut = [b \in Blocks |-> {}]
  /\ liveIn = [b \in Blocks |-> {}] /\ liveOut = [b \in Blocks |-> {}]

\* (Mutant: the earlier block steps, which leads nowhere.)
MeetFirst(b1, b2) == IF b1 < b2 THEN b1 ELSE b2

\* (Mutant: two blocks that differ meet at the entry.)
MeetAtEntry(b1, b2) == IF b1 = b2 THEN b1 ELSE 0

\* intersect_dominators: the later of two fingers steps to its dominator until they meet.
Meet(b1, b2) ==
  LET up[at \in (DOMAIN idom) \X (DOMAIN idom)] ==
        IF at[1] = at[2] THEN at[1]
        ELSE IF at[1] > at[2] THEN up[<<idom[at[1]], at[2]>>] ELSE up[<<at[1], idom[at[2]]>>]
  IN  up[<<b1, b2>>]

\* The edges into a block from those that have a dominator, and where these all meet:
\* the first, then met with one after another.
Entering(b) ==
  {i \in DOMAIN graph.edges : graph.edges[i][2] = b /\ graph.edges[i][1] \in DOMAIN idom}
Common(b) ==
  LET entering == Entering(b)
      met[n \in Nat] ==
        IF n = 0 THEN graph.edges[Min(entering)][1]
        ELSE IF n \in entering THEN Meet(graph.edges[n][1], met[n - 1]) ELSE met[n - 1]
  IN  met[Len(graph.edges)]

\* One block of a pass of compute_dominators.
VisitDominator(b) ==
  /\ phase = "dominators" /\ b \in pending
  /\ pending' = pending \ {b}
  /\ IF b = 0 \/ Entering(b) = {} \/ (b \in DOMAIN idom /\ idom[b] = Common(b))
     THEN UNCHANGED dominatorVars
     ELSE /\ idom' = [x \in DOMAIN idom \cup {b} |-> IF x = b THEN Common(b) ELSE idom[x]]
          /\ changed' = TRUE
  /\ UNCHANGED <<graph, phase, reached, reachingVars, livenessVars>>

\* (Mutant: one pass is taken to be enough.)
EndPassOnce ==
  /\ phase = "dominators" /\ pending = {}
  /\ changed' = FALSE /\ pending' = {0} /\ phase' = "reachable"
  /\ UNCHANGED <<graph, idom, reached, reachingVars, livenessVars>>

\* (Mutant: `changed' is not reset for the next pass.)
EndPassStillChanged ==
  /\ phase = "dominators" /\ pending = {}
  /\ \/ changed /\ pending' = Blocks /\ UNCHANGED phase
     \/ ~ changed /\ pending' = {0} /\ phase' = "reachable"
  /\ UNCHANGED <<graph, dominatorVars, reached, reachingVars, livenessVars>>

\* A pass that changed something is followed by another.
EndPass ==
  /\ phase = "dominators" /\ pending = {}
  /\ changed' = FALSE
  /\ \/ changed /\ pending' = Blocks /\ UNCHANGED phase
     \/ ~ changed /\ pending' = {0} /\ phase' = "reachable"
  /\ UNCHANGED <<graph, idom, reached, reachingVars, livenessVars>>

\* find_unreachable_blocks.
VisitReachable(b) ==
  LET new == Successors(b) \ reached IN
  /\ phase = "reachable" /\ b \in pending
  /\ reached' = reached \cup new
  /\ pending' = (pending \ {b}) \cup new
  /\ UNCHANGED <<graph, phase, dominatorVars, reachingVars, livenessVars>>

\* (Mutant: the block's successors are not visited again.)
VisitReachingOnce(b) ==
  /\ phase = "reaching" /\ b \in pending
  /\ reachIn' = [reachIn EXCEPT ![b] = ReachingAtStart(b)]
  /\ reachOut' = [reachOut EXCEPT ![b] = ReachingOut(b, ReachingAtStart(b))]
  /\ pending' = pending \ {b}
  /\ UNCHANGED <<graph, phase, dominatorVars, reached, livenessVars>>

\* (Mutant: the block's successors are visited again even if nothing changed.)
VisitReachingAlways(b) ==
  /\ phase = "reaching" /\ b \in pending
  /\ reachIn' = [reachIn EXCEPT ![b] = ReachingAtStart(b)]
  /\ reachOut' = [reachOut EXCEPT ![b] = ReachingOut(b, ReachingAtStart(b))]
  /\ pending' = (pending \ {b}) \cup Successors(b)
  /\ UNCHANGED <<graph, phase, dominatorVars, reached, livenessVars>>

\* compute_reaching_definitions: what reaches the start is kept only when what reaches
\* the end has changed.
VisitReaching(b) ==
  LET out == ReachingOut(b, ReachingAtStart(b)) IN
  /\ phase = "reaching" /\ b \in pending
  /\ IF reachOut[b] = out
     THEN pending' = pending \ {b} /\ UNCHANGED reachingVars
     ELSE /\ reachIn' = [reachIn EXCEPT ![b] = ReachingAtStart(b)]
          /\ reachOut' = [reachOut EXCEPT ![b] = out]
          /\ pending' = (pending \ {b}) \cup Successors(b)
  /\ UNCHANGED <<graph, phase, dominatorVars, reached, livenessVars>>

\* compute_liveness, backwards.
VisitLive(b) ==
  LET in == LiveAtStart(b, LiveAtEnd(b)) IN
  /\ phase = "liveness" /\ b \in pending
  /\ IF liveIn[b] = in
     THEN pending' = pending \ {b} /\ UNCHANGED livenessVars
     ELSE /\ liveIn' = [liveIn EXCEPT ![b] = in]
          /\ liveOut' = [liveOut EXCEPT ![b] = LiveAtEnd(b)]
          /\ pending' = (pending \ {b}) \cup Predecessors(b)
  /\ UNCHANGED <<graph, phase, dominatorVars, reached, reachingVars>>

\* The analyses follow each other (build, analyze).
NextAnalysis ==
  /\ pending = {}
  /\ \/ phase = "reachable" /\ phase' = "reaching" /\ pending' = Blocks
     \/ phase = "reaching" /\ phase' = "liveness" /\ pending' = Blocks
     \/ phase = "liveness" /\ phase' = "done" /\ UNCHANGED pending
  /\ UNCHANGED <<graph, dominatorVars, reached, reachingVars, livenessVars>>

FlowNext ==
  \/ \E b \in Blocks :
       VisitDominator(b) \/ VisitReachable(b) \/ VisitReaching(b) \/ VisitLive(b)
  \/ EndPass \/ NextAnalysis

FlowSpec == FlowInit /\ [][FlowNext]_flowVars
FlowFairSpec == FlowSpec /\ WF_flowVars(FlowNext)

-----------------------------------------------------------------------------
(* What the results are used for.                                          *)

\* dominates: a block, its dominator, the dominator's dominator ...
Dominates(a, b) ==
  LET up[x \in Blocks] == x = a \/ (x \in DOMAIN idom /\ idom[x] # x /\ up[idom[x]])
  IN  up[b]

\* find_loops.
BackEdges == {e \in Edges : Dominates(e[2], e[1])}

\* definition_reaches_use.
ReachesUse(d, u) ==
  /\ d \in reachIn[u.block] \/ d \in Definitions(u.block)
  /\ d.block = u.block => d.line < u.line

\* build_def_use_chains, find_dead_stores, find_uninitialized_uses.
UsesOf(d) == {u \in AllUses : u.variable = d.variable /\ ReachesUse(d, u)}
DeadStores == {d \in AllDefinitions : UsesOf(d) = {}}
UninitializedUses == {u \in AllUses : \A d \in AllDefinitions : u \notin UsesOf(d)}

Unreachable == Blocks \ reached

-----------------------------------------------------------------------------
(* What the analyses are to find, along the paths of the graph.            *)

\* The blocks on paths from S through the given edges.
From(S, edges) ==
  LET step[n \in Nat] ==
        IF n = 0 THEN S
        ELSE LET before == step[n - 1]
             IN  before \cup {y \in Blocks : \E x \in before : <<x, y>> \in edges}
  IN  step[Cardinality(Blocks)]

\* The blocks whose end a definition reaches: none if its own block writes the variable
\* again after it, else its block and on from there until a block writes the variable.
Overwritten(d) == \E e \in Definitions(d.block) : e.variable = d.variable /\ e.index > d.index
Survives(d) ==
  IF Overwritten(d) THEN {} ELSE From({d.block}, {e \in Edges : d.variable \notin Defined(e[2])})

\* The blocks that read a variable before any of their statements has written it (what a
\* statement reads it reads before it writes), and the blocks that lead to some blocks with
\* no write of the variable on the way: where it is needed.
ReadFirst(v) ==
  {b \in Blocks : \E i \in DOMAIN Code(b) :
     v \in Code(b)[i].reads /\ \A j \in DOMAIN Code(b) : v \in Code(b)[j].writes => i <= j}
Towards(S, v) == From(S, {<<e[2], e[1]>> : e \in {f \in Edges : v \notin Defined(f[1])}})
Needing(v) == Towards(ReadFirst(v), v)

\* A use that a definition reaches inside their block, or by a path that leaves it.
Before(d, u) ==
  /\ d.block = u.block /\ d.index < u.index
  /\ \A e \in Definitions(d.block) :
       e.variable = d.variable => e.index <= d.index \/ u.index <= e.index
Around(d, u) ==
  /\ u.block \in From(Successors(d.block), {e \in Edges : d.variable \notin Defined(e[1])})
  /\ ~ Overwritten(d)
  /\ \A e \in Definitions(u.block) : e.variable = d.variable => u.index <= e.index
IsRead(d) == \E u \in AllUses : u.variable = d.variable /\ (Before(d, u) \/ Around(d, u))

-----------------------------------------------------------------------------
Done == phase = "done"

FlowTypeOK ==
  /\ IsGraph(graph)
  /\ phase \in {"dominators", "reachable", "reaching", "liveness", "done"}
  /\ pending \subseteq Blocks /\ reached \subseteq Blocks
  /\ changed \in BOOLEAN
  /\ DOMAIN idom \subseteq Blocks
  /\ reachIn \in [Blocks -> SUBSET AllDefinitions]
  /\ reachOut \in [Blocks -> SUBSET AllDefinitions]
  /\ DOMAIN liveIn = Blocks /\ DOMAIN liveOut = Blocks

\* What a worklist no longer holds is settled: every successor of a reached block is
\* reached, what reaches the end of a block and what is live at its start follow from its
\* neighbours, and a definition of a variable the block does not write reaches its start
\* exactly when it reaches its end.
PendingIn(p) == IF phase = p THEN pending ELSE {}
ReachedSettled ==
  /\ 0 \in reached
  /\ IF phase = "dominators" THEN reached = {0}
     ELSE \A b \in reached \ PendingIn("reachable") : Successors(b) \subseteq reached
ReachingSettled ==
  phase \in {"reaching", "liveness", "done"} =>
    \A b \in Blocks \ PendingIn("reaching") : reachOut[b] = ReachingOut(b, ReachingAtStart(b))
StartsSettled ==
  \A b \in Blocks : \A d \in AllDefinitions :
    d.variable \notin Defined(b) => (d \in reachOut[b] <=> d \in reachIn[b])
LivenessSettled ==
  phase \in {"liveness", "done"} =>
    \A b \in Blocks \ PendingIn("liveness") : liveIn[b] = LiveAtStart(b, LiveAtEnd(b))

\* The invariant of the worklists (find_unreachable_blocks, compute_reaching_definitions,
\* compute_liveness): a block whose neighbours changed is pending again.
FlowInv == FlowTypeOK /\ ReachedSettled /\ ReachingSettled /\ StartsSettled /\ LivenessSettled

\* The blocks that a path from the entry can come to without passing a.
Avoiding(a) == From({0} \ {a}, {e \in Edges : e[2] # a})

\* A block is said to dominate another only if no path from the entry to the other avoids
\* it, whatever order the passes take the blocks in (compute_dominators, dominates).
DominatorsSound ==
  Done => \A a \in reached : Avoiding(a) \cap {b \in reached \ {a} : Dominates(a, b)} = {}

\* Every dominator is found: Cooper's algorithm compares positions in a reverse postorder,
\* intersect_dominators compares the numbers the blocks were created with.
DominatorsComplete ==
  Done => \A a \in reached : \A b \in reached \ Avoiding(a) : Dominates(a, b)

\* The blocks that every path from the entry comes to through a, and whether a was made
\* before them.
Below(a) == From({0}, Edges) \ Avoiding(a)
MadeFirst(a) == \A b \in Below(a) : a <= b

\* Every dominator is found that was made before the blocks it dominates, whatever order
\* the passes take the blocks in (compute_dominators, intersect_dominators).
DominatorsFoundInOrder ==
  Done => \A a \in {x \in reached : MadeFirst(x)} : \A b \in Below(a) : Dominates(a, b)

\* Every loop is found by a back edge: without those that find_loops gives, no block that
\* can be reached leads back to itself.
LoopsAreFound ==
  Done =>
    LET forward == {e \in Edges : e[1] \in reached} \ BackEdges IN
    \A b \in reached : b \notin From({y \in Blocks : <<b, y>> \in forward}, forward)

\* The last definition of a variable in a block is said to reach the end of just the blocks
\* that some path takes it to (compute_reaching_definitions). Those that their own block
\* overwrites the code lets reach as far as the last one; nothing is claimed of them.
ReachingIsPathwise ==
  Done => \A d \in AllDefinitions :
            ~ Overwritten(d) => Survives(d) = {b \in Blocks : d \in reachOut[b]}

\* A variable is live at the start of a block only if some path from there reads it before
\* it is written, and it is live wherever such a path ends in a block that does not write
\* the variable (compute_liveness). A block that reads and then writes it the code does not
\* count as reading it; nothing is claimed of paths to such a block only.
LivenessIsPathwise ==
  Done => \A v \in {s.variable : s \in AllDefinitions \cup AllUses} :
            LET live == {b \in Blocks : v \in liveIn[b]} IN
            /\ live \subseteq Needing(v)
            /\ Towards({b \in ReadFirst(v) : v \notin Defined(b)}, v) \subseteq live

\* The last definition of a variable in a block is tied to a use in another block only if
\* some path brings it there, and, if that block does not write the variable, whenever
\* some path does (build_def_use_chains).
UsesElsewhereAreFound ==
  Done => \A d \in {e \in AllDefinitions : ~ Overwritten(e)} :
    LET ends == Survives(d) IN
    \A u \in {w \in AllUses : w.variable = d.variable /\ w.block # d.block} :
      /\ u \in UsesOf(d) => Predecessors(u.block) \cap ends # {}
      /\ Predecessors(u.block) \cap ends # {} /\ u.variable \notin Defined(u.block)
           => u \in UsesOf(d)

\* Nothing reported as a dead store is read (find_dead_stores: "variable assignments
\* that are never read").
DeadStoresAreDead == Done => \A d \in DeadStores : ~ IsRead(d)

\* What the worklists find is never taken back, and every visit adds to it or leaves one
\* block less to visit: in no order can blocks put each other back for ever
\* (find_unreachable_blocks, compute_reaching_definitions, compute_liveness).
VisitsProgress ==
  [][/\ reached \subseteq reached'
     /\ \A b \in Blocks : reachOut[b] \subseteq reachOut'[b] /\ liveIn[b] \subseteq liveIn'[b]
     /\ \/ phase = "dominators" \/ phase' # phase
        \/ <<reached', reachOut', liveIn'>> # <<reached, reachOut, liveIn>>
        \/ pending' \subseteq pending /\ pending' # pending]_flowVars

\* The worklists run empty, in whatever order they are worked off.
AnalysisEnds == <>Done
===============================================================================
