--------------------------- MODULE DataFlow_proofs ---------------------------
(***************************************************************************)
(* What the analyses of DataFlow compute, for every control flow graph and *)
(* every order of their worklists: what their equations say, and nothing   *)
(* more.                                                                   *)
(***************************************************************************)
EXTENDS DataFlow, FiniteSetTheorems, WellFoundedInduction, TLAPS

-----------------------------------------------------------------------------
(* The graph and what is read off it.                                      *)

\* The predecessors of a block are the blocks it is a successor of.
LEMMA Neighbours ==
  /\ \A b : Predecessors(b) \subseteq Blocks /\ Successors(b) \subseteq Blocks
  /\ \A b, p \in Blocks : p \in Predecessors(b) <=> b \in Successors(p)
BY DEF Predecessors, Successors

\* What a block defines is of the variables it defines, and only that kills.
LEMMA DefinesOnly ==
  ASSUME NEW b \in Blocks
  PROVE  /\ Definitions(b) \subseteq AllDefinitions
         /\ \A d \in Definitions(b) : d.variable \in Defined(b)
         /\ \A d : Killed(d, b) => d.variable \in Defined(b)
<1>1. Definitions(b) \subseteq AllDefinitions
  BY DEF AllDefinitions
<1>2. \A d \in Definitions(b) : d.variable \in Defined(b)
  BY DEF Defined
<1>3. \A d : Killed(d, b) => d.variable \in Defined(b)
  BY <1>2 DEF Killed
<1> QED BY <1>1, <1>2, <1>3

\* A definition of a variable that a block does not write passes through it.
LEMMA PassesThrough ==
  ASSUME NEW b \in Blocks, NEW in, NEW d, d.variable \notin Defined(b)
  PROVE  d \in ReachingOut(b, in) <=> d \in in
BY DefinesOnly DEF ReachingOut

\* What reaches the end is made of what reaches the start and the block's own.
LEMMA OutIsTyped ==
  ASSUME NEW b \in Blocks, NEW in \in SUBSET AllDefinitions
  PROVE  ReachingOut(b, in) \in SUBSET AllDefinitions
BY DefinesOnly DEF ReachingOut

\* More at the start is more at the end, and the same with what is live.
LEMMA Monotone ==
  ASSUME NEW b, NEW in, NEW more, in \subseteq more
  PROVE  /\ ReachingOut(b, in) \subseteq ReachingOut(b, more)
         /\ LiveAtStart(b, in) \subseteq LiveAtStart(b, more)
BY DEF ReachingOut, LiveAtStart

\* No step changes the graph (compute_dominators ... compute_liveness read it only).
Fixed ==
  /\ graph' = graph /\ Blocks' = Blocks /\ AllDefinitions' = AllDefinitions
  /\ \A b : /\ Predecessors(b)' = Predecessors(b) /\ Successors(b)' = Successors(b)
            /\ Defined(b)' = Defined(b)
  /\ \A b, S : ReachingOut(b, S)' = ReachingOut(b, S) /\ LiveAtStart(b, S)' = LiveAtStart(b, S)

LEMMA GraphFixed ==
  ASSUME graph' = graph
  PROVE  Fixed
<1>1. Blocks' = Blocks /\ \A b : Predecessors(b)' = Predecessors(b) /\ Successors(b)' = Successors(b)
  BY DEF Blocks, BlocksOf, Predecessors, Successors, Edges
<1>2. ASSUME NEW b
      PROVE  Definitions(b)' = Definitions(b) /\ Uses(b)' = Uses(b)
  <2>1. Definitions(b)' = Definitions(b)
    BY DEF Definitions, Code
  <2>2. Uses(b)' = Uses(b)
    BY DEF Uses, Code
  <2> QED BY <2>1, <2>2
<1>3. AllDefinitions' = AllDefinitions
  BY <1>1, <1>2 DEF AllDefinitions
<1>4. \A b : Defined(b)' = Defined(b)
  BY <1>2 DEF Defined
<1>5. \A b : UseBeforeDef(b)' = UseBeforeDef(b)
  BY <1>2, <1>4 DEF UseBeforeDef
<1>6. \A b, d : Killed(d, b)' = Killed(d, b)
  BY <1>2 DEF Killed
<1>7. ASSUME NEW b, NEW S
      PROVE  ReachingOut(b, S)' = ReachingOut(b, S)
  BY <1>2, <1>6 DEF ReachingOut
<1>8. ASSUME NEW b, NEW S
      PROVE  LiveAtStart(b, S)' = LiveAtStart(b, S)
  BY <1>4, <1>5 DEF LiveAtStart
<1> QED BY <1>1, <1>3, <1>4, <1>7, <1>8 DEF Fixed

LEMMA StepFixes ==
  ASSUME [FlowNext]_flowVars
  PROVE  Fixed
<1>1. graph' = graph
  BY DEF FlowNext, VisitDominator, EndPass, VisitReachable, VisitReaching, VisitLive,
         NextAnalysis, flowVars
<1> QED BY <1>1, GraphFixed

-----------------------------------------------------------------------------
(* The invariant of the worklists: the initial state and one lemma an      *)
(* action.                                                                 *)

LEMMA InitSettled ==
  ASSUME FlowInit
  PROVE  FlowInv
<1>1. FlowTypeOK
  <2>1. IsGraph(graph)
    BY GraphsAssumption DEF FlowInit
  <2>2. 0 \in Blocks
    BY <2>1 DEF IsGraph, Blocks, BlocksOf
  <2> QED BY <2>1, <2>2 DEF FlowInit, FlowTypeOK
<1> QED BY <1>1 DEF FlowInit, FlowInv, ReachedSettled, ReachingSettled, StartsSettled, LivenessSettled

LEMMA VisitDominatorKeeps ==
  ASSUME FlowInv, Fixed, NEW b \in Blocks, VisitDominator(b)
  PROVE  FlowInv'
<1>1. FlowTypeOK'
  <2>1. IsGraph(graph)'
    BY DEF FlowInv, FlowTypeOK, Fixed
  <2>2. DOMAIN idom' \subseteq Blocks /\ changed' \in BOOLEAN
    BY DEF FlowInv, FlowTypeOK, VisitDominator, dominatorVars
  <2> QED BY <2>1, <2>2 DEF FlowInv, FlowTypeOK, Fixed, VisitDominator, reachingVars, livenessVars
<1>2. StartsSettled'
  BY DEF FlowInv, StartsSettled, Fixed, VisitDominator, reachingVars
<1>3. ReachedSettled'
  BY DEF FlowInv, ReachedSettled, VisitDominator
<1> QED BY <1>1, <1>2, <1>3 DEF FlowInv, ReachingSettled, LivenessSettled, VisitDominator

LEMMA EndPassKeeps ==
  ASSUME FlowInv, Fixed, EndPass
  PROVE  FlowInv'
<1>1. FlowTypeOK'
  <2>1. IsGraph(graph)' /\ 0 \in Blocks
    BY DEF FlowInv, FlowTypeOK, Fixed, IsGraph, Blocks, BlocksOf
  <2> QED BY <2>1 DEF FlowInv, FlowTypeOK, Fixed, EndPass, reachingVars, livenessVars
<1>2. StartsSettled'
  BY DEF FlowInv, StartsSettled, Fixed, EndPass, reachingVars
<1>3. ReachedSettled'
  BY DEF FlowInv, ReachedSettled, Fixed, EndPass, PendingIn
<1> QED BY <1>1, <1>2, <1>3 DEF FlowInv, ReachingSettled, LivenessSettled, EndPass

LEMMA VisitReachableKeeps ==
  ASSUME FlowInv, Fixed, NEW b \in Blocks, VisitReachable(b)
  PROVE  FlowInv'
<1>1. FlowTypeOK'
  <2>1. IsGraph(graph)' /\ Successors(b) \subseteq Blocks
    BY Neighbours DEF FlowInv, FlowTypeOK, Fixed
  <2> QED BY <2>1 DEF FlowInv, FlowTypeOK, Fixed, VisitReachable, dominatorVars, reachingVars, livenessVars
<1>2. ReachedSettled'
  BY DEF FlowInv, ReachedSettled, Fixed, VisitReachable, PendingIn
<1>3. StartsSettled'
  BY DEF FlowInv, StartsSettled, Fixed, VisitReachable, reachingVars
<1> QED BY <1>1, <1>2, <1>3 DEF FlowInv, ReachingSettled, LivenessSettled, VisitReachable

\* What reaches a start is typed, and a step that changes one block's end changes it for
\* that block's successors only.
LEMMA StartIsTyped ==
  ASSUME FlowTypeOK, NEW b \in Blocks
  PROVE  ReachingAtStart(b) \in SUBSET AllDefinitions
BY Neighbours DEF FlowTypeOK, ReachingAtStart

LEMMA StartUnchanged ==
  ASSUME FlowTypeOK, Fixed, NEW b \in Blocks, NEW c \in Blocks, c \notin Successors(b),
         NEW out, reachOut' = [reachOut EXCEPT ![b] = out]
  PROVE  ReachingAtStart(c)' = ReachingAtStart(c)
<1>1. b \notin Predecessors(c) /\ Predecessors(c) \subseteq Blocks /\ Predecessors(c)' = Predecessors(c)
  BY Neighbours DEF Fixed
<1>2. \A p \in Predecessors(c) : reachOut'[p] = reachOut[p]
  BY <1>1 DEF FlowTypeOK
<1> QED BY <1>1, <1>2 DEF ReachingAtStart

LEMMA VisitReachingKeeps ==
  ASSUME FlowInv, Fixed, NEW b \in Blocks, VisitReaching(b)
  PROVE  FlowInv'
<1> DEFINE in == ReachingAtStart(b)
<1> DEFINE out == ReachingOut(b, in)
<1>1. phase = "reaching" /\ phase' = phase /\ UNCHANGED <<dominatorVars, reached, livenessVars>>
  BY DEF VisitReaching
<1>2. in \in SUBSET AllDefinitions /\ out \in SUBSET AllDefinitions
  BY StartIsTyped, OutIsTyped DEF FlowInv
<1>3. \/ reachOut[b] = out /\ pending' = pending \ {b} /\ UNCHANGED reachingVars
      \/ /\ reachIn' = [reachIn EXCEPT ![b] = in] /\ reachOut' = [reachOut EXCEPT ![b] = out]
         /\ pending' = (pending \ {b}) \cup Successors(b)
  BY DEF VisitReaching
<1>4. FlowTypeOK'
  <2>1. IsGraph(graph)' /\ Successors(b) \subseteq Blocks
    BY Neighbours DEF FlowInv, FlowTypeOK, Fixed
  <2>2. pending' \subseteq Blocks
    BY <1>3, <2>1 DEF FlowInv, FlowTypeOK
  <2>3. reachIn' \in [Blocks -> SUBSET AllDefinitions] /\ reachOut' \in [Blocks -> SUBSET AllDefinitions]
    BY <1>2, <1>3 DEF FlowInv, FlowTypeOK, reachingVars
  <2> QED BY <1>1, <2>1, <2>2, <2>3 DEF FlowInv, FlowTypeOK, Fixed, dominatorVars, livenessVars
<1>5. ReachingSettled'
  <2> SUFFICES ASSUME NEW c \in Blocks, c \notin pending'
               PROVE  reachOut'[c] = ReachingOut(c, ReachingAtStart(c)')
    BY <1>1 DEF ReachingSettled, PendingIn, Fixed
  <2>1. c # b => reachOut[c] = ReachingOut(c, ReachingAtStart(c))
    BY <1>1, <1>3 DEF FlowInv, ReachingSettled, PendingIn
  <2>2. CASE UNCHANGED reachingVars /\ reachOut[b] = out
    <3>1. ReachingAtStart(c)' = ReachingAtStart(c)
      BY <2>2 DEF ReachingAtStart, reachingVars, Fixed
    <3> QED BY <2>1, <2>2, <3>1 DEF reachingVars
  <2>3. CASE /\ reachOut' = [reachOut EXCEPT ![b] = out]
             /\ pending' = (pending \ {b}) \cup Successors(b)
    <3>1. ReachingAtStart(c)' = ReachingAtStart(c)
      BY <2>3, StartUnchanged DEF FlowInv
    <3>2. reachOut'[c] = IF c = b THEN out ELSE reachOut[c]
      BY <2>3 DEF FlowInv, FlowTypeOK
    <3> QED BY <2>1, <3>1, <3>2
  <2> QED BY <1>3, <2>2, <2>3
<1>6. StartsSettled'
  <2> SUFFICES ASSUME NEW c \in Blocks, NEW d \in AllDefinitions, d.variable \notin Defined(c)
               PROVE  d \in reachOut'[c] <=> d \in reachIn'[c]
    BY DEF StartsSettled, Fixed
  <2>1. d \in reachOut[c] <=> d \in reachIn[c]
    BY DEF FlowInv, StartsSettled
  <2>2. CASE UNCHANGED reachingVars
    BY <2>1, <2>2 DEF reachingVars
  <2>3. CASE reachIn' = [reachIn EXCEPT ![b] = in] /\ reachOut' = [reachOut EXCEPT ![b] = out]
    <3>1. CASE c = b
      <4>1. reachIn'[c] = in /\ reachOut'[c] = out
        BY <2>3, <3>1 DEF FlowInv, FlowTypeOK
      <4> QED BY <3>1, <4>1, PassesThrough
    <3>2. CASE c # b
      BY <2>1, <2>3, <3>2 DEF FlowInv, FlowTypeOK
    <3> QED BY <3>1, <3>2
  <2> QED BY <1>3, <2>2, <2>3
<1>7. ReachedSettled'
  BY <1>1 DEF FlowInv, ReachedSettled, Fixed, PendingIn
<1>8. LivenessSettled'
  BY <1>1 DEF LivenessSettled
<1> QED BY <1>4, <1>5, <1>6, <1>7, <1>8 DEF FlowInv

LEMMA EndUnchanged ==
  ASSUME FlowTypeOK, Fixed, NEW b \in Blocks, NEW c \in Blocks, c \notin Predecessors(b),
         NEW in, liveIn' = [liveIn EXCEPT ![b] = in]
  PROVE  LiveAtEnd(c)' = LiveAtEnd(c)
<1>1. b \notin Successors(c) /\ Successors(c) \subseteq Blocks /\ Successors(c)' = Successors(c)
  BY Neighbours DEF Fixed
<1>2. \A s \in Successors(c) : liveIn'[s] = liveIn[s]
  BY <1>1 DEF FlowTypeOK
<1> QED BY <1>1, <1>2 DEF LiveAtEnd

LEMMA VisitLiveKeeps ==
  ASSUME FlowInv, Fixed, NEW b \in Blocks, VisitLive(b)
  PROVE  FlowInv'
<1> DEFINE out == LiveAtEnd(b)
<1> DEFINE in == LiveAtStart(b, out)
<1>1. phase = "liveness" /\ phase' = phase /\ UNCHANGED <<dominatorVars, reached, reachingVars>>
  BY DEF VisitLive
<1>2. \/ liveIn[b] = in /\ pending' = pending \ {b} /\ UNCHANGED livenessVars
      \/ /\ liveIn' = [liveIn EXCEPT ![b] = in] /\ liveOut' = [liveOut EXCEPT ![b] = out]
         /\ pending' = (pending \ {b}) \cup Predecessors(b)
  BY DEF VisitLive
<1>3. FlowTypeOK'
  <2>1. IsGraph(graph)' /\ Predecessors(b) \subseteq Blocks
    BY Neighbours DEF FlowInv, FlowTypeOK, Fixed
  <2>2. pending' \subseteq Blocks /\ DOMAIN liveIn' = Blocks /\ DOMAIN liveOut' = Blocks
    BY <1>2, <2>1 DEF FlowInv, FlowTypeOK, livenessVars
  <2> QED BY <1>1, <2>1, <2>2 DEF FlowInv, FlowTypeOK, Fixed, dominatorVars, reachingVars
<1>4. LivenessSettled'
  <2> SUFFICES ASSUME NEW c \in Blocks, c \notin pending'
               PROVE  liveIn'[c] = LiveAtStart(c, LiveAtEnd(c)')
    BY <1>1 DEF LivenessSettled, PendingIn, Fixed
  <2>1. c # b => liveIn[c] = LiveAtStart(c, LiveAtEnd(c))
    BY <1>1, <1>2 DEF FlowInv, LivenessSettled, PendingIn
  <2>2. CASE UNCHANGED livenessVars /\ liveIn[b] = in
    <3>1. LiveAtEnd(c)' = LiveAtEnd(c)
      BY <2>2 DEF LiveAtEnd, livenessVars, Fixed
    <3> QED BY <2>1, <2>2, <3>1 DEF livenessVars
  <2>3. CASE /\ liveIn' = [liveIn EXCEPT ![b] = in]
             /\ pending' = (pending \ {b}) \cup Predecessors(b)
    <3>1. LiveAtEnd(c)' = LiveAtEnd(c)
      BY <2>3, EndUnchanged DEF FlowInv
    <3>2. liveIn'[c] = IF c = b THEN in ELSE liveIn[c]
      BY <2>3 DEF FlowInv, FlowTypeOK
    <3> QED BY <2>1, <3>1, <3>2
  <2> QED BY <1>2, <2>2, <2>3
<1>5. ReachingSettled' /\ StartsSettled'
  <2>1. \A c \in Blocks : ReachingAtStart(c)' = ReachingAtStart(c)
    BY <1>1 DEF ReachingAtStart, Fixed, reachingVars
  <2> QED BY <1>1, <2>1 DEF FlowInv, ReachingSettled, StartsSettled, PendingIn, Fixed, reachingVars
<1>6. ReachedSettled'
  BY <1>1 DEF FlowInv, ReachedSettled, Fixed, PendingIn
<1> QED BY <1>3, <1>4, <1>5, <1>6 DEF FlowInv

LEMMA NextAnalysisKeeps ==
  ASSUME FlowInv, Fixed, NextAnalysis
  PROVE  FlowInv'
<1>1. /\ pending = {} /\ pending' \subseteq Blocks
      /\ UNCHANGED <<dominatorVars, reached, reachingVars, livenessVars>>
      /\ \/ phase = "reachable" /\ phase' = "reaching" /\ pending' = Blocks
         \/ phase = "reaching" /\ phase' = "liveness" /\ pending' = Blocks
         \/ phase = "liveness" /\ phase' = "done" /\ pending' = {}
  BY DEF NextAnalysis
<1>2. FlowTypeOK'
  <2>1. IsGraph(graph)'
    BY DEF FlowInv, FlowTypeOK, Fixed
  <2> QED BY <1>1, <2>1 DEF FlowInv, FlowTypeOK, Fixed, dominatorVars, reachingVars, livenessVars
<1>3. ReachedSettled'
  BY <1>1 DEF FlowInv, ReachedSettled, Fixed, PendingIn
<1>4. ReachingSettled' /\ StartsSettled'
  <2>1. \A c \in Blocks : ReachingAtStart(c)' = ReachingAtStart(c)
    BY <1>1 DEF ReachingAtStart, Fixed, reachingVars
  <2> QED BY <1>1, <2>1 DEF FlowInv, ReachingSettled, StartsSettled, PendingIn, Fixed, reachingVars
<1>5. LivenessSettled'
  <2>1. \A c \in Blocks : LiveAtEnd(c)' = LiveAtEnd(c)
    BY <1>1 DEF LiveAtEnd, Fixed, livenessVars
  <2> QED BY <1>1, <2>1 DEF FlowInv, LivenessSettled, PendingIn, Fixed, livenessVars
<1> QED BY <1>2, <1>3, <1>4, <1>5 DEF FlowInv

LEMMA StutterKeeps ==
  ASSUME FlowInv, Fixed, UNCHANGED flowVars
  PROVE  FlowInv'
<1>1. \A c : ReachingAtStart(c)' = ReachingAtStart(c) /\ LiveAtEnd(c)' = LiveAtEnd(c)
  BY DEF ReachingAtStart, LiveAtEnd, Fixed, flowVars, reachingVars, livenessVars
<1>2. FlowTypeOK'
  <2>1. IsGraph(graph)'
    BY DEF FlowInv, FlowTypeOK, Fixed
  <2> QED BY <2>1 DEF FlowInv, FlowTypeOK, Fixed, flowVars, dominatorVars, reachingVars, livenessVars
<1>3. ReachedSettled' /\ StartsSettled'
  BY DEF FlowInv, ReachedSettled, StartsSettled, PendingIn, Fixed, flowVars, reachingVars
<1>4. ReachingSettled' /\ LivenessSettled'
  BY <1>1 DEF FlowInv, ReachingSettled, LivenessSettled, PendingIn, Fixed, flowVars, reachingVars, livenessVars
<1> QED BY <1>2, <1>3, <1>4 DEF FlowInv

\* The invariant of the worklists, for every graph and every order
\* (find_unreachable_blocks, compute_reaching_definitions, compute_liveness).
THEOREM FlowInvHolds == FlowSpec => []FlowInv
<1>1. FlowInit => FlowInv
  BY InitSettled
<1>2. FlowInv /\ [FlowNext]_flowVars => FlowInv'
  <2> SUFFICES ASSUME FlowInv, [FlowNext]_flowVars
               PROVE  FlowInv'
    OBVIOUS
  <2>1. Fixed
    BY StepFixes
  <2>2. CASE \E b \in Blocks : VisitDominator(b)
    BY <2>1, <2>2, VisitDominatorKeeps
  <2>3. CASE \E b \in Blocks : VisitReachable(b)
    BY <2>1, <2>3, VisitReachableKeeps
  <2>4. CASE \E b \in Blocks : VisitReaching(b)
    BY <2>1, <2>4, VisitReachingKeeps
  <2>5. CASE \E b \in Blocks : VisitLive(b)
    BY <2>1, <2>5, VisitLiveKeeps
  <2>6. CASE EndPass
    BY <2>1, <2>6, EndPassKeeps
  <2>7. CASE NextAnalysis
    BY <2>1, <2>7, NextAnalysisKeeps
  <2>8. CASE UNCHANGED flowVars
    BY <2>1, <2>8, StutterKeeps
  <2> QED BY <2>2, <2>3, <2>4, <2>5, <2>6, <2>7, <2>8 DEF FlowNext
<1> QED BY <1>1, <1>2, PTL DEF FlowSpec

-----------------------------------------------------------------------------
(* The worklists come to rest: a fact found at a block follows from what   *)
(* its neighbours have by now, and they never have less.                   *)

Follows ==
  \A b \in Blocks : /\ reachIn[b] \subseteq ReachingAtStart(b)
                    /\ reachOut[b] \subseteq ReachingOut(b, ReachingAtStart(b))
                    /\ liveIn[b] \subseteq LiveAtStart(b, LiveAtEnd(b))

\* Nothing found is taken back.
Grows ==
  /\ reached \subseteq reached'
  /\ \A b \in Blocks : reachOut[b] \subseteq reachOut'[b] /\ liveIn[b] \subseteq liveIn'[b]

LEMMA StepGrows ==
  ASSUME FlowInv, Follows, [FlowNext]_flowVars
  PROVE  Grows
<1>1. ASSUME NEW b \in Blocks, VisitReaching(b)
      PROVE  Grows
  <2>1. \/ reachOut' = reachOut
        \/ reachOut' = [reachOut EXCEPT ![b] = ReachingOut(b, ReachingAtStart(b))]
    BY <1>1 DEF VisitReaching, reachingVars
  <2>2. \A c \in Blocks : reachOut[c] \subseteq reachOut'[c]
    BY <2>1 DEF FlowInv, FlowTypeOK, Follows
  <2> QED BY <1>1, <2>2 DEF VisitReaching, livenessVars, Grows
<1>2. ASSUME NEW b \in Blocks, VisitLive(b)
      PROVE  Grows
  <2>1. \/ liveIn' = liveIn
        \/ liveIn' = [liveIn EXCEPT ![b] = LiveAtStart(b, LiveAtEnd(b))]
    BY <1>2 DEF VisitLive, livenessVars
  <2>2. \A c \in Blocks : liveIn[c] \subseteq liveIn'[c]
    BY <2>1 DEF FlowInv, FlowTypeOK, Follows
  <2> QED BY <1>2, <2>2 DEF VisitLive, reachingVars, Grows
<1>3. CASE reached \subseteq reached' /\ UNCHANGED <<reachingVars, livenessVars>>
  BY <1>3 DEF Grows, reachingVars, livenessVars
<1>4. \/ \E b \in Blocks : VisitReaching(b) \/ VisitLive(b)
      \/ reached \subseteq reached' /\ UNCHANGED <<reachingVars, livenessVars>>
  BY DEF FlowNext, VisitDominator, EndPass, VisitReachable, NextAnalysis, flowVars
<1> QED BY <1>1, <1>2, <1>3, <1>4

LEMMA StepKeepsFollows ==
  ASSUME FlowInv, Follows, [FlowNext]_flowVars
  PROVE  Follows'
<1>1. Fixed /\ Grows
  BY StepFixes, StepGrows
<1>2. Blocks' = Blocks
  BY <1>1 DEF Fixed
<1>3. ASSUME NEW c \in Blocks
      PROVE  /\ ReachingAtStart(c) \subseteq ReachingAtStart(c)'
             /\ ReachingOut(c, ReachingAtStart(c)) \subseteq ReachingOut(c, ReachingAtStart(c)')
             /\ LiveAtStart(c, LiveAtEnd(c)) \subseteq LiveAtStart(c, LiveAtEnd(c)')
  <2>1. ReachingAtStart(c) \subseteq ReachingAtStart(c)' /\ LiveAtEnd(c) \subseteq LiveAtEnd(c)'
    BY <1>1, Neighbours DEF ReachingAtStart, LiveAtEnd, Grows, Fixed
  <2> QED BY <2>1, Monotone
<1>4. ASSUME NEW c \in Blocks
      PROVE  reachOut'[c] \subseteq ReachingOut(c, ReachingAtStart(c))
  <2>1. reachOut' = reachOut \/ \E b \in Blocks : VisitReaching(b)
    BY DEF FlowNext, VisitDominator, EndPass, VisitReachable, VisitLive, NextAnalysis, flowVars, reachingVars
  <2>2. \/ reachOut'[c] = reachOut[c]
        \/ reachOut'[c] = ReachingOut(c, ReachingAtStart(c))
    BY <2>1 DEF VisitReaching, reachingVars, FlowInv, FlowTypeOK
  <2> QED BY <2>2 DEF Follows
<1>5. ASSUME NEW c \in Blocks
      PROVE  liveIn'[c] \subseteq LiveAtStart(c, LiveAtEnd(c))
  <2>1. liveIn' = liveIn \/ \E b \in Blocks : VisitLive(b)
    BY DEF FlowNext, VisitDominator, EndPass, VisitReachable, VisitReaching, NextAnalysis, flowVars, livenessVars
  <2>2. \/ liveIn'[c] = liveIn[c]
        \/ liveIn'[c] = LiveAtStart(c, LiveAtEnd(c))
    BY <2>1 DEF VisitLive, livenessVars, FlowInv, FlowTypeOK
  <2> QED BY <2>2 DEF Follows
<1>6. ASSUME NEW c \in Blocks
      PROVE  /\ reachIn'[c] \subseteq ReachingAtStart(c)'
             /\ reachOut'[c] \subseteq ReachingOut(c, ReachingAtStart(c)')
             /\ liveIn'[c] \subseteq LiveAtStart(c, LiveAtEnd(c)')
  <2>1. reachIn' = reachIn \/ \E b \in Blocks : VisitReaching(b)
    BY DEF FlowNext, VisitDominator, EndPass, VisitReachable, VisitLive, NextAnalysis, flowVars, reachingVars
  <2>2. reachIn'[c] = reachIn[c] \/ reachIn'[c] = ReachingAtStart(c)
    BY <2>1 DEF VisitReaching, reachingVars, FlowInv, FlowTypeOK
  <2>3. reachIn'[c] \subseteq ReachingAtStart(c)
    BY <2>2 DEF Follows
  <2> QED BY <1>3, <1>4, <1>5, <2>3
<1>7. \A c \in Blocks : /\ ReachingOut(c, ReachingAtStart(c))' = ReachingOut(c, ReachingAtStart(c)')
                        /\ LiveAtStart(c, LiveAtEnd(c))' = LiveAtStart(c, LiveAtEnd(c)')
  BY <1>1 DEF Fixed
<1> QED BY <1>2, <1>6, <1>7 DEF Follows

\* A visit that adds nothing puts no block back.
LEMMA StepProgresses ==
  ASSUME FlowInv, Follows, [FlowNext]_flowVars, flowVars' # flowVars
  PROVE  /\ Grows
         /\ \/ phase = "dominators" \/ phase' # phase
            \/ <<reached', reachOut', liveIn'>> # <<reached, reachOut, liveIn>>
            \/ pending' \subseteq pending /\ pending' # pending
<1> SUFFICES ASSUME phase # "dominators", phase' = phase,
                    reached' = reached, reachOut' = reachOut, liveIn' = liveIn
             PROVE  pending' \subseteq pending /\ pending' # pending
  BY StepGrows
<1>1. PICK b \in Blocks : VisitReachable(b) \/ VisitReaching(b) \/ VisitLive(b)
  BY DEF FlowNext, VisitDominator, EndPass, NextAnalysis
<1>2. CASE VisitReachable(b)
  BY <1>2 DEF VisitReachable
<1>3. CASE VisitReaching(b)
  <2>1. reachOut'[b] = ReachingOut(b, ReachingAtStart(b)) => pending' = pending \ {b}
    BY <1>3 DEF VisitReaching
  <2>2. reachOut'[b] # ReachingOut(b, ReachingAtStart(b)) => pending' = pending \ {b}
    BY <1>3 DEF VisitReaching, FlowInv, FlowTypeOK
  <2> QED BY <1>3, <2>1, <2>2 DEF VisitReaching
<1>4. CASE VisitLive(b)
  <2>1. liveIn'[b] = LiveAtStart(b, LiveAtEnd(b)) => pending' = pending \ {b}
    BY <1>4 DEF VisitLive
  <2>2. liveIn'[b] # LiveAtStart(b, LiveAtEnd(b)) => pending' = pending \ {b}
    BY <1>4 DEF VisitLive, FlowInv, FlowTypeOK
  <2> QED BY <1>4, <2>1, <2>2 DEF VisitLive
<1> QED BY <1>1, <1>2, <1>3, <1>4

\* The facts only grow, and a visit that adds none leaves one block less to visit: what makes
\* every worklist run empty, whatever the graph and the order (find_unreachable_blocks,
\* compute_reaching_definitions, compute_liveness).
THEOREM VisitsAlwaysProgress == FlowSpec => VisitsProgress
<1>1. FlowInit => Follows
  BY DEF FlowInit, Follows
<1>2. FlowInv /\ Follows /\ [FlowNext]_flowVars => Follows'
  BY StepKeepsFollows
<1>3. FlowInv /\ Follows /\ [FlowNext]_flowVars =>
        [/\ reached \subseteq reached'
         /\ \A b \in Blocks : reachOut[b] \subseteq reachOut'[b] /\ liveIn[b] \subseteq liveIn'[b]
         /\ \/ phase = "dominators" \/ phase' # phase
            \/ <<reached', reachOut', liveIn'>> # <<reached, reachOut, liveIn>>
            \/ pending' \subseteq pending /\ pending' # pending]_flowVars
  BY StepProgresses DEF Grows
<1> QED BY <1>1, <1>2, <1>3, FlowInvHolds, PTL DEF FlowSpec, VisitsProgress

-----------------------------------------------------------------------------
(* The results hold nothing that every solution of the equations does not  *)
(* hold: S is what some solution says of each block.                       *)

ReachingClosed(S) ==
  \A b \in Blocks : ReachingOut(b, UNION {S[p] : p \in Predecessors(b)}) \subseteq S[b]
LivenessClosed(S) ==
  \A b \in Blocks : LiveAtStart(b, UNION {S[s] : s \in Successors(b)}) \subseteq S[b]
ReachedClosed(S) == 0 \in S /\ \A b \in S : Successors(b) \subseteq S

Least ==
  /\ \A S : ReachingClosed(S) => \A b \in Blocks : reachOut[b] \subseteq S[b]
  /\ \A S : LivenessClosed(S) => \A b \in Blocks : liveIn[b] \subseteq S[b]
  /\ \A S : ReachedClosed(S) => reached \subseteq S /\ (phase = "reachable" => pending \subseteq S)

LEMMA ReachingStaysLeast ==
  ASSUME FlowInv, Least, Fixed, [FlowNext]_flowVars,
         NEW S, ReachingClosed(S), NEW c \in Blocks
  PROVE  reachOut'[c] \subseteq S[c]
<1>1. reachOut[c] \subseteq S[c]
  BY DEF Least
<1>2. CASE reachOut' = reachOut
  BY <1>1, <1>2
<1>3. ASSUME NEW b \in Blocks, VisitReaching(b)
      PROVE  reachOut'[c] \subseteq S[c]
  <2>1. ReachingAtStart(b) \subseteq UNION {S[p] : p \in Predecessors(b)}
    BY Neighbours DEF Least, ReachingAtStart
  <2>2. ReachingOut(b, ReachingAtStart(b)) \subseteq S[b]
    BY <2>1, Monotone DEF ReachingClosed
  <2>3. \/ reachOut' = reachOut
        \/ reachOut' = [reachOut EXCEPT ![b] = ReachingOut(b, ReachingAtStart(b))]
    BY <1>3 DEF VisitReaching, reachingVars
  <2> QED BY <1>1, <2>2, <2>3 DEF FlowInv, FlowTypeOK
<1>4. reachOut' = reachOut \/ \E b \in Blocks : VisitReaching(b)
  BY DEF FlowNext, VisitDominator, EndPass, VisitReachable, VisitLive, NextAnalysis, flowVars, reachingVars
<1> QED BY <1>2, <1>3, <1>4

LEMMA LivenessStaysLeast ==
  ASSUME FlowInv, Least, Fixed, [FlowNext]_flowVars,
         NEW S, LivenessClosed(S), NEW c \in Blocks
  PROVE  liveIn'[c] \subseteq S[c]
<1>1. liveIn[c] \subseteq S[c]
  BY DEF Least
<1>2. CASE liveIn' = liveIn
  BY <1>1, <1>2
<1>3. ASSUME NEW b \in Blocks, VisitLive(b)
      PROVE  liveIn'[c] \subseteq S[c]
  <2>1. LiveAtEnd(b) \subseteq UNION {S[s] : s \in Successors(b)}
    BY Neighbours DEF Least, LiveAtEnd
  <2>2. LiveAtStart(b, LiveAtEnd(b)) \subseteq S[b]
    BY <2>1, Monotone DEF LivenessClosed
  <2>3. \/ liveIn' = liveIn
        \/ liveIn' = [liveIn EXCEPT ![b] = LiveAtStart(b, LiveAtEnd(b))]
    BY <1>3 DEF VisitLive, livenessVars
  <2> QED BY <1>1, <2>2, <2>3 DEF FlowInv, FlowTypeOK
<1>4. liveIn' = liveIn \/ \E b \in Blocks : VisitLive(b)
  BY DEF FlowNext, VisitDominator, EndPass, VisitReachable, VisitReaching, NextAnalysis, flowVars, livenessVars
<1> QED BY <1>2, <1>3, <1>4

LEMMA ReachedStaysLeast ==
  ASSUME FlowInv, Least, Fixed, [FlowNext]_flowVars, NEW S, ReachedClosed(S)
  PROVE  reached' \subseteq S /\ (phase' = "reachable" => pending' \subseteq S)
<1>1. 0 \in S /\ reached \subseteq S /\ (phase = "reachable" => pending \subseteq S)
  BY DEF Least, ReachedClosed
<1>2. ASSUME NEW b \in Blocks, VisitReachable(b)
      PROVE  reached' \subseteq S /\ (phase' = "reachable" => pending' \subseteq S)
  <2>1. Successors(b) \subseteq S
    BY <1>1, <1>2 DEF VisitReachable, ReachedClosed
  <2> QED BY <1>1, <1>2, <2>1 DEF VisitReachable
<1>3. CASE EndPass
  BY <1>1, <1>3 DEF EndPass
<1>4. CASE UNCHANGED flowVars
  BY <1>1, <1>4 DEF flowVars
<1>5. CASE reached' = reached /\ phase' # "reachable"
  BY <1>1, <1>5
<1>6. \/ EndPass \/ UNCHANGED flowVars \/ \E b \in Blocks : VisitReachable(b)
      \/ reached' = reached /\ phase' # "reachable"
  BY DEF FlowNext, VisitDominator, VisitReaching, VisitLive, NextAnalysis
<1> QED BY <1>2, <1>3, <1>4, <1>5, <1>6

LEMMA StaysLeast ==
  ASSUME FlowInv, Least, [FlowNext]_flowVars
  PROVE  Least'
<1>1. Fixed
  BY StepFixes
<1>2. \A S : /\ ReachingClosed(S)' <=> ReachingClosed(S)
             /\ LivenessClosed(S)' <=> LivenessClosed(S)
             /\ ReachedClosed(S)' <=> ReachedClosed(S)
  BY <1>1 DEF Fixed, ReachingClosed, LivenessClosed, ReachedClosed
<1>3. \A S : ReachingClosed(S) => \A c \in Blocks : reachOut'[c] \subseteq S[c]
  BY <1>1, ReachingStaysLeast
<1>4. \A S : LivenessClosed(S) => \A c \in Blocks : liveIn'[c] \subseteq S[c]
  BY <1>1, LivenessStaysLeast
<1>5. \A S : ReachedClosed(S) => reached' \subseteq S /\ (phase' = "reachable" => pending' \subseteq S)
  BY <1>1, ReachedStaysLeast
<1>6. Blocks' = Blocks
  BY <1>1 DEF Fixed
<1> QED BY <1>2, <1>3, <1>4, <1>5, <1>6 DEF Least

\* At the end of the analyses: what reaches each block's end and what is live at its start
\* are the least solutions of the equations, the blocks reached are the least set that the
\* edges do not lead out of; only definitions that reach its predecessors' ends are kept as
\* reaching a block's start, and all of those of the variables the block does not write.
ResultsRight ==
  /\ \A b \in Blocks : reachOut[b] = ReachingOut(b, ReachingAtStart(b))
  /\ \A S : ReachingClosed(S) => \A b \in Blocks : reachOut[b] \subseteq S[b]
  /\ \A b \in Blocks : liveIn[b] = LiveAtStart(b, LiveAtEnd(b))
  /\ \A S : LivenessClosed(S) => \A b \in Blocks : liveIn[b] \subseteq S[b]
  /\ ReachedClosed(reached)
  /\ \A S : ReachedClosed(S) => reached \subseteq S
  /\ \A b \in Blocks : reachIn[b] \subseteq ReachingAtStart(b)
  /\ \A b \in Blocks : \A d \in AllDefinitions :
       d.variable \notin Defined(b) => (d \in reachIn[b] <=> d \in ReachingAtStart(b))

LEMMA DoneIsRight ==
  ASSUME FlowInv, Follows, Least, Done
  PROVE  ResultsRight
<1>1. \A b \in Blocks : reachOut[b] = ReachingOut(b, ReachingAtStart(b))
  BY DEF FlowInv, ReachingSettled, PendingIn, Done
<1>2. \A b \in Blocks : liveIn[b] = LiveAtStart(b, LiveAtEnd(b))
  BY DEF FlowInv, LivenessSettled, PendingIn, Done
<1>3. ReachedClosed(reached)
  BY DEF FlowInv, ReachedSettled, PendingIn, Done, ReachedClosed
<1>4. ASSUME NEW b \in Blocks, NEW d \in AllDefinitions, d.variable \notin Defined(b)
      PROVE  d \in reachIn[b] <=> d \in ReachingAtStart(b)
  <2>1. d \in reachOut[b] <=> d \in reachIn[b]
    BY <1>4 DEF FlowInv, StartsSettled
  <2>2. d \in ReachingOut(b, ReachingAtStart(b)) <=> d \in ReachingAtStart(b)
    BY <1>4, PassesThrough
  <2> QED BY <1>1, <2>1, <2>2
<1>5. \A b \in Blocks : reachIn[b] \subseteq ReachingAtStart(b)
  BY DEF Follows
<1> QED BY <1>1, <1>2, <1>3, <1>4, <1>5 DEF Least, ResultsRight

\* Whatever the graph and the order of the worklists (compute_reaching_definitions,
\* compute_liveness, find_unreachable_blocks).
THEOREM ResultsAreRight == FlowSpec => [](Done => ResultsRight)
<1>1. FlowInit => Least
  <2> SUFFICES ASSUME FlowInit
               PROVE  Least
    OBVIOUS
  <2>1. (\A b \in Blocks : reachOut[b] = {} /\ liveIn[b] = {}) /\ reached = {0} /\ phase # "reachable"
    BY DEF FlowInit
  <2> QED BY <2>1 DEF Least, ReachedClosed
<1>2. FlowInv /\ Least /\ [FlowNext]_flowVars => Least'
  BY StaysLeast
<1>3. FlowInit => Follows
  BY DEF FlowInit, Follows
<1>4. FlowInv /\ Follows /\ [FlowNext]_flowVars => Follows'
  BY StepKeepsFollows
<1>5. FlowInv /\ Follows /\ Least => (Done => ResultsRight)
  BY DoneIsRight
<1> QED BY <1>1, <1>2, <1>3, <1>4, <1>5, FlowInvHolds, PTL DEF FlowSpec

-----------------------------------------------------------------------------
(* Natural numbers: what the functions that are defined along them need.   *)

\* A set of naturals has a least one, and one that holds 0 and every successor holds all.
LEMMA Smallest ==
  ASSUME NEW T \in SUBSET Nat, T # {}
  PROVE  \E n \in T : \A m \in T : n <= m
<1>1. PICK n \in T : \A m \in T : ~ (<<m, n>> \in OpToRel(<, Nat))
  BY NatLessThanWellFounded, WFMin
<1>2. \A m \in T : ~ (m < n)
  BY <1>1 DEF OpToRel
<1> QED BY <1>2

LEMMA Climb ==
  ASSUME NEW T \in SUBSET Nat, 0 \in T, \A n \in T : n + 1 \in T
  PROVE  T = Nat
<1>1. SUFFICES ASSUME Nat \ T # {}
               PROVE  FALSE
  OBVIOUS
<1>2. PICK n \in Nat \ T : \A m \in Nat \ T : n <= m
  BY <1>1, Smallest
<1>3. n - 1 \in Nat /\ n - 1 \in T
  BY <1>2
<1>4. n - 1 + 1 \in T
  BY <1>3
<1> QED BY <1>2, <1>3, <1>4

\* A function on the naturals that is defined step by step, and a part of one.
IsIteration(f, s, F) == f = [n \in Nat |-> IF n = 0 THEN s ELSE F[<<n, f[n - 1]>>]]
IsPart(h, s, F, D, n) ==
  h \in [0 .. n -> D] /\ h[0] = s /\ \A i \in 1 .. n : h[i] = F[<<i, h[i - 1]>>]

\* There is one, made of the parts' last values.
LEMMA Iterates ==
  ASSUME NEW D, NEW s \in D, NEW F \in [Nat \X D -> D]
  PROVE  \E f \in [Nat -> D] : IsIteration(f, s, F)
<1> DEFINE Part(h, n) == IsPart(h, s, F, D, n)
<1>1. ASSUME NEW n \in Nat
      PROVE  \E h : Part(h, n)
  <2> DEFINE T == {k \in Nat : \E h : Part(h, k)}
  <2>1. 0 \in T
    <3>1. Part([i \in 0 .. 0 |-> s], 0)
      BY DEF IsPart
    <3> QED BY <3>1
  <2>2. ASSUME NEW k \in T
        PROVE  k + 1 \in T
    <3>1. PICK h : Part(h, k)
      OBVIOUS
    <3>2. h \in [0 .. k -> D] /\ h[k] \in D /\ F[<<k + 1, h[k]>>] \in D
      BY <3>1 DEF IsPart
    <3> DEFINE g == [i \in 0 .. k + 1 |-> IF i = k + 1 THEN F[<<k + 1, h[k]>>] ELSE h[i]]
    <3>3. g \in [0 .. k + 1 -> D] /\ g[0] = s
      BY <3>1, <3>2 DEF IsPart
    <3>4. ASSUME NEW i \in 1 .. k + 1
          PROVE  g[i] = F[<<i, g[i - 1]>>]
      <4>1. CASE i = k + 1
        <5>1. g[i] = F[<<i, h[k]>>] /\ g[i - 1] = h[k]
          BY <4>1
        <5> QED BY <5>1
      <4>2. CASE i # k + 1
        <5>1. i \in 1 .. k /\ i - 1 \in 0 .. k
          BY <4>2
        <5>2. g[i] = h[i] /\ g[i - 1] = h[i - 1]
          BY <5>1
        <5>3. h[i] = F[<<i, h[i - 1]>>]
          BY <3>1, <5>1 DEF IsPart
        <5> QED BY <5>2, <5>3
      <4> QED BY <4>1, <4>2
    <3>5. Part(g, k + 1)
      BY <3>3, <3>4 DEF IsPart
    <3> QED BY <3>5
  <2> HIDE DEF T
  <2>3. T = Nat
    <3>1. T \in SUBSET Nat
      BY DEF T
    <3> QED BY <3>1, <2>1, <2>2, Climb
  <2> QED BY <2>3 DEF T
<1>2. ASSUME NEW m \in Nat, NEW n \in Nat, NEW h, NEW k, Part(h, m), Part(k, n),
             NEW i \in Nat, i <= m, i <= n
      PROVE  h[i] = k[i]
  <2> DEFINE T == {j \in Nat : j <= m /\ j <= n => h[j] = k[j]}
  <2>1. 0 \in T
    BY <1>2 DEF IsPart
  <2>2. ASSUME NEW j \in T
        PROVE  j + 1 \in T
    <3>1. SUFFICES ASSUME j + 1 <= m, j + 1 <= n
                   PROVE  h[j + 1] = k[j + 1]
      OBVIOUS
    <3>2. j + 1 \in 1 .. m /\ j + 1 \in 1 .. n /\ j + 1 - 1 = j /\ h[j] = k[j]
      BY <3>1
    <3>3. h[j + 1] = F[<<j + 1, h[j + 1 - 1]>>] /\ k[j + 1] = F[<<j + 1, k[j + 1 - 1]>>]
      BY <1>2, <3>2 DEF IsPart
    <3> QED BY <3>2, <3>3
  <2> HIDE DEF T
  <2>3. T = Nat
    <3>1. T \in SUBSET Nat
      BY DEF T
    <3> QED BY <3>1, <2>1, <2>2, Climb
  <2> QED BY <2>3, <1>2 DEF T
<1> DEFINE part == [n \in Nat |-> CHOOSE h : Part(h, n)]
           f == [n \in Nat |-> part[n][n]]
<1>3. \A n \in Nat : Part(part[n], n)
  BY <1>1
<1> HIDE DEF part
<1>4. f \in [Nat -> D]
  BY <1>3 DEF IsPart
<1>5. ASSUME NEW n \in Nat
      PROVE  f[n] = IF n = 0 THEN s ELSE F[<<n, f[n - 1]>>]
  <2>1. CASE n = 0
    BY <2>1, <1>3 DEF IsPart
  <2>2. CASE n # 0
    <3>1. n - 1 \in Nat /\ n \in 1 .. n
      BY <2>2
    <3>2. part[n][n] = F[<<n, part[n][n - 1]>>]
      BY <1>3, <3>1 DEF IsPart
    <3>3. part[n][n - 1] = part[n - 1][n - 1]
      BY <1>2, <1>3, <3>1
    <3> QED BY <2>2, <3>1, <3>2, <3>3
  <2> QED BY <2>1, <2>2
<1>6. IsIteration(f, s, F)
  BY <1>5 DEF IsIteration
<1> QED BY <1>4, <1>6

-----------------------------------------------------------------------------
(* Paths: From is the least set that holds its beginnings and that its     *)
(* edges do not lead out of, as large as the graph may be.                 *)

IsSteps(f, S, edges) ==
  f = [n \in Nat |->
         IF n = 0 THEN S
         ELSE LET before == f[n - 1]
              IN  before \cup {y \in Blocks : \E x \in before : <<x, y>> \in edges}]

Closed(C, edges) == \A x \in C : \A y \in Blocks : <<x, y>> \in edges => y \in C

LEMMA FromIsAStep ==
  ASSUME NEW S \in SUBSET Blocks, NEW edges
  PROVE  \E f : IsSteps(f, S, edges) /\ From(S, edges) = f[Cardinality(Blocks)]
<1> DEFINE F == [p \in Nat \X SUBSET Blocks |->
                   p[2] \cup {y \in Blocks : \E x \in p[2] : <<x, y>> \in edges}]
<1>1. \E f : IsSteps(f, S, edges)
  <2>1. F \in [Nat \X SUBSET Blocks -> SUBSET Blocks]
    OBVIOUS
  <2>2. \A n \in Nat, T \in SUBSET Blocks :
          F[<<n, T>>] = T \cup {y \in Blocks : \E x \in T : <<x, y>> \in edges}
    OBVIOUS
  <2> DEFINE D == SUBSET Blocks
  <2>0. S \in D /\ F \in [Nat \X D -> D]
    BY <2>1
  <2> HIDE DEF F, D
  <2>3. PICK f \in [Nat -> D] : IsIteration(f, S, F)
    BY <2>0, Iterates
  <2>4. \A n \in Nat : f[n] = IF n = 0 THEN S
                              ELSE f[n - 1] \cup {y \in Blocks : \E x \in f[n - 1] : <<x, y>> \in edges}
    <3> SUFFICES ASSUME NEW n \in Nat
                 PROVE  f[n] = IF n = 0 THEN S
                               ELSE f[n - 1] \cup {y \in Blocks : \E x \in f[n - 1] : <<x, y>> \in edges}
      OBVIOUS
    <3>1. CASE n = 0
      BY <3>1, <2>3 DEF IsIteration
    <3>2. CASE n # 0
      <4>1. n - 1 \in Nat /\ f[n - 1] \in SUBSET Blocks
        BY <3>2 DEF D
      <4>2. f[n] = F[<<n, f[n - 1]>>]
        BY <3>2, <2>3 DEF IsIteration
      <4> QED BY <3>2, <4>1, <4>2, <2>2
    <3> QED BY <3>1, <3>2
  <2>5. IsSteps(f, S, edges)
    BY <2>3, <2>4 DEF IsSteps, IsIteration
  <2> QED BY <2>5
<1>2. From(S, edges) = (CHOOSE f : IsSteps(f, S, edges))[Cardinality(Blocks)]
  BY DEF From, IsSteps
<1> QED BY <1>1, <1>2

LEMMA FromMeans ==
  ASSUME IsGraph(graph), NEW S \in SUBSET Blocks, NEW edges
  PROVE  /\ S \subseteq From(S, edges) /\ From(S, edges) \subseteq Blocks
         /\ Closed(From(S, edges), edges)
         /\ \A C : S \subseteq C /\ Closed(C, edges) => From(S, edges) \subseteq C
<1> DEFINE N == Cardinality(Blocks)
           More(X) == X \cup {y \in Blocks : \E x \in X : <<x, y>> \in edges}
<1>1. PICK f : IsSteps(f, S, edges) /\ From(S, edges) = f[N]
  BY FromIsAStep
<1>2. IsFiniteSet(Blocks) /\ N \in Nat
  <2>1. Blocks = 0 .. Len(graph.code) - 1 /\ 0 \in Int /\ Len(graph.code) - 1 \in Int
    BY DEF Blocks, BlocksOf, IsGraph
  <2>2. IsFiniteSet(Blocks)
    BY <2>1, FS_Interval
  <2> QED BY <2>2, FS_CardinalityType
<1>3. f[0] = S
  BY <1>1 DEF IsSteps
<1>4. \A n \in Nat : f[n + 1] = More(f[n])
  <2>1. \A n \in Nat : f[n] = IF n = 0 THEN S ELSE More(f[n - 1])
    BY <1>1 DEF IsSteps
  <2> HIDE DEF More
  <2>2. ASSUME NEW n \in Nat
        PROVE  f[n + 1] = More(f[n])
    <3>1. n + 1 \in Nat /\ n + 1 # 0 /\ n + 1 - 1 = n
      OBVIOUS
    <3> QED BY <2>1, <3>1
  <2> QED BY <2>2
<1> HIDE DEF N
<1>5. \A n \in Nat : f[n] \subseteq Blocks
  <2> DEFINE T == {n \in Nat : f[n] \subseteq Blocks}
  <2>1. 0 \in T /\ \A n \in T : n + 1 \in T
    BY <1>3, <1>4
  <2>2. T = Nat
    BY <2>1, Climb
  <2> QED BY <2>2
<1>6. \A n \in Nat : S \subseteq f[n]
  <2> DEFINE T == {n \in Nat : S \subseteq f[n]}
  <2>1. 0 \in T /\ \A n \in T : n + 1 \in T
    BY <1>3, <1>4
  <2>2. T = Nat
    BY <2>1, Climb
  <2> QED BY <2>2
<1>7. ASSUME NEW C, S \subseteq C, Closed(C, edges)
      PROVE  \A n \in Nat : f[n] \subseteq C
  <2> DEFINE T == {n \in Nat : f[n] \subseteq C}
  <2>1. 0 \in T
    BY <1>3, <1>7
  <2>2. ASSUME NEW n \in T
        PROVE  n + 1 \in T
    <3>1. f[n + 1] = f[n] \cup {y \in Blocks : \E x \in f[n] : <<x, y>> \in edges}
      BY <1>4
    <3>2. f[n + 1] \subseteq C
      BY <3>1, <1>7 DEF Closed
    <3> QED BY <3>2
  <2> HIDE DEF T
  <2>3. T = Nat
    <3>1. T \in SUBSET Nat
      BY DEF T
    <3> QED BY <3>1, <2>1, <2>2, Climb
  <2> QED BY <2>3 DEF T
<1>8. ASSUME f[N + 1] # f[N]
      PROVE  FALSE
  <2>1. ASSUME NEW k \in Nat, k <= N, f[k + 1] = f[k]
        PROVE  FALSE
    <3> DEFINE T == {n \in Nat : f[k + n + 1] = f[k + n]}
    <3>1. 0 \in T
      BY <2>1
    <3>2. ASSUME NEW n \in T
          PROVE  n + 1 \in T
      <4>1. k + n \in Nat /\ k + n + 1 \in Nat /\ k + (n + 1) = k + n + 1 /\ f[k + n + 1] = f[k + n]
        OBVIOUS
      <4>2. f[k + n + 1 + 1] = f[k + n + 1]
        <5> HIDE DEF More
        <5>1. \A i, j \in Nat : f[i] = f[j] => f[i + 1] = f[j + 1]
          BY <1>4
        <5> QED BY <4>1, <5>1
      <4> QED BY <4>1, <4>2
    <3> HIDE DEF T
    <3>3. T = Nat
      <4>1. T \in SUBSET Nat
        BY DEF T
      <4> QED BY <4>1, <3>1, <3>2, Climb
    <3>4. N - k \in T /\ k + (N - k) = N
      BY <3>3, <2>1, <1>2
    <3> QED BY <3>4, <1>8 DEF T
  <2> DEFINE U == {k \in Nat : k <= N + 1 => Cardinality(f[k]) >= k}
  <2>2. \A k \in Nat : IsFiniteSet(f[k]) /\ Cardinality(f[k]) \in Nat /\ Cardinality(f[k]) <= N
    BY <1>2, <1>5, FS_Subset, FS_CardinalityType DEF N
  <2>3. 0 \in U
    BY <2>2
  <2>4. ASSUME NEW k \in U
        PROVE  k + 1 \in U
    <3>1. SUFFICES ASSUME k + 1 <= N + 1
                   PROVE  Cardinality(f[k + 1]) >= k + 1
      BY <1>2
    <3>2. k \in Nat /\ k + 1 \in Nat /\ k <= N /\ Cardinality(f[k]) >= k
      BY <3>1, <1>2
    <3>3. f[k] \subseteq f[k + 1] /\ f[k + 1] # f[k]
      BY <3>2, <1>4, <2>1
    <3>4. Cardinality(f[k]) <= Cardinality(f[k + 1]) /\ Cardinality(f[k]) # Cardinality(f[k + 1])
      BY <3>2, <3>3, <2>2, FS_Subset
    <3> QED BY <3>2, <3>4, <2>2
  <2> HIDE DEF U
  <2>5. U = Nat
    <3>1. U \in SUBSET Nat
      BY DEF U
    <3> QED BY <3>1, <2>3, <2>4, Climb
  <2>6. N + 1 \in U
    BY <2>5, <1>2
  <2>7. Cardinality(f[N + 1]) >= N + 1
    BY <2>6, <1>2 DEF U
  <2> QED BY <2>7, <2>2, <1>2
<1>9. Closed(f[N], edges)
  BY <1>2, <1>4, <1>5, <1>8 DEF Closed
<1> QED BY <1>1, <1>2, <1>5, <1>6, <1>7, <1>9

-----------------------------------------------------------------------------
(* What the results say of paths.                                          *)

LEMMA EdgesArePairs ==
  ASSUME IsGraph(graph)
  PROVE  Edges \subseteq Blocks \X Blocks
BY DEF Edges, IsGraph, Blocks, Range

\* A definition, or a use, carries the block it is in.
LEMMA KnowsItsBlock ==
  /\ \A b : \A d \in Definitions(b) : d.block = b
  /\ \A d \in AllDefinitions : d.block \in Blocks /\ d \in Definitions(d.block)
  /\ \A u \in AllUses : u.block \in Blocks
<1>1. \A b : \A d \in Definitions(b) : d.block = b
  BY DEF Definitions
<1>2. \A b : \A u \in Uses(b) : u.block = b
  BY DEF Uses
<1> QED BY <1>1, <1>2 DEF AllDefinitions, AllUses

\* The blocks that some paths towards blocks of a part lead from, and those of the whole.
LEMMA TowardsMore ==
  ASSUME IsGraph(graph), NEW T \in SUBSET Blocks, NEW S \in SUBSET T, NEW v
  PROVE  Towards(S, v) \subseteq Towards(T, v)
<1> DEFINE E == {<<e[2], e[1]>> : e \in {f \in Edges : v \notin Defined(f[1])}}
<1>1. Towards(S, v) = From(S, E) /\ Towards(T, v) = From(T, E) /\ S \in SUBSET Blocks
  BY DEF Towards
<1> HIDE DEF E
<1>2. S \subseteq From(T, E) /\ Closed(From(T, E), E)
  BY FromMeans
<1> QED BY <1>1, <1>2, FromMeans

\* Where the code keeps a definition: to the end of its own block, even if it is overwritten
\* there, and from there until a block writes the variable.
KeptTo(d) == From({d.block}, {e \in Edges : d.variable \notin Defined(e[2])})

LEMMA SurvivesWhereKept ==
  ASSUME NEW d
  PROVE  /\ Overwritten(d) => Survives(d) = {}
         /\ ~ Overwritten(d) => Survives(d) = KeptTo(d)
BY DEF Survives, KeptTo

\* reachOut holds a definition at just the blocks it is kept to: it is passed along every
\* edge of such a path, and the definitions that are kept solve the equations.
LEMMA ReachesWhereItIsKept ==
  ASSUME IsGraph(graph), ResultsRight,
         \A b \in Blocks : reachOut[b] \subseteq AllDefinitions,
         NEW d \in AllDefinitions
  PROVE  KeptTo(d) = {b \in Blocks : d \in reachOut[b]}
<1> DEFINE E(c) == {e \in Edges : c.variable \notin Defined(e[2])}
<1>1. \A c \in AllDefinitions :
        /\ c.block \in KeptTo(c) /\ KeptTo(c) \subseteq Blocks
        /\ Closed(KeptTo(c), E(c))
        /\ \A C : c.block \in C /\ Closed(C, E(c)) => KeptTo(c) \subseteq C
  <2> SUFFICES ASSUME NEW c \in AllDefinitions
               PROVE  /\ c.block \in KeptTo(c) /\ KeptTo(c) \subseteq Blocks
                      /\ Closed(KeptTo(c), E(c))
                      /\ \A C : c.block \in C /\ Closed(C, E(c)) => KeptTo(c) \subseteq C
    OBVIOUS
  <2>1. {c.block} \in SUBSET Blocks
    BY KnowsItsBlock
  <2>2. KeptTo(c) = From({c.block}, E(c))
    BY DEF KeptTo
  <2> HIDE DEF E
  <2> QED BY <2>1, <2>2, FromMeans
<1>2. KeptTo(d) \subseteq {b \in Blocks : d \in reachOut[b]}
  <2> DEFINE C == {b \in Blocks : d \in reachOut[b]}
  <2>1. d.block \in C
    BY KnowsItsBlock DEF ResultsRight, ReachingOut
  <2>2. ASSUME NEW x \in C, NEW y \in Blocks, <<x, y>> \in E(d)
        PROVE  y \in C
    <3>1. x \in Predecessors(y) /\ ~ Killed(d, y)
      BY <2>2, DefinesOnly DEF Predecessors
    <3>2. d \in ReachingOut(y, ReachingAtStart(y))
      BY <3>1 DEF ReachingAtStart, ReachingOut
    <3> QED BY <3>2 DEF ResultsRight
  <2>3. Closed(C, E(d))
    BY <2>2 DEF Closed
  <2> HIDE DEF C, E
  <2>4. KeptTo(d) \subseteq C
    BY <1>1, <2>1, <2>3
  <2> QED BY <2>4 DEF C
<1>3. {b \in Blocks : d \in reachOut[b]} \subseteq KeptTo(d)
  <2> DEFINE S == [b \in Blocks |-> {c \in AllDefinitions : b \in KeptTo(c)}]
  <2>1. ASSUME NEW b \in Blocks,
               NEW c \in ReachingOut(b, UNION {S[p] : p \in Predecessors(b)})
        PROVE  c \in S[b]
    <3>1. CASE c \in Definitions(b)
      <4>1. c \in AllDefinitions /\ c.block = b
        BY <3>1, DefinesOnly, KnowsItsBlock
      <4> QED BY <4>1, <1>1
    <3>2. CASE c \notin Definitions(b)
      <4>1. PICK p \in Predecessors(b) : c \in S[p] /\ ~ Killed(c, b)
        BY <3>2, <2>1 DEF ReachingOut
      <4>2. c.variable \notin Defined(b)
        BY <3>2, <4>1 DEF Defined, Killed
      <4>3. p \in Blocks /\ <<p, b>> \in E(c)
        BY <4>1, <4>2 DEF Predecessors
      <4>4. c \in AllDefinitions /\ p \in KeptTo(c)
        BY <4>1, <4>3
      <4> QED BY <4>3, <4>4, <1>1 DEF Closed
    <3> QED BY <3>1, <3>2
  <2>2. ReachingClosed(S)
    BY <2>1 DEF ReachingClosed
  <2>3. \A b \in Blocks : reachOut[b] \subseteq S[b]
    BY <2>2 DEF ResultsRight
  <2> QED BY <2>3
<1> QED BY <1>2, <1>3

\* The blocks the code begins with: those that read the variable and do not write it at all.
Reading(v) == {b \in ReadFirst(v) : v \notin Defined(b)}

LEMMA BeginsWhereRead ==
  ASSUME NEW v
  PROVE  \A b \in Blocks : v \in UseBeforeDef(b) <=> b \in Reading(v)
<1> SUFFICES ASSUME NEW b \in Blocks
             PROVE  v \in UseBeforeDef(b) <=> b \in Reading(v)
  OBVIOUS
<1>1. v \in {u.variable : u \in Uses(b)} <=> \E i \in DOMAIN Code(b) : v \in Code(b)[i].reads
  <2>1. ASSUME NEW u \in Uses(b), u.variable = v
        PROVE  \E i \in DOMAIN Code(b) : v \in Code(b)[i].reads
    BY <2>1 DEF Uses
  <2>2. ASSUME NEW i \in DOMAIN Code(b), v \in Code(b)[i].reads
        PROVE  v \in {u.variable : u \in Uses(b)}
    <3>1. [variable |-> v, block |-> b, line |-> Code(b)[i].line, index |-> i] \in Uses(b)
      BY <2>2 DEF Uses
    <3> QED BY <3>1
  <2> QED BY <2>1, <2>2
<1>2. ASSUME NEW i \in DOMAIN Code(b), v \in Code(b)[i].writes
      PROVE  v \in Defined(b)
  <2>1. [variable |-> v, block |-> b, line |-> Code(b)[i].line, index |-> i] \in Definitions(b)
    BY <1>2 DEF Definitions
  <2> QED BY <2>1 DEF Defined
<1> QED BY <1>1, <1>2 DEF UseBeforeDef, Reading, ReadFirst

LEMMA LiveTowardsReading ==
  ASSUME IsGraph(graph), ResultsRight,
         NEW v \in {s.variable : s \in AllDefinitions \cup AllUses}
  PROVE  Towards(Reading(v), v) = {b \in Blocks : v \in liveIn[b]}
<1> DEFINE V == {s.variable : s \in AllDefinitions \cup AllUses}
           Sought(w) == Towards(Reading(w), w)
           E(w) == {<<e[2], e[1]>> : e \in {f \in Edges : w \notin Defined(f[1])}}
<1>1. \A w :
        /\ Reading(w) \subseteq Sought(w) /\ Sought(w) \subseteq Blocks
        /\ Closed(Sought(w), E(w))
        /\ \A C : Reading(w) \subseteq C /\ Closed(C, E(w)) => Sought(w) \subseteq C
  BY FromMeans DEF Towards, Reading, ReadFirst
<1>2. \A w, x, y : <<x, y>> \in E(w) <=> <<y, x>> \in Edges /\ w \notin Defined(y)
  BY EdgesArePairs
<1> HIDE DEF Sought
<1>3. Sought(v) \subseteq {b \in Blocks : v \in liveIn[b]}
  <2> DEFINE C == {b \in Blocks : v \in liveIn[b]}
  <2>1. Reading(v) \subseteq C
    BY BeginsWhereRead DEF ResultsRight, LiveAtStart, Reading, ReadFirst
  <2>2. ASSUME NEW x \in C, NEW y \in Blocks, <<x, y>> \in E(v)
        PROVE  y \in C
    <3>1. x \in Successors(y) /\ v \notin Defined(y)
      BY <2>2, <1>2 DEF Successors
    <3>2. v \in LiveAtStart(y, LiveAtEnd(y))
      BY <3>1 DEF LiveAtEnd, LiveAtStart
    <3> QED BY <3>2 DEF ResultsRight
  <2>3. Closed(C, E(v))
    BY <2>2 DEF Closed
  <2> HIDE DEF C, E
  <2>4. Sought(v) \subseteq C
    BY <1>1, <2>1, <2>3
  <2> QED BY <2>4 DEF C
<1>4. {b \in Blocks : v \in liveIn[b]} \subseteq Sought(v)
  <2> DEFINE S == [b \in Blocks |-> {w \in V : b \in Sought(w)}]
  <2> HIDE DEF E
  <2>1. ASSUME NEW b \in Blocks,
               NEW w \in LiveAtStart(b, UNION {S[s] : s \in Successors(b)})
        PROVE  w \in S[b]
    <3>1. CASE w \in UseBeforeDef(b)
      <4>1. w \in V
        BY <3>1 DEF UseBeforeDef, AllUses
      <4>2. b \in Sought(w)
        BY <3>1, <1>1, BeginsWhereRead
      <4> QED BY <4>1, <4>2
    <3>2. CASE w \notin UseBeforeDef(b)
      <4>1. PICK s \in Successors(b) : w \in S[s] /\ w \notin Defined(b)
        BY <3>2, <2>1 DEF LiveAtStart
      <4>2. s \in Blocks /\ <<s, b>> \in E(w)
        BY <4>1, <1>2 DEF Successors
      <4>3. w \in V /\ s \in Sought(w)
        BY <4>1, <4>2
      <4>4. b \in Sought(w)
        BY <4>2, <4>3, <1>1 DEF Closed
      <4> QED BY <4>3, <4>4
    <3> QED BY <3>1, <3>2
  <2>2. LivenessClosed(S)
    BY <2>1 DEF LivenessClosed
  <2>3. \A b \in Blocks : liveIn[b] \subseteq S[b]
    BY <2>2 DEF ResultsRight
  <2> QED BY <2>3
<1> QED BY <1>3, <1>4 DEF Sought

\* In another block, the definitions tied to a use are some of those that are kept to the
\* end of a predecessor; in a block that does not write the variable, all of those.
LEMMA UsesReachedFromElsewhere ==
  ASSUME IsGraph(graph), ResultsRight, NEW d \in AllDefinitions,
         KeptTo(d) = {b \in Blocks : d \in reachOut[b]},
         NEW u \in AllUses, u.variable = d.variable
  PROVE  /\ u.block # d.block /\ u \in UsesOf(d) => Predecessors(u.block) \cap KeptTo(d) # {}
         /\ u.variable \notin Defined(u.block) =>
              (u \in UsesOf(d) <=> Predecessors(u.block) \cap KeptTo(d) # {})
<1>1. u.block \in Blocks /\ d \in Definitions(d.block)
  BY KnowsItsBlock
<1>2. d \in ReachingAtStart(u.block) <=> Predecessors(u.block) \cap KeptTo(d) # {}
  <2>1. d \in ReachingAtStart(u.block) <=> \E p \in Predecessors(u.block) : d \in reachOut[p]
    BY DEF ReachingAtStart
  <2> QED BY <2>1, Neighbours
<1>3. ASSUME u.block # d.block, u \in UsesOf(d)
      PROVE  d \in ReachingAtStart(u.block)
  <2>1. d \in reachIn[u.block] \/ d \in Definitions(u.block)
    BY <1>3 DEF UsesOf, ReachesUse
  <2>2. d \notin Definitions(u.block)
    BY <1>3, KnowsItsBlock
  <2> QED BY <1>1, <2>1, <2>2 DEF ResultsRight
<1>4. ASSUME u.variable \notin Defined(u.block)
      PROVE  u \in UsesOf(d) <=> d \in ReachingAtStart(u.block)
  <2>1. d \notin Definitions(u.block) /\ d.block # u.block
    BY <1>1, <1>4, DefinesOnly
  <2> QED BY <1>1, <1>4, <2>1 DEF UsesOf, ReachesUse, ResultsRight
<1> QED BY <1>2, <1>3, <1>4

\* A block that writes a variable writes it a last time.
LEMMA SomeIsLast ==
  ASSUME IsGraph(graph), NEW d \in AllDefinitions
  PROVE  \E e \in AllDefinitions : /\ ~ Overwritten(e)
                                   /\ e.variable = d.variable /\ e.block = d.block
<1> DEFINE D == {e \in Definitions(d.block) : e.variable = d.variable}
           n == Len(Code(d.block))
           T == {n - e.index : e \in D}
<1>1. d.block \in Blocks /\ d \in D
  BY KnowsItsBlock
<1>2. n \in Nat /\ DOMAIN Code(d.block) = 1 .. n
  <2>1. d.block + 1 \in 1 .. Len(graph.code)
    BY <1>1 DEF Blocks, BlocksOf, IsGraph
  <2> QED BY <2>1 DEF IsGraph, Code
<1>3. \A e \in D : e.index \in 1 .. n
  BY <1>2 DEF Definitions
<1> HIDE DEF n
<1>4. T \in SUBSET Nat /\ T # {}
  <2>1. \A e \in D : n - e.index \in Nat
    BY <1>2, <1>3
  <2> HIDE DEF D
  <2> QED BY <1>1, <2>1
<1>5. PICK e \in D : \A f \in D : n - e.index <= n - f.index
  <2> HIDE DEF D
  <2>1. PICK m \in T : \A k \in T : m <= k
    BY <1>4, Smallest
  <2> QED BY <2>1
<1>6. e.block = d.block /\ e \in AllDefinitions
  BY <1>1, KnowsItsBlock, DefinesOnly
<1>7. ~ Overwritten(e)
  <2> SUFFICES ASSUME NEW f \in D, f.index > e.index
               PROVE  FALSE
    BY <1>6 DEF Overwritten
  <2> QED BY <1>2, <1>3, <1>5
<1> QED BY <1>6, <1>7

\* The last definition of a variable in a block reaches the end of another block just when
\* some path takes it there, whatever the graph (compute_reaching_definitions).
THEOREM ReachingFollowsPaths == FlowSpec => []ReachingIsPathwise
<1>1. FlowInv /\ (Done => ResultsRight) => ReachingIsPathwise
  BY ReachesWhereItIsKept, SurvivesWhereKept DEF ReachingIsPathwise, FlowInv, FlowTypeOK
<1> QED BY <1>1, FlowInvHolds, ResultsAreRight, PTL

\* A variable is live at the start of a block only if some path from there reads it before it
\* is written, and whenever some path does so in a block that does not write it
\* (compute_liveness).
THEOREM LivenessFollowsPaths == FlowSpec => []LivenessIsPathwise
<1>1. ASSUME FlowInv, Done => ResultsRight
      PROVE  LivenessIsPathwise
  <2> SUFFICES ASSUME Done, NEW v \in {s.variable : s \in AllDefinitions \cup AllUses}
               PROVE  /\ {b \in Blocks : v \in liveIn[b]} \subseteq Needing(v)
                      /\ Towards(Reading(v), v) \subseteq {b \in Blocks : v \in liveIn[b]}
    BY DEF LivenessIsPathwise, Reading
  <2>1. IsGraph(graph) /\ ResultsRight
    BY <1>1 DEF FlowInv, FlowTypeOK
  <2>2. Towards(Reading(v), v) = {b \in Blocks : v \in liveIn[b]}
    BY <2>1, LiveTowardsReading
  <2>3. Reading(v) \in SUBSET ReadFirst(v) /\ ReadFirst(v) \in SUBSET Blocks
    BY DEF Reading, ReadFirst
  <2>4. Towards(Reading(v), v) \subseteq Needing(v)
    BY <2>1, <2>3, TowardsMore DEF Needing
  <2> QED BY <2>2, <2>4
<1> QED BY <1>1, FlowInvHolds, ResultsAreRight, PTL

\* The last definition of a variable in a block is tied to a use in another block only if
\* some path brings it there, and whenever some path does if that block does not write the
\* variable (build_def_use_chains).
THEOREM ChainsFollowPaths == FlowSpec => []UsesElsewhereAreFound
<1>1. ASSUME FlowInv, Done => ResultsRight
      PROVE  UsesElsewhereAreFound
  <2> SUFFICES ASSUME Done, NEW d \in AllDefinitions, ~ Overwritten(d),
                      NEW u \in AllUses, u.variable = d.variable, u.block # d.block
               PROVE  /\ u \in UsesOf(d) => Predecessors(u.block) \cap Survives(d) # {}
                      /\ Predecessors(u.block) \cap Survives(d) # {} /\ u.variable \notin Defined(u.block)
                           => u \in UsesOf(d)
    BY DEF UsesElsewhereAreFound
  <2>1. IsGraph(graph) /\ ResultsRight
    BY <1>1 DEF FlowInv, FlowTypeOK
  <2>2. KeptTo(d) = {b \in Blocks : d \in reachOut[b]} /\ Survives(d) = KeptTo(d)
    BY <1>1, <2>1, ReachesWhereItIsKept, SurvivesWhereKept DEF FlowInv, FlowTypeOK
  <2> QED BY <2>1, <2>2, UsesReachedFromElsewhere
<1> QED BY <1>1, FlowInvHolds, ResultsAreRight, PTL

\* What is reported a dead store is read at most in blocks that write the variable
\* themselves, where flow_rewrites finds the report wrong; and a use is reported
\* uninitialized, in a block that does not write the variable, just when no path brings a
\* definition to it (find_dead_stores, find_uninitialized_uses).
ReportsElsewhereAreRight ==
  Done =>
    /\ \A d \in DeadStores : \A u \in AllUses :
         u.variable = d.variable /\ (Before(d, u) \/ Around(d, u)) => d.variable \in Defined(u.block)
    /\ \A u \in AllUses : u.variable \notin Defined(u.block) =>
         (u \in UninitializedUses <=>
            \A d \in AllDefinitions : u.variable = d.variable => Predecessors(u.block) \cap Survives(d) = {})

\* A path that leaves a block with a definition, and on which no block writes the variable
\* before the last, comes to the last from a block the definition survives to.
LEMMA AroundSurvives ==
  ASSUME IsGraph(graph), NEW d \in AllDefinitions, NEW u \in AllUses, Around(d, u)
  PROVE  Predecessors(u.block) \cap Survives(d) # {}
<1> DEFINE E == {e \in Edges : d.variable \notin Defined(e[2])}
           F == {e \in Edges : d.variable \notin Defined(e[1])}
           C == {y \in Blocks : Predecessors(y) \cap Survives(d) # {}}
<1>1. d.block \in Blocks /\ {d.block} \in SUBSET Blocks /\ Successors(d.block) \in SUBSET Blocks
  BY KnowsItsBlock, Neighbours
<1>2. d.block \in Survives(d) /\ Survives(d) \subseteq Blocks /\ Closed(Survives(d), E)
  <2>1. Survives(d) = From({d.block}, E)
    BY DEF Survives, Around
  <2> HIDE DEF E
  <2> QED BY <1>1, <2>1, FromMeans
<1>3. Successors(d.block) \subseteq C
  BY <1>1, <1>2, Neighbours
<1>4. ASSUME NEW x \in C, NEW y \in Blocks, <<x, y>> \in F
      PROVE  y \in C
  <2>1. PICK p \in Predecessors(x) \cap Survives(d) : TRUE
    OBVIOUS
  <2>2. d.variable \notin Defined(x) /\ <<p, x>> \in Edges
    BY <1>4, <2>1 DEF Predecessors
  <2>3. x \in Survives(d)
    BY <1>2, <2>1, <2>2 DEF Closed
  <2>4. x \in Predecessors(y)
    BY <1>4 DEF Predecessors
  <2> QED BY <2>3, <2>4
<1>5. Closed(C, F)
  BY <1>4 DEF Closed
<1>6. u.block \in From(Successors(d.block), F)
  BY DEF Around
<1> HIDE DEF C, F
<1>7. u.block \in C
  BY <1>1, <1>3, <1>5, <1>6, FromMeans
<1> QED BY <1>7 DEF C

\* The reports built from the chains, for every graph and every order of the worklists
\* (find_dead_stores, find_uninitialized_uses).
THEOREM ReportsFollowPaths == FlowSpec => []ReportsElsewhereAreRight
<1>1. ASSUME FlowInv, Done => ResultsRight
      PROVE  ReportsElsewhereAreRight
  <2> SUFFICES ASSUME Done
               PROVE  ReportsElsewhereAreRight
    BY DEF ReportsElsewhereAreRight
  <2>1. IsGraph(graph) /\ ResultsRight
    BY <1>1 DEF FlowInv, FlowTypeOK
  <2>2. ASSUME NEW d \in AllDefinitions, NEW u \in AllUses, u.variable = d.variable,
               u.variable \notin Defined(u.block)
        PROVE  u \in UsesOf(d) <=> Predecessors(u.block) \cap KeptTo(d) # {}
    <3>1. KeptTo(d) = {b \in Blocks : d \in reachOut[b]}
      BY <1>1, <2>1, ReachesWhereItIsKept DEF FlowInv, FlowTypeOK
    <3> QED BY <2>1, <2>2, <3>1, UsesReachedFromElsewhere
  <2>3. ASSUME NEW d \in DeadStores, NEW u \in AllUses, u.variable = d.variable,
               Before(d, u) \/ Around(d, u), d.variable \notin Defined(u.block)
        PROVE  FALSE
    <3>1. d \in AllDefinitions /\ u \notin UsesOf(d)
      BY DEF DeadStores
    <3>2. ~ Before(d, u)
      BY <2>3, <3>1, KnowsItsBlock, DefinesOnly DEF Before
    <3>3. Predecessors(u.block) \cap Survives(d) # {} /\ Survives(d) = KeptTo(d)
      BY <2>1, <2>3, <3>1, <3>2, AroundSurvives, SurvivesWhereKept DEF Around
    <3> QED BY <2>2, <2>3, <3>1, <3>3
  <2>4. ASSUME NEW u \in AllUses, u.variable \notin Defined(u.block)
        PROVE  u \in UninitializedUses <=>
                 \A d \in AllDefinitions : u.variable = d.variable => Predecessors(u.block) \cap Survives(d) = {}
    <3>1. u \in UninitializedUses <=> \A d \in AllDefinitions : u \notin UsesOf(d)
      BY DEF UninitializedUses
    <3>2. \A d \in AllDefinitions : u \in UsesOf(d) => u.variable = d.variable
      BY DEF UsesOf
    <3>3. ASSUME NEW d \in AllDefinitions, u \in UsesOf(d)
          PROVE  \E e \in AllDefinitions :
                   u.variable = e.variable /\ Predecessors(u.block) \cap Survives(e) # {}
      <4>1. PICK e \in AllDefinitions : /\ ~ Overwritten(e)
                                        /\ e.variable = d.variable /\ e.block = d.block
        BY <2>1, SomeIsLast
      <4>2. Survives(e) = KeptTo(d)
        BY <4>1, SurvivesWhereKept DEF KeptTo
      <4> QED BY <2>2, <2>4, <3>2, <3>3, <4>1, <4>2
    <3>4. ASSUME NEW d \in AllDefinitions, u.variable = d.variable,
                 Predecessors(u.block) \cap Survives(d) # {}
          PROVE  u \in UsesOf(d)
      <4>1. Survives(d) = KeptTo(d)
        BY <3>4, SurvivesWhereKept
      <4> QED BY <2>2, <2>4, <3>4, <4>1
    <3> QED BY <3>1, <3>3, <3>4
  <2> QED BY <2>3, <2>4 DEF ReportsElsewhereAreRight
<1> QED BY <1>1, FlowInvHolds, ResultsAreRight, PTL
===============================================================================
