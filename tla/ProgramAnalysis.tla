---------------------------- MODULE ProgramAnalysis ---------------------------
(***************************************************************************)
(* The analyses of DataFlow on the graphs that ControlFlow makes of        *)
(* functions (analyze_function, analyze_file, src/dead_code.rs).  A graph  *)
(* carries the function it was made of.                                    *)
(***************************************************************************)
EXTENDS ControlFlow, DataFlow

\* All the statements of a body, at any depth.
RECURSIVE Within(_)
Within(body) ==
  UNION {LET s == body[i] IN
         {s} \cup Within(s.body) \cup Within(s.otherwise)
           \cup UNION {Within(s.arms[k].body) : k \in DOMAIN s.arms}
           \cup UNION {Within(s.elseifs[k].body) : k \in DOMAIN s.elseifs} : i \in DOMAIN body}

\* The lines that some run of the function comes to.
Flows == FlowOfProgram(graph.program)
LinesRun ==
  LET lines == {f[1] : f \in Flows}
      step[n \in Nat] ==
        IF n = 0 THEN {First(graph.program, End)}
        ELSE LET before == step[n - 1]
             IN  before \cup {f[2] : f \in {g \in Flows : g[1] \in before}}
  IN  step[Cardinality(lines)] \ {End}

LinesOf(blocks) == UNION {{Code(b)[i].line : i \in DOMAIN Code(b)} : b \in blocks}

\* Where control is when it enters a block: its first line, or those of the blocks after
\* an empty one.
Landing(blocks) ==
  LET through == From(blocks, {e \in Edges : Code(e[1]) = <<>>}) IN
  {Code(b)[1].line : b \in {c \in through : Code(c) # <<>>}}
    \cup (IF through \cap graph.exits \cap {b \in Blocks : Code(b) = <<>>} = {} THEN {} ELSE {End})

\* Which line follows which in the graph.
GraphFlow ==
  UNION {LET code == Code(b) IN
         {<<code[i].line, code[i + 1].line>> : i \in 1 .. Len(code) - 1}
           \cup (IF code = <<>> THEN {}
                 ELSE {<<code[Len(code)].line, to>> :
                         to \in Landing(Successors(b)) \cup (IF b \in graph.exits THEN {End} ELSE {})}) :
         b \in Blocks}

-----------------------------------------------------------------------------
\* A block is reported unreachable exactly when no run comes to its statements
\* (find_unreachable_blocks, find_dead_code).
UnreachableIsNeverRun == Done => LinesOf(reached) = LinesRun

\* From every line that can run the graph leads to the lines that may follow it and to
\* no others; what an exception interrupts is not told line by line
\* (CfgBuilder).
GraphFlowsAsProgram ==
  Done /\ (\A s \in Within(graph.program) : s.is # "try") =>
    LET ran == LinesRun IN
    {f \in GraphFlow : f[1] \in ran} = {f \in Flows : f[1] \in ran}
===============================================================================
