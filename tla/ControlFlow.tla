------------------------------ MODULE ControlFlow -----------------------------
(***************************************************************************)
(* How src/cfg.rs makes a control flow graph of a function: the recursion  *)
(* over its statements (CfgBuilder), and beside it what the statements     *)
(* mean, as which may follow which.                                        *)
(*                                                                         *)
(* A function is a sequence of statements.  A statement is a record with   *)
(* its kind `is', its line, the variables it writes and reads, and its     *)
(* parts.  Lines are all different and grow with the text.  A pattern's    *)
(* bindings are the first statement of the body they are bound in.         *)
(***************************************************************************)
EXTENDS Naturals, Sequences, FiniteSets, SequencesExt

\* What can follow a statement: a line, or the end of the function.
End == 0

-----------------------------------------------------------------------------
(* CfgBuilder: `at' is the block being filled, `loops' the headers and     *)
(* exits of the loops around it.  Blocks are numbered from 0 as they are   *)
(* created; code[i + 1] holds the statements of block i.                   *)

Empty == [code |-> <<<<>>>>, edges |-> <<>>, exits |-> {}, loops |-> <<>>, at |-> 0]

Latest(b) == Len(b.code) - 1
CreateBlock(b) == [b EXCEPT !.code = Append(@, <<>>)]
Enter(b, block) == [b EXCEPT !.at = block]
AddEdge(b, from, to) == [b EXCEPT !.edges = Append(@, <<from, to>>)]
Join(b, to) == AddEdge(b, b.at, to)
SetExit(b) == [b EXCEPT !.exits = @ \cup {b.at}]
AddStatement(b, s) ==
  [b EXCEPT !.code[b.at + 1] = Append(@, [line |-> s.line, writes |-> s.writes, reads |-> s.reads])]

\* After a jump the statements go to a new block that nothing leads to.
AfterJump(b) == LET c == CreateBlock(b) IN Enter(c, Latest(c))

\* A new block that `from' leads to.
Branch(b, from) == LET c == CreateBlock(b) IN Enter(AddEdge(c, from, Latest(c)), Latest(c))

PushLoop(b, header, exit) == [b EXCEPT !.loops = Append(@, [header |-> header, exit |-> exit])]
PopLoop(b) == [b EXCEPT !.loops = Front(@)]

\* (Mutant: `break' leads nowhere.)
BreakOff(b, s) == AfterJump(AddStatement(b, s))

Break(b, s) ==
  LET c == AddStatement(b, s) IN
  AfterJump(IF c.loops = <<>> THEN c ELSE Join(c, Last(c.loops).exit))

\* (Mutant: `continue' leaves the loop.)
ContinueToExit(b, s) ==
  LET c == AddStatement(b, s) IN
  AfterJump(IF c.loops = <<>> THEN c ELSE Join(c, Last(c.loops).exit))

Continue(b, s) ==
  LET c == AddStatement(b, s) IN
  AfterJump(IF c.loops = <<>> THEN c ELSE Join(c, Last(c.loops).header))

RECURSIVE ProcessStatement(_, _)
ProcessBlock(b, body) == FoldLeft(ProcessStatement, b, body)

\* process_if: each `else if' hangs off the false edge of the test before it.
ElseIf(b, clause, merge) ==
  LET test == AddStatement(Branch(b, b.at), clause)
      body == Join(ProcessBlock(Branch(test, test.at), clause.body), merge)
  IN  Enter(body, test.at)

\* The block after the `if' is created before the `then' part is read.
ProcessIf(b, s) ==
  LET test  == AddStatement(b, s)
      then  == Branch(test, b.at)
      merge == Latest(then) + 1
      body  == Join(ProcessBlock(CreateBlock(then), s.body), merge)
      tests == FoldLeft(LAMBDA c, clause : ElseIf(c, clause, merge), Enter(body, b.at), s.elseifs)
      else  == IF s.otherwise = <<>> THEN tests
               ELSE ProcessBlock(Branch(tests, tests.at), s.otherwise)
  IN  Enter(Join(else, merge), merge)

\* process_while, process_for, process_enhanced_for; process_loop is left by `break' only.
ProcessLoop(b, s) ==
  LET header == Latest(b) + 1
      top    == AddStatement(Branch(b, b.at), s)
      exit   == header + 2
      inside == PushLoop(Enter(CreateBlock(Branch(top, header)), header + 1), header, exit)
      tested == IF s.is = "while" THEN AddEdge(inside, header, exit) ELSE inside
  IN  Enter(PopLoop(Join(ProcessBlock(tested, s.body), header)), exit)

ProcessDoWhile(b, s) ==
  LET first     == Latest(b) + 1
      condition == first + 1
      exit      == first + 2
      inside    == PushLoop(Enter(CreateBlock(CreateBlock(Branch(b, b.at))), first), condition, exit)
      end       == Enter(Join(ProcessBlock(inside, s.body), condition), condition)
  IN  Enter(PopLoop(Join(Join(AddStatement(end, s), first), exit)), exit)

\* process_match, process_switch, process_when, process_select.  The body of a match arm
\* that is no block is not looked at.
ProcessArm(b, from, arm, merge) ==
  Enter(Join(ProcessBlock(Branch(b, from), arm.body), merge), from)
ProcessMatch(b, s) ==
  LET merge == Latest(b) + 1
      arms  == FoldLeft(LAMBDA c, arm : ProcessArm(c, b.at, arm, merge),
                        CreateBlock(AddStatement(b, s)), s.arms)
  IN  Enter(IF s.total THEN arms ELSE Join(arms, merge), merge)

\* process_try_catch: the handlers are entered from the block the guarded part begins
\* with, and skip the `finally' part.
ProcessTry(b, s) ==
  LET try      == Latest(b) + 1
      merge    == try + 1
      guarded  == ProcessBlock(Enter(CreateBlock(Branch(AddStatement(b, s), b.at)), try), s.body)
      exit     == guarded.at
      handled  == FoldLeft(LAMBDA c, h : ProcessArm(c, try, h, merge), guarded, s.arms)
      finally  == ProcessBlock(Branch(handled, exit), s.otherwise)
  IN  Enter(IF s.otherwise = <<>> THEN AddEdge(handled, exit, merge) ELSE Join(finally, merge), merge)

\* process_statement, process_jump_expression.
ProcessStatement(b, s) ==
  CASE s.is = "return"   -> AfterJump(SetExit(AddStatement(b, s)))
    [] s.is = "throw"    -> AfterJump(AddStatement(b, s))
    [] s.is = "break"    -> Break(b, s)
    [] s.is = "continue" -> Continue(b, s)
    [] s.is = "if"       -> ProcessIf(b, s)
    [] s.is \in {"while", "loop"}   -> ProcessLoop(b, s)
    [] s.is = "dowhile"  -> ProcessDoWhile(b, s)
    [] s.is \in {"match", "switch"} -> ProcessMatch(b, s)
    [] s.is = "try"      -> ProcessTry(b, s)
    [] OTHER -> AddStatement(b, s)

\* build_from_function.
Built(program) ==
  LET b == SetExit(ProcessBlock(Empty, program)) IN
  [program |-> program, code |-> b.code, edges |-> b.edges, exits |-> b.exits]

-----------------------------------------------------------------------------
(* What the statements mean: which lines may follow which.  A condition    *)
(* can go either way; `to' says where control goes next, and where `break' *)
(* and `continue' take it.                                                 *)

\* Where control enters a body.
RECURSIVE First(_, _)
First(body, next) ==
  IF body = <<>> THEN next
  ELSE IF Head(body).is = "dowhile" THEN First(Head(body).body, Head(body).line)
  ELSE Head(body).line

RECURSIVE Flow(_, _)
FlowOf(body, to) ==
  UNION {Flow(body[i], [to EXCEPT !.next = First(SubSeq(body, i + 1, Len(body)), to.next)]) :
           i \in DOMAIN body}

FlowOfIf(s, to) ==
  LET tests == <<s>> \o s.elseifs IN
  UNION {LET otherwise == IF i < Len(tests) THEN tests[i + 1].line ELSE First(s.otherwise, to.next)
         IN  {<<tests[i].line, First(tests[i].body, to.next)>>, <<tests[i].line, otherwise>>}
               \cup FlowOf(tests[i].body, to) : i \in DOMAIN tests}
    \cup FlowOf(s.otherwise, to)

FlowOfLoop(s, to) ==
  {<<s.line, First(s.body, s.line)>>}
    \cup (IF s.is = "loop" THEN {} ELSE {<<s.line, to.next>>})
    \cup FlowOf(s.body, [next |-> s.line, break |-> to.next, continue |-> s.line])

\* A `break' in a switch leaves the switch.
FlowOfArms(s, to) ==
  LET inside == IF s.is = "switch" THEN [to EXCEPT !.break = to.next] ELSE to IN
  UNION {{<<s.line, First(s.arms[i].body, to.next)>>} \cup FlowOf(s.arms[i].body, inside) :
           i \in DOMAIN s.arms}
    \cup (IF s.total THEN {} ELSE {<<s.line, to.next>>})

FlowOfTry(s, to) ==
  LET inside == [to EXCEPT !.next = First(s.otherwise, to.next)] IN
  {<<s.line, First(s.body, inside.next)>>} \cup FlowOf(s.body, inside)
    \cup UNION {{<<s.line, First(s.arms[i].body, inside.next)>>} \cup FlowOf(s.arms[i].body, inside) :
                  i \in DOMAIN s.arms}
    \cup FlowOf(s.otherwise, to)

Jump(s, to, kind) ==
  CASE kind = "return"   -> {<<s.line, End>>}
    [] kind = "throw"    -> {}
    [] kind = "break"    -> {<<s.line, to.break>>}
    [] kind = "continue" -> {<<s.line, to.continue>>}

Flow(s, to) ==
  CASE s.is \in {"return", "throw", "break", "continue"} -> Jump(s, to, s.is)
    [] s.is = "wrapped" -> Jump(s, to, s.of)
    [] s.is = "if"      -> FlowOfIf(s, to)
    [] s.is \in {"while", "loop", "dowhile"} -> FlowOfLoop(s, to)
    [] s.is \in {"match", "switch"} -> FlowOfArms(s, to)
    [] s.is = "try"     -> FlowOfTry(s, to)
    [] OTHER -> {<<s.line, to.next>>}

FlowOfProgram(program) == FlowOf(program, [next |-> End, break |-> End, continue |-> End])
===============================================================================
