---- MODULE MCProgramAnalysis ----
(* ProgramAnalysis for TLC: small functions in which each construct holds each jump. *)
EXTENDS ProgramAnalysis

CONSTANT x

Statement(is, line) ==
  [is |-> is, of |-> "", line |-> line, writes |-> {}, reads |-> {},
   body |-> <<>>, elseifs |-> <<>>, arms |-> <<>>, otherwise |-> <<>>, total |-> TRUE]
Write(line) == [Statement("do", line) EXCEPT !.writes = {x}]
Read(line) == [Statement("do", line) EXCEPT !.reads = {x}]
Step(line) == [Statement("do", line) EXCEPT !.reads = {x}, !.writes = {x}]
With(is, line, body, otherwise) ==
  [Statement(is, line) EXCEPT !.body = body, !.otherwise = otherwise]
Arms(is, line, arms, total) == [Statement(is, line) EXCEPT
  !.arms = [i \in DOMAIN arms |-> [body |-> arms[i]]], !.total = total]

Jumps(line) == {Statement(k, line) : k \in {"break", "continue", "return", "throw"}}
Loops == {"while", "loop", "dowhile"}

\* Loops with a way out or on in the middle, in an `if' or an arm.
Inner ==
  {With("if", 3, <<j>>, <<>>) : j \in Jumps(4)}
  \cup {With("if", 3, <<Write(4)>>, <<Statement("break", 5)>>),
        Arms("match", 3, <<<<Write(4)>>, <<Statement("continue", 5)>>>>, FALSE)}
MCPrograms ==
  {<<Write(1), With(k, 2, <<i, Step(6)>>, <<>>), Read(9)>> : k \in Loops, i \in Inner}
  \cup {<<Write(1), With("while", 2, <<With(n[1], 3, <<With("if", 4, <<Statement(n[2], 5)>>, <<>>)>>, <<>>),
                                       Read(6)>>, <<>>), Write(9)>> :
          n \in {<<"while", "break">>, <<"loop", "return">>, <<"dowhile", "continue">>}}
  \cup {<<[With("if", 1, <<Write(2)>>, o) EXCEPT !.elseifs = <<With("", 3, e, <<>>)>>], Read(9)>> :
          o \in {<<>>, <<Write(6)>>}, e \in {<<Write(4)>>, <<Read(4), Statement("return", 5)>>}}
  \cup {<<Write(1), [Arms("try", 2, <<<<Read(6)>>>>, TRUE) EXCEPT !.body = b, !.otherwise = f],
          Read(9)>> : f \in {<<>>, <<Write(7)>>},
            b \in {<<Write(3)>>, <<With("if", 3, <<Statement("throw", 4)>>, <<>>), Write(5)>>}}
  \cup {<<Arms("match", 1, <<<<Write(2)>>, <<Statement("return", 3)>>>>, t), Read(9)>> : t \in BOOLEAN}
\* One block writes the variable twice.
Twice == <<Write(1), Write(2), With("if", 3, <<Write(4), Step(5)>>, <<>>), Read(6)>>
\* Here the block after the `if' is left to by the `else if' only: its dominator is made
\* after it.
ElseIfOnly ==
  <<With("loop", 1, <<[With("if", 2, <<Statement("return", 3)>>, <<>>) EXCEPT
                         !.elseifs = <<With("", 4, <<Statement("break", 5)>>, <<>>)>>],
                      Statement("break", 6)>>, <<>>), Read(7)>>

MCGraphs == {Built(p) : p \in MCPrograms \cup {Twice, ElseIfOnly}}

\* loop { if .. { break; } } read: the `break' and its semicolon are an expression statement.
MCWrapped ==
  {Built(<<With("loop", 1, <<With("if", 2, <<[Statement("wrapped", 3) EXCEPT !.of = "break"]>>, <<>>)>>, <<>>),
           Read(4)>>)}

\* Only the branch that writes the variable anew reads what is written first.
MCRewrites == {Built(<<Write(1), With("if", 2, <<Step(3)>>, <<Write(4)>>), Read(5)>>)}
====
