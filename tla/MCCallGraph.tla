---- MODULE MCCallGraph ----
EXTENDS CallGraph
CONSTANTS m, n, p, q, ab, nk, nn, nd

Function(type, name, result) == [type |-> type, name |-> name, result |-> result]
Site(type, name) == [type |-> type, name |-> name]
Call(from, name, scope) == [from |-> from, name |-> name, scope |-> scope, via |-> nn, held |-> FALSE]
On(from, name, via, held) ==
  [from |-> from, name |-> name, scope |-> IF held THEN 9 ELSE 0, via |-> via, held |-> held]
Struct(name, embeds) == [name |-> name, kind |-> "struct", embeds |-> embeds, methods |-> {}]
Interface(name, methods) == [name |-> name, kind |-> "interface", embeds |-> <<>>, methods |-> methods]
Content(functions, types, sites) == [functions |-> functions, types |-> types, calls |-> sites]

MCPlaces == [x \in {8, 9, 11, 12, 13} |-> IF x = 8 THEN {2} ELSE IF x = 11 THEN {1} ELSE {}]
MCDirectory == [f \in 1 .. 3 |-> IF f = 3 THEN 2 ELSE 1]
MCFactoryHint == [x \in {m, n, p, q} |-> IF x = p THEN 12 ELSE 0]
MCContents ==
  { \* a caller of everything, through results and variables
    Content({Function(0, m, 0)}, {},
            {Call(Site(0, m), p, 0), On(Site(0, m), n, p, FALSE), On(Site(0, m), m, p, TRUE)}),
    \* makers that differ in what they return
    Content({Function(0, p, 11)}, {Struct(12, <<11>>)}, {Call(Site(0, p), n, 12)}),
    Content({Function(0, p, 13), Function(0, n, 0)}, {Interface(13, {m, n})}, {Call(Site(0, n), m, 13)}),
    \* methods
    Content({Function(11, n, 0), Function(11, m, 0)}, {Struct(11, <<>>)},
            {Call(Site(11, n), m, 11), Call(Site(11, n), q, 8)}),
    Content({Function(12, n, 0), Function(12, q, 0)}, {Struct(12, <<>>)},
            {Call(Site(12, n), n, 11), Call(Site(12, n), q, 0)}) }
====
