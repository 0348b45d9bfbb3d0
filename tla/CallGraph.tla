------------------------------ MODULE CallGraph ------------------------------
(***************************************************************************)
(* The call graph of one repository and its incremental update by the      *)
(* watcher (src/callgraph.rs, src/callgraph/types.rs, update_call_graph of *)
(* src/engine/mod.rs).                                                     *)
(*                                                                         *)
(* A function's key is its file, the type it is a method of and its name.  *)
(* A file's content is what the graph sees of it: the functions it defines *)
(* with the types they return, the types it declares, and its call sites.  *)
(* Files and types are numbers: their order is the alphabetical one.       *)
(***************************************************************************)
EXTENDS Naturals, Sequences, FiniteSets

CONSTANTS
  Files, Names,
  PlainNames,   \* names made of letters, digits, _ and $ only
  Types,
  Qualifiers,   \* what is written in front of a call: types, modules, variables
  Places,       \*   and the files with that in their path
  Directory,    \* of a file
  NoDirectory,  \* the declaration is asked for from no file
  TestFiles,    \* is_test_path
  FactoryHint,  \* factory_type_hint: the type a function's name suggests it makes
  NoType,       \* of a free function, a function that declares no result, a bare call
  NoName,       \* the receiver is not the result of a call
  Contents,     \* what a file may hold
  Absent,       \* the content of no file
  NoKey,        \* the target of an unresolved call
  MaxEdits      \* bound: edits

Owners == Types \cup {NoType}
Keys == [file : Files, type : Owners, name : Names]

\* A call site: the function it is in and the name it calls, behind a qualifier or on
\* the result of a call `via', which may be held in a variable first.
CallSites ==
  [from : [type : Owners, name : Names], name : Names, scope : Qualifiers \cup {NoType},
   via : Names \cup {NoName}, held : BOOLEAN]
InnerCall(call) == [call EXCEPT !.name = call.via, !.scope = NoType, !.via = NoName, !.held = FALSE]
Declarations ==
  [name : Types, kind : {"struct", "interface"}, embeds : Seq(Types), methods : SUBSET Names]

ASSUME NamesAssumption == PlainNames \subseteq Names /\ NoName \notin Names
ASSUME OrderAssumption == Files \subseteq Nat /\ Types \subseteq Nat /\ NoType \in Nat \ Types
ASSUME QualifiersAssumption ==
  /\ Types \subseteq Qualifiers /\ NoType \notin Qualifiers
  /\ Places \in [Qualifiers -> SUBSET Files]
  /\ FactoryHint \in [Names -> Owners]
  /\ \A f \in Files : Directory[f] # NoDirectory
ASSUME AbsentAssumption == Absent \notin Contents /\ MaxEdits \in Nat
ASSUME NoKeyAssumption == NoKey \notin Keys
ASSUME ContentsAssumption ==
  \A c \in Contents :
    /\ c.functions \subseteq [type : Owners, name : Names, result : Owners]
    /\ \A x, y \in c.functions : x.type = y.type /\ x.name = y.name => x = y
    /\ c.types \subseteq Declarations
    /\ \A x, y \in c.types : x.name = y.name => x = y
    /\ c.calls \subseteq CallSites
    /\ \A call \in c.calls : call.via # NoName => InnerCall(call) \in c.calls

VARIABLES
  disk, edits,       \* the files; how often they were edited
  pending,           \* the last event of each file that the watcher has not taken
  watchAt, batch,    \* process_file_changes: the changes in hand
  changed, sources,  \*   what it read of them
  callers,           \* update_call_graph: files to read again
  nodes, fileFunctions, nameIndex, calls,  \* CallGraph
  declared,          \* result types of its nodes and type declarations, by file
  readWith           \* history: what types were known when a file's calls were resolved

sourceVars == <<disk, edits, pending>>
watchVars  == <<watchAt, batch, changed, sources, callers>>
graphVars  == <<nodes, fileFunctions, nameIndex, calls, declared, readWith>>
callGraphVars == <<sourceVars, watchVars, graphVars>>

-----------------------------------------------------------------------------
(* What a content says. *)

Key(f, function) == [file |-> f, type |-> function.type, name |-> function.name]
KeysOf(f, content) ==
  IF content = Absent THEN {} ELSE {Key(f, function) : function \in content.functions}
CallsOf(k, content) ==
  IF content = Absent THEN {}
  ELSE {c \in content.calls : Key(k.file, c.from) = k}
DeclaredBy(f, content) ==
  [results |-> [k \in KeysOf(f, content) |->
                  (CHOOSE function \in content.functions : Key(f, function) = k).result],
   types   |-> IF content = Absent THEN {} ELSE content.types]

\* What is known of types: what the files declare, and the methods the functions are.
Known(keys, declarations) ==
  [declared |-> declarations, methods |-> {<<k.type, k.name>> : k \in keys}]

-----------------------------------------------------------------------------
(* Resolution of a call site of file f, by the functions of the name it    *)
(* calls and by what is known of types.                                    *)

Single(S) == \E x \in S : S = {x}
OneOf(S) == IF Single(S) THEN S ELSE {}
Before(k, l) == k.file < l.file \/ (k.file = l.file /\ k.type <= l.type)
Least(S) == CHOOSE k \in S : \A l \in S : Before(k, l)
To(target, how) == [target |-> target, resolution |-> how]
OnType(candidates, type) == {k \in candidates : k.type # NoType /\ k.type = type}

\* decl_for: the only declaration of the type, or the only one in the directory.
DeclarationOf(type, directory, known) ==
  LET all == UNION {{[file |-> f, declaration |-> d] : d \in known.declared[f].types} : f \in Files}
      named == {x \in all : x.declaration.name = type}
  IN {x.declaration : x \in IF Single(named) THEN named
                             ELSE OneOf({y \in named : Directory[y.file] = directory})}

IsInterface(type, directory, known) ==
  \E d \in DeclarationOf(type, directory, known) : d.kind = "interface"

\* only_implementor_among: the only type, or the only one outside the tests, that has
\* every method of the interface.
OnlyImplementor(candidates, interface, known) ==
  LET required == UNION {d.methods : d \in DeclarationOf(interface, NoDirectory, known)}
      all == {k \in candidates :
                k.type # NoType /\ \A m \in required : <<k.type, m>> \in known.methods}
  IN IF Cardinality(required) < 2 THEN {}
     ELSE IF Single(all) THEN all
     ELSE OneOf({k \in all : k.file \notin TestFiles})

\* embedded_chain: the types embedded in a type, three levels deep.
EmbeddedChain(type, directory, known) ==
  LET Embeds(t) ==
        LET d == DeclarationOf(t, directory, known)
        IN  IF d = {} THEN <<>> ELSE (CHOOSE x \in d : TRUE).embeds
      Pop(w) ==
        LET top == w.stack[Len(w.stack)]
            New(t) == t # type /\ \A i \in DOMAIN w.found : w.found[i] # t
            fresh == IF top.depth >= 3 THEN <<>> ELSE SelectSeq(Embeds(top.type), New)
        IN  [found |-> w.found \o fresh,
             stack |-> SubSeq(w.stack, 1, Len(w.stack) - 1)
                         \o [i \in DOMAIN fresh |-> [type |-> fresh[i], depth |-> top.depth + 1]]]
      walk[n \in Nat] ==
        IF n = 0 THEN [found |-> <<>>, stack |-> << [type |-> type, depth |-> 0] >>]
        ELSE LET w == walk[n - 1] IN IF w.stack = <<>> THEN w ELSE Pop(w)
  IN  walk[Cardinality(Types)].found

\* The method of the first embedded type that has just one of the name.
Promoted(candidates, chain) ==
  LET having == {i \in DOMAIN chain : Single(OnType(candidates, chain[i]))}
  IN  UNION {OnType(candidates, chain[i]) : i \in {j \in having : \A l \in having : j <= l}}

\* resolve_scoped_callee after the steps on receiver types.
ByPlace(f, scope, candidates) ==
  LET own    == {k \in candidates : k.file = f /\ k.type = NoType}
      nearby == {k \in candidates : k.file = f}
      scoped == IF scope = NoType THEN {} ELSE {k \in candidates : k.file \in Places[scope]}
  IN
  IF candidates = {} THEN To(NoKey, "Unresolved")
  ELSE IF Single(candidates) THEN To(Least(candidates), "Unique")
  ELSE IF own # {} THEN To(Least(own), "SameFile")
  ELSE IF nearby # {} THEN To(Least(nearby), "SameFile")
  ELSE IF Single(scoped) THEN To(Least(scoped), "Scope")
  ELSE To(Least(candidates), "NameOnly")

\* resolve_scoped_callee.
Scoped(f, candidates, scope, inferred, known) ==
  LET byReceiver == OnType(candidates, scope)
      implementor == IF IsInterface(scope, Directory[f], known)
                     THEN OnlyImplementor(candidates, scope, known) ELSE {}
      promoted == Promoted(candidates, EmbeddedChain(scope, Directory[f], known))
      how == IF inferred THEN "FactoryReceiver" ELSE "Receiver"
  IN
  IF Single(byReceiver) THEN To(Least(byReceiver), how)
  ELSE IF implementor # {} THEN To(Least(implementor), "InterfaceImpl")
  ELSE IF promoted # {} THEN To(Least(promoted), how)
  ELSE ByPlace(f, IF inferred THEN NoType ELSE scope, candidates)

\* call_result_type: what the only function of the name returns, or up to eight agree on.
ResultType(candidates, known) ==
  LET results == {known.declared[k.file].results[k] : k \in candidates}
  IN  IF Single(results) /\ Cardinality(candidates) <= 8
      THEN CHOOSE r \in results : TRUE ELSE NoType

\* expression_type_hint: what f() declares, or what its name suggests.
HintOf(call, index, known) ==
  LET result == ResultType(index[call.via], known)
  IN  IF result = NoType THEN FactoryHint[call.via] ELSE result

\* chained_call_scope_hint: f().m() is called on what f() gives.
OnResult(f, call, index, known) ==
  Scoped(f, index[call.name], HintOf(call, index, known),
         ResultType(index[call.via], known) = NoType, known)

\* After x := f(), what f() gives counts when x.m() turns out a method of it.
OnVariable(f, call, index, known) ==
  LET byLocal == Scoped(f, index[call.name], HintOf(call, index, known), FALSE, known)
  IN  IF byLocal.resolution = "Receiver" THEN byLocal
      ELSE Scoped(f, index[call.name], call.scope, FALSE, known)

\* A call site: walk_for_calls, extract_call_edge.
Resolve(f, call, index, known) ==
  IF call.via = NoName THEN Scoped(f, index[call.name], call.scope, FALSE, known)
  ELSE IF call.held THEN OnVariable(f, call, index, known)
  ELSE OnResult(f, call, index, known)

\* collect_file_calls: the edges of the function k.
Edges(k, content, index, known) ==
  {[call |-> c, to |-> Resolve(k.file, c, index, known)] : c \in CallsOf(k, content)}

\* The graph of these files, their calls resolved with what is known of types to each:
\* built from nothing, that is what all of them declare.
KeysIn(contents) == UNION {KeysOf(f, contents[f]) : f \in Files}
IndexOf(keys) == [n \in Names |-> {k \in keys : k.name = n}]
KnownOf(contents) == Known(KeysIn(contents), [f \in Files |-> DeclaredBy(f, contents[f])])
Rebuilt(contents, knownTo) ==
  LET index == IndexOf(KeysIn(contents)) IN
  [k \in Keys |-> IF k \in KeysIn(contents)
                  THEN Edges(k, contents[k.file], index, knownTo[k.file]) ELSE {}]

-----------------------------------------------------------------------------
GraphInit ==
  /\ disk \in [Files -> Contents \cup {Absent}] /\ edits = 0
  /\ pending = [f \in Files |-> "none"]
  /\ watchAt = "idle" /\ batch = pending
  /\ changed = {} /\ sources = [f \in Files |-> Absent] /\ callers = {}
  /\ nodes = KeysIn(disk)
  /\ fileFunctions = [f \in Files |-> KeysOf(f, disk[f])]
  /\ nameIndex = IndexOf(nodes)
  /\ declared = [f \in Files |-> DeclaredBy(f, disk[f])]
  /\ readWith = [f \in Files |-> KnownOf(disk)]
  /\ calls = Rebuilt(disk, readWith)

EditSource(f, content) ==
  /\ edits < MaxEdits /\ content # disk[f]
  /\ edits' = edits + 1
  /\ disk' = [disk EXCEPT ![f] = content]
  /\ pending' = [pending EXCEPT ![f] = IF content = Absent THEN "deleted" ELSE "written"]
  /\ UNCHANGED <<watchVars, graphVars>>

TakeChanges ==
  /\ watchAt = "idle" /\ \E f \in Files : pending[f] # "none"
  /\ batch' = pending
  /\ pending' = [f \in Files |-> "none"]
  /\ watchAt' = "read"
  /\ UNCHANGED <<disk, edits, changed, sources, callers, graphVars>>

\* A written file that is gone by now is passed over: its removal is an event to come.
ReadChanged(f) ==
  /\ watchAt = "read" /\ batch[f] # "none"
  /\ batch' = [batch EXCEPT ![f] = "none"]
  /\ \/ /\ batch[f] = "written" /\ disk[f] = Absent
        /\ UNCHANGED <<changed, sources>>
     \/ /\ batch[f] = "written" /\ disk[f] # Absent
        /\ changed' = changed \cup {f}
        /\ sources' = [sources EXCEPT ![f] = disk[f]]
     \/ /\ batch[f] = "deleted"
        /\ changed' = changed \cup {f}
        /\ sources' = [sources EXCEPT ![f] = Absent]
  /\ UNCHANGED <<sourceVars, watchAt, callers, graphVars>>

\* bare_name gives back the whole key when the name is no identifier; no call ends in it.
BareNames(keys) == {k.name : k \in keys} \cap PlainNames

FilesCalling(names, keys) ==
  {k.file : k \in {l \in keys : \E e \in calls[l] : e.call.name \in names}}

\* (Mutant: the names that are gone are forgotten.)
NewNames(old, new) == BareNames(new \ old)

\* The names of the functions that came or went.
ChangedNames(old, new) == BareNames((old \ new) \cup (new \ old))

\* remove_functions_for_file, then insert_node.
IndexAfter(old, new) ==
  [n \in Names |-> (nameIndex[n] \ old) \cup {k \in new : k.name = n}]

\* The changed files are taken out and collected anew, functions first, then calls.
UpdateChanged ==
  LET old == UNION {fileFunctions[f] : f \in changed}
      new == UNION {KeysOf(f, sources[f]) : f \in changed}
      kept == nodes \ old
      known == Known(nodes', declared')
  IN
  /\ watchAt = "read" /\ \A f \in Files : batch[f] = "none"
  /\ watchAt' = "reread"
  /\ nodes' = kept \cup new
  /\ fileFunctions' =
       [f \in Files |-> IF f \in changed THEN KeysOf(f, sources[f]) ELSE fileFunctions[f]]
  /\ nameIndex' = IndexAfter(old, new)
  /\ declared' =
       [f \in Files |-> IF f \in changed THEN DeclaredBy(f, sources[f]) ELSE declared[f]]
  /\ readWith' = [f \in Files |-> IF f \in changed THEN known ELSE readWith[f]]
  /\ callers' = FilesCalling(ChangedNames(old, new), kept) \ changed
  /\ calls' = [k \in Keys |->
       IF k \in new THEN Edges(k, sources[k.file], nameIndex', known)
       ELSE IF k \in kept THEN calls[k] ELSE {}]
  /\ changed' = {} /\ sources' = [f \in Files |-> Absent]
  /\ UNCHANGED <<sourceVars, batch>>

\* (Mutant: the calls of the file are not cleared first.)
RereadOnTop(f) ==
  /\ watchAt = "reread" /\ f \in callers
  /\ callers' = callers \ {f}
  /\ IF disk[f] = Absent THEN UNCHANGED <<calls, readWith>>
     ELSE /\ calls' = [k \in Keys |->
               IF k \in fileFunctions[f]
               THEN calls[k] \cup Edges(k, disk[f], nameIndex, Known(nodes, declared)) ELSE calls[k]]
          /\ readWith' = [readWith EXCEPT ![f] = Known(nodes, declared)]
  /\ UNCHANGED <<sourceVars, watchAt, batch, changed, sources>>
  /\ UNCHANGED <<nodes, fileFunctions, nameIndex, declared>>

\* A file with calls of these names, as it is now: clear_calls_for_file, collect_calls.
Reread(f) ==
  /\ watchAt = "reread" /\ f \in callers
  /\ callers' = callers \ {f}
  /\ IF disk[f] = Absent THEN UNCHANGED <<calls, readWith>>
     ELSE /\ calls' = [k \in Keys |->
               IF k \in fileFunctions[f]
               THEN Edges(k, disk[f], nameIndex, Known(nodes, declared)) ELSE calls[k]]
          /\ readWith' = [readWith EXCEPT ![f] = Known(nodes, declared)]
  /\ UNCHANGED <<sourceVars, watchAt, batch, changed, sources>>
  /\ UNCHANGED <<nodes, fileFunctions, nameIndex, declared>>

Updated ==
  /\ watchAt = "reread" /\ callers = {}
  /\ watchAt' = "idle"
  /\ UNCHANGED <<sourceVars, batch, changed, sources, callers, graphVars>>

GraphNext ==
  \/ \E f \in Files : ReadChanged(f) \/ Reread(f)
  \/ \E f \in Files, content \in Contents \cup {Absent} : EditSource(f, content)
  \/ TakeChanges \/ UpdateChanged \/ Updated

GraphSpec == GraphInit /\ [][GraphNext]_callGraphVars

-----------------------------------------------------------------------------
GraphTypeOK ==
  /\ disk \in [Files -> Contents \cup {Absent}] /\ edits \in 0 .. MaxEdits
  /\ pending \in [Files -> {"none", "written", "deleted"}]
  /\ watchAt \in {"idle", "read", "reread"}
  /\ batch \in [Files -> {"none", "written", "deleted"}]
  /\ changed \subseteq Files /\ sources \in [Files -> Contents \cup {Absent}]
  /\ callers \subseteq Files
  /\ nodes \subseteq Keys /\ fileFunctions \in [Files -> SUBSET Keys]
  /\ nameIndex \in [Names -> SUBSET Keys]
  /\ declared = [f \in Files |-> declared[f]] /\ readWith = [f \in Files |-> readWith[f]]

\* The maps of the graph agree: a name leads to the functions of that name and a file
\* to its own.  A key left in name_index is a rival that no longer exists
\* (insert_node, remove_functions_for_file).
IndexesAgree ==
  /\ nameIndex = IndexOf(nodes)
  /\ \A f \in Files : fileFunctions[f] = {k \in nodes : k.file = f}

\* The calls whose names bare_name takes apart; files that call others are not found.
Followed(edges) == {e \in edges : {e.call.name, e.call.via} \subseteq PlainNames \cup {NoName}}

Settled == watchAt = "idle" /\ \A f \in Files : pending[f] = "none"

\* When the watcher has nothing left to do, the graph's functions and types are those of
\* the files, and every file has the calls of a build from nothing to the functions there
\* are now, resolved with the types known when the file was last read: "the calls of
\* every other file to a function that appeared in them or disappeared from them" are
\* resolved again, and "a changed result type [...] alone does not re-resolve the calls
\* elsewhere" (update_call_graph; nor does a changed struct or interface).
SettledIsRebuilt ==
  Settled =>
    /\ nodes = KeysIn(disk) /\ Known(nodes, declared) = KnownOf(disk)
    /\ \A k \in Keys : Followed(calls[k]) = Followed(Rebuilt(disk, readWith)[k])

-----------------------------------------------------------------------------
(* Why SettledIsRebuilt holds. *)

\* The watcher has still to read this file, or has read it and not yet used it.
Dirty(f) == pending[f] # "none" \/ batch[f] # "none" \/ f \in changed

\* What was read of a changed file is what is there, unless an event is to come.
ReadIsCurrent ==
  \A f \in Files :
    f \in changed /\ pending[f] = "none" /\ batch[f] = "none" => sources[f] = disk[f]

\* A gone file is followed by the event of its going.
GoneIsTold ==
  \A f \in Files :
    /\ pending[f] # "none" => (pending[f] = "deleted" <=> disk[f] = Absent)
    /\ batch[f] # "none" /\ pending[f] = "none" =>
         (batch[f] = "deleted" <=> disk[f] = Absent)

\* A file that is not dirty has its functions and types in the graph, and its calls too
\* unless it is still to be read again: to the functions there are now, by the types
\* known when it was last read.
CleanIsRebuilt ==
  \A f \in Files : ~ Dirty(f) =>
    /\ fileFunctions[f] = KeysOf(f, disk[f]) /\ declared[f] = DeclaredBy(f, disk[f])
    /\ f \notin callers => \A k \in fileFunctions[f] :
         Followed(calls[k]) = Followed(Edges(k, disk[f], nameIndex, readWith[f]))

\* Nothing but functions of the graph has calls, and the phases follow each other.
Phases ==
  /\ \A k \in Keys \ nodes : calls[k] = {}
  /\ watchAt = "idle" => changed = {} /\ callers = {} /\ \A f \in Files : batch[f] = "none"
  /\ watchAt = "reread" => changed = {} /\ \A f \in Files : batch[f] = "none"
  /\ watchAt = "read" => callers = {}

\* The inductive invariant of the update: index, phases and every clean file.
GraphInv ==
  GraphTypeOK /\ IndexesAgree /\ ReadIsCurrent /\ GoneIsTold /\ CleanIsRebuilt /\ Phases
=============================================================================
