--------------------------- MODULE CallGraph_proofs --------------------------
(***************************************************************************)
(* What the watcher's update makes of the call graph is what a build from  *)
(* nothing makes with the types known when each file was last read, for    *)
(* any files, names, types and contents.                                   *)
(***************************************************************************)
EXTENDS CallGraph, TLAPS

\* What a content says of a file is keys of that file (definition_key).
LEMMA KeysOfFile ==
  ASSUME NEW f \in Files, NEW content \in Contents \cup {Absent}
  PROVE  /\ KeysOf(f, content) \subseteq Keys
         /\ \A k \in KeysOf(f, content) : k.file = f
<1>1. CASE content = Absent
  BY <1>1 DEF KeysOf
<1>2. CASE content # Absent
  <2>1. content.functions \subseteq [type : Owners, name : Names, result : Owners]
    BY <1>2, ContentsAssumption
  <2> QED BY <1>2, <2>1 DEF KeysOf, Key, Keys
<1> QED BY <1>1, <1>2

\* Every name called is a name of the graph's index, and a call on the result of another
\* comes with the other.
LEMMA CallNames ==
  ASSUME NEW content \in Contents \cup {Absent}, NEW k, NEW c \in CallsOf(k, content)
  PROVE  /\ c.name \in Names /\ c.via \in Names \cup {NoName}
         /\ c.via # NoName => /\ InnerCall(c) \in CallsOf(k, content)
                              /\ InnerCall(c).name = c.via /\ InnerCall(c).via = NoName
<1>1. content # Absent /\ content \in Contents /\ c \in content.calls /\ Key(k.file, c.from) = k
  BY DEF CallsOf
<1>2. content.calls \subseteq CallSites
  BY <1>1, ContentsAssumption
<1>3. c.via # NoName => InnerCall(c) \in content.calls
  BY <1>1, ContentsAssumption
<1>4. c \in CallSites
  BY <1>1, <1>2
<1>5. InnerCall(c).from = c.from /\ InnerCall(c).name = c.via /\ InnerCall(c).via = NoName
  BY <1>4 DEF InnerCall, CallSites
<1>6. c.via # NoName => InnerCall(c) \in CallsOf(k, content)
  BY <1>1, <1>3, <1>5 DEF CallsOf
<1> QED BY <1>4, <1>5, <1>6 DEF CallSites

\* With the same types known, a call is resolved among the functions of the name it calls
\* and of the name whose result it is made on, and no others (resolve_scoped_callee,
\* call_result_type).
LEMMA ResolvedByName ==
  ASSUME NEW f, NEW c, NEW known, NEW index, NEW later, index[c.name] = later[c.name],
         c.via # NoName => index[c.via] = later[c.via]
  PROVE  Resolve(f, c, index, known) = Resolve(f, c, later, known)
<1>1. CASE c.via = NoName
  <2>1. /\ Resolve(f, c, index, known) = Scoped(f, index[c.name], c.scope, FALSE, known)
        /\ Resolve(f, c, later, known) = Scoped(f, later[c.name], c.scope, FALSE, known)
    BY <1>1 DEF Resolve
  <2> QED BY <2>1
<1>2. CASE c.via # NoName
  <2>1. OnVariable(f, c, index, known) = OnVariable(f, c, later, known)
    BY <1>2, Zenon DEF OnVariable, HintOf
  <2>2. OnResult(f, c, index, known) = OnResult(f, c, later, known)
    BY <1>2, Zenon DEF OnResult, HintOf
  <2> QED BY <1>2, <2>1, <2>2 DEF Resolve
<1> QED BY <1>1, <1>2

\* So a function's compared edges stay right as long as the names they call keep their
\* functions.
LEMMA SameEdges ==
  ASSUME NEW k, NEW content, NEW known, NEW index, NEW later,
         \A c \in CallsOf(k, content) :
           {c.name, c.via} \subseteq PlainNames \cup {NoName} =>
             /\ index[c.name] = later[c.name]
             /\ c.via # NoName => index[c.via] = later[c.via]
  PROVE  Followed(Edges(k, content, index, known)) = Followed(Edges(k, content, later, known))
<1>1. \A c \in CallsOf(k, content) : {c.name, c.via} \subseteq PlainNames \cup {NoName} =>
        Resolve(k.file, c, index, known) = Resolve(k.file, c, later, known)
  BY ResolvedByName
<1>2. Followed(Edges(k, content, index, known)) \subseteq Followed(Edges(k, content, later, known))
  <2> SUFFICES ASSUME NEW e \in Followed(Edges(k, content, index, known))
               PROVE  e \in Followed(Edges(k, content, later, known))
    OBVIOUS
  <2>1. PICK c \in CallsOf(k, content) : e = [call |-> c, to |-> Resolve(k.file, c, index, known)]
    BY DEF Followed, Edges
  <2>2. {c.name, c.via} \subseteq PlainNames \cup {NoName}
    BY <2>1 DEF Followed
  <2>3. e = [call |-> c, to |-> Resolve(k.file, c, later, known)]
    BY <1>1, <2>1, <2>2
  <2> QED BY <2>1, <2>2, <2>3 DEF Followed, Edges
<1>3. Followed(Edges(k, content, later, known)) \subseteq Followed(Edges(k, content, index, known))
  <2> SUFFICES ASSUME NEW e \in Followed(Edges(k, content, later, known))
               PROVE  e \in Followed(Edges(k, content, index, known))
    OBVIOUS
  <2>1. PICK c \in CallsOf(k, content) : e = [call |-> c, to |-> Resolve(k.file, c, later, known)]
    BY DEF Followed, Edges
  <2>2. {c.name, c.via} \subseteq PlainNames \cup {NoName}
    BY <2>1 DEF Followed
  <2>3. e = [call |-> c, to |-> Resolve(k.file, c, index, known)]
    BY <1>1, <2>1, <2>2
  <2> QED BY <2>1, <2>2, <2>3 DEF Followed, Edges
<1> QED BY <1>2, <1>3

\* A plain name that no function that came or went has keeps its functions.
LEMMA KeptName ==
  ASSUME NEW n \in PlainNames, NEW old, NEW new, old \subseteq nodes,
         nameIndex = IndexOf(nodes), n \notin ChangedNames(old, new)
  PROVE  IndexAfter(old, new)[n] = nameIndex[n]
<1>1. \A k \in (old \ new) \cup (new \ old) : k.name # n
  BY DEF ChangedNames, BareNames
<1>0. n \in Names
  BY NamesAssumption
<1>2. nameIndex[n] = {k \in nodes : k.name = n}
  BY <1>0 DEF IndexOf
<1>3. IndexAfter(old, new)[n] = (nameIndex[n] \ old) \cup {k \in new : k.name = n}
  BY <1>0 DEF IndexAfter
<1> QED BY <1>1, <1>2, <1>3

-----------------------------------------------------------------------------
\* The graph built at the start is right: the invariant holds there.
LEMMA InitGraphInv == GraphInit => GraphInv
<1> SUFFICES ASSUME GraphInit PROVE GraphInv
  OBVIOUS
<1>1. \A f \in Files : /\ KeysOf(f, disk[f]) \subseteq Keys
                       /\ \A k \in KeysOf(f, disk[f]) : k.file = f
  BY KeysOfFile DEF GraphInit
<1>2. GraphTypeOK
  <2>1. nodes \subseteq Keys /\ fileFunctions \in [Files -> SUBSET Keys]
    BY <1>1 DEF GraphInit, KeysIn
  <2>2. nameIndex \in [Names -> SUBSET Keys]
    BY <2>1 DEF GraphInit, IndexOf
  <2>3. 0 \in 0 .. MaxEdits
    BY AbsentAssumption
  <2> QED BY <2>1, <2>2, <2>3 DEF GraphInit, GraphTypeOK
<1>3. IndexesAgree
  <2>1. \A f \in Files : fileFunctions[f] = {k \in nodes : k.file = f}
    BY <1>1 DEF GraphInit, KeysIn
  <2> QED BY <2>1 DEF GraphInit, IndexesAgree
<1>4. ReadIsCurrent /\ GoneIsTold /\ Phases
  <2>1. \A k \in Keys \ nodes : calls[k] = {}
    BY DEF GraphInit, Rebuilt
  <2> QED BY <2>1 DEF GraphInit, ReadIsCurrent, GoneIsTold, Phases
<1>5. CleanIsRebuilt
  <2> SUFFICES ASSUME NEW f \in Files, NEW k \in fileFunctions[f]
               PROVE  calls[k] = Edges(k, disk[f], nameIndex, readWith[f])
    BY DEF CleanIsRebuilt, GraphInit
  <2>1. k \in KeysIn(disk) /\ k.file = f /\ k \in Keys
    BY <1>1 DEF GraphInit, KeysIn
  <2> QED BY <2>1 DEF GraphInit, Rebuilt
<1> QED BY <1>2, <1>3, <1>4, <1>5 DEF GraphInv

-----------------------------------------------------------------------------
\* The update of the changed files: what it takes out is what the graph has of them, and
\* what it leaves is right unless it is put among the callers to read again.
LEMMA UpdateKeepsGraphInv == GraphInv /\ UpdateChanged => GraphInv'
<1> SUFFICES ASSUME GraphInv, UpdateChanged PROVE GraphInv'
  OBVIOUS
<1> DEFINE old == UNION {fileFunctions[f] : f \in changed}
<1> DEFINE new == UNION {KeysOf(f, sources[f]) : f \in changed}
<1> DEFINE kept == nodes \ old
<1> DEFINE known == Known(nodes', declared')
<1>1. /\ changed \subseteq Files /\ nodes \subseteq Keys
      /\ \A f \in Files : fileFunctions[f] = {k \in nodes : k.file = f}
      /\ nameIndex = IndexOf(nodes)
      /\ callers = {}
  BY DEF GraphInv, GraphTypeOK, IndexesAgree, Phases, UpdateChanged
<1>2. \A f \in changed : /\ KeysOf(f, sources[f]) \subseteq Keys
                         /\ \A k \in KeysOf(f, sources[f]) : k.file = f
  BY <1>1, KeysOfFile DEF GraphInv, GraphTypeOK
<1>3. old = {k \in nodes : k.file \in changed}
  BY <1>1
<1>4. new \subseteq Keys /\ \A k \in new : k.file \in changed
  BY <1>2
<1>5. \A f \in changed : KeysOf(f, sources[f]) = {k \in new : k.file = f}
  BY <1>2
<1>6. /\ nodes' = kept \cup new
      /\ fileFunctions' =
           [f \in Files |-> IF f \in changed THEN KeysOf(f, sources[f]) ELSE fileFunctions[f]]
      /\ nameIndex' = IndexAfter(old, new)
      /\ callers' = FilesCalling(ChangedNames(old, new), kept) \ changed
      /\ calls' = [k \in Keys |->
           IF k \in new THEN Edges(k, sources[k.file], nameIndex', known)
           ELSE IF k \in kept THEN calls[k] ELSE {}]
      /\ declared' =
           [f \in Files |-> IF f \in changed THEN DeclaredBy(f, sources[f]) ELSE declared[f]]
      /\ readWith' = [f \in Files |-> IF f \in changed THEN known ELSE readWith[f]]
      /\ changed' = {} /\ sources' = [f \in Files |-> Absent]
      /\ watchAt' = "reread" /\ batch' = batch
      /\ \A f \in Files : batch[f] = "none"
      /\ disk' = disk /\ edits' = edits /\ pending' = pending
  BY DEF UpdateChanged, sourceVars
<1> HIDE DEF old, new, kept, known
<1>7. kept = {k \in nodes : k.file \notin changed}
  BY <1>3 DEF kept
<1>8. nodes' \subseteq Keys
  BY <1>1, <1>4, <1>6, <1>7
<1>9. nameIndex' = IndexOf(nodes')
  <2>1. \A n \in Names : (nameIndex[n] \ old) \cup {k \in new : k.name = n}
                           = {k \in kept \cup new : k.name = n}
    BY <1>1 DEF IndexOf, kept
  <2> QED BY <1>6, <2>1 DEF IndexAfter, IndexOf
<1>10. \A f \in Files : fileFunctions'[f] = {k \in nodes' : k.file = f}
  <2> SUFFICES ASSUME NEW f \in Files PROVE fileFunctions'[f] = {k \in nodes' : k.file = f}
    OBVIOUS
  <2>1. CASE f \in changed
    <3>1. {k \in kept \cup new : k.file = f} = {k \in new : k.file = f}
      BY <1>7, <2>1
    <3> QED BY <1>5, <1>6, <2>1, <3>1
  <2>2. CASE f \notin changed
    <3>1. {k \in kept \cup new : k.file = f} = {k \in nodes : k.file = f}
      BY <1>4, <1>7, <2>2
    <3> QED BY <1>1, <1>6, <2>2, <3>1
  <2> QED BY <2>1, <2>2
<1>11. IndexesAgree'
  BY <1>9, <1>10 DEF IndexesAgree
<1>12. GraphTypeOK'
  <2>1. fileFunctions' \in [Files -> SUBSET Keys]
    BY <1>2, <1>6 DEF GraphInv, GraphTypeOK
  <2>2. nameIndex' \in [Names -> SUBSET Keys]
    BY <1>8, <1>9 DEF IndexOf
  <2>3. callers' \subseteq Files
    BY <1>1, <1>6, <1>7 DEF FilesCalling, Keys
  <2>4. sources' \in [Files -> Contents \cup {Absent}]
    BY <1>6
  <2> QED BY <1>6, <1>8, <2>1, <2>2, <2>3, <2>4 DEF GraphInv, GraphTypeOK
<1>13. ReadIsCurrent' /\ GoneIsTold'
  BY <1>6 DEF GraphInv, ReadIsCurrent, GoneIsTold
<1>14. Phases'
  BY <1>6 DEF Phases
<1>15. CleanIsRebuilt'
  <2>3. disk' = disk
    BY <1>6
  <2> SUFFICES ASSUME NEW f \in Files, (~ Dirty(f))'
               PROVE  /\ fileFunctions'[f] = KeysOf(f, disk[f])
                      /\ declared'[f] = DeclaredBy(f, disk[f])
                      /\ f \notin callers' => \A k \in fileFunctions'[f] :
                           Followed(calls'[k]) =
                             Followed(Edges(k, disk[f], nameIndex', readWith'[f]))
    BY <2>3 DEF CleanIsRebuilt
  <2>0. pending[f] = "none" /\ batch[f] = "none"
    BY <1>6 DEF Dirty
  <2>1. CASE f \in changed
    <3>1. sources[f] = disk[f]
      BY <2>0, <2>1 DEF GraphInv, ReadIsCurrent
    <3>2. fileFunctions'[f] = KeysOf(f, disk[f]) /\ declared'[f] = DeclaredBy(f, disk[f])
      BY <1>6, <2>1, <3>1
    <3>3. \A k \in fileFunctions'[f] : k \in Keys /\ k \in new /\ k.file = f
      BY <1>2, <1>5, <2>1, <3>1, <3>2
    <3>4. readWith'[f] = known
      BY <1>6, <2>1
    <3>5. \A k \in fileFunctions'[f] : calls'[k] = Edges(k, disk[f], nameIndex', known)
      BY <1>6, <3>1, <3>3
    <3> QED BY <3>2, <3>4, <3>5
  <2>2. CASE f \notin changed
    <3>1. ~ Dirty(f)
      BY <2>0, <2>2 DEF Dirty
    <3>2. /\ fileFunctions'[f] = fileFunctions[f] /\ fileFunctions[f] = KeysOf(f, disk[f])
          /\ declared'[f] = declared[f] /\ declared[f] = DeclaredBy(f, disk[f])
          /\ readWith'[f] = readWith[f]
      BY <1>6, <2>2, <3>1 DEF GraphInv, CleanIsRebuilt
    <3>3. SUFFICES ASSUME f \notin callers', NEW k \in fileFunctions[f]
                   PROVE  Followed(calls'[k]) =
                            Followed(Edges(k, disk[f], nameIndex', readWith[f]))
      BY <3>2
    <3>4. k \in kept /\ k \notin new /\ k \in Keys /\ k.file = f
      BY <1>1, <1>4, <1>7, <2>2
    <3>5. calls'[k] = calls[k]
      BY <1>6, <3>4
    <3>6. Followed(calls[k]) = Followed(Edges(k, disk[f], nameIndex, readWith[f]))
      BY <1>1, <3>1 DEF GraphInv, CleanIsRebuilt
    <3>7. f \notin FilesCalling(ChangedNames(old, new), kept)
      BY <1>6, <2>2, <3>3
    <3>8. \A e \in calls[k] : e.call.name \notin ChangedNames(old, new)
      BY <3>4, <3>7 DEF FilesCalling
    <3>9. ASSUME NEW c \in CallsOf(k, disk[f]), {c.name, c.via} \subseteq PlainNames \cup {NoName}
          PROVE  c.name \in PlainNames /\ nameIndex[c.name] = nameIndex'[c.name]
      <4> DEFINE e == [call |-> c, to |-> Resolve(k.file, c, nameIndex, readWith[f])]
      <4>1. e \in Followed(Edges(k, disk[f], nameIndex, readWith[f]))
        <5>1. e \in Edges(k, disk[f], nameIndex, readWith[f])
          BY <3>4 DEF Edges
        <5> QED BY <3>9, <5>1 DEF Followed
      <4>2. e \in calls[k]
        BY <3>6, <4>1 DEF Followed
      <4>3. c.name \notin ChangedNames(old, new)
        BY <3>8, <4>2
      <4>4. c.name \in PlainNames
        BY <3>9, CallNames, NamesAssumption DEF GraphInv, GraphTypeOK
      <4>5. old \subseteq nodes
        BY <1>3
      <4> QED BY <1>1, <1>6, <4>3, <4>4, <4>5, KeptName
    <3>10. ASSUME NEW c \in CallsOf(k, disk[f]), {c.name, c.via} \subseteq PlainNames \cup {NoName},
                  c.via # NoName
           PROVE  nameIndex[c.via] = nameIndex'[c.via]
      <4>1. disk[f] \in Contents \cup {Absent}
        BY DEF GraphInv, GraphTypeOK
      <4>2. /\ InnerCall(c) \in CallsOf(k, disk[f])
            /\ InnerCall(c).name = c.via /\ InnerCall(c).via = NoName
        BY <3>10, <4>1, CallNames
      <4>3. {InnerCall(c).name, InnerCall(c).via} \subseteq PlainNames \cup {NoName}
        BY <3>10, <4>2
      <4> QED BY <3>9, <4>2, <4>3
    <3>11. Followed(Edges(k, disk[f], nameIndex, readWith[f]))
             = Followed(Edges(k, disk[f], nameIndex', readWith[f]))
      BY <3>9, <3>10, SameEdges
    <3> QED BY <3>5, <3>6, <3>11
  <2> QED BY <2>1, <2>2
<1> QED BY <1>11, <1>12, <1>13, <1>14, <1>15 DEF GraphInv

-----------------------------------------------------------------------------
\* An edit makes its file dirty, whatever it leaves there.
LEMMA EditKeepsGraphInv ==
  ASSUME NEW f \in Files, NEW content \in Contents \cup {Absent},
         GraphInv, EditSource(f, content)
  PROVE  GraphInv'
<1>1. /\ disk' = [disk EXCEPT ![f] = content] /\ edits < MaxEdits /\ edits' = edits + 1
      /\ pending' = [pending EXCEPT ![f] = IF content = Absent THEN "deleted" ELSE "written"]
      /\ UNCHANGED <<watchAt, batch, changed, sources, callers>>
      /\ UNCHANGED <<nodes, fileFunctions, nameIndex, calls, declared, readWith>>
  BY DEF EditSource, watchVars, graphVars
<1>2. disk \in [Files -> Contents \cup {Absent}] /\ edits \in 0 .. MaxEdits
      /\ pending \in [Files -> {"none", "written", "deleted"}]
  BY DEF GraphInv, GraphTypeOK
<1>3. GraphTypeOK'
  <2>1. edits' \in 0 .. MaxEdits
    BY <1>1, <1>2, AbsentAssumption
  <2> QED BY <1>1, <1>2, <2>1 DEF GraphInv, GraphTypeOK
<1>4. \A g \in Files \ {f} : disk'[g] = disk[g] /\ pending'[g] = pending[g]
  BY <1>1, <1>2
<1>5. pending'[f] # "none" /\ (pending'[f] = "deleted" <=> disk'[f] = Absent)
  BY <1>1, <1>2
<1>6. IndexesAgree' /\ Phases'
  BY <1>1 DEF GraphInv, IndexesAgree, Phases
<1>7. ReadIsCurrent' /\ GoneIsTold'
  BY <1>1, <1>4, <1>5 DEF GraphInv, ReadIsCurrent, GoneIsTold
<1>8. CleanIsRebuilt'
  <2> SUFFICES ASSUME NEW g \in Files, (~ Dirty(g))'
               PROVE  /\ fileFunctions'[g] = KeysOf(g, disk'[g])
                      /\ declared'[g] = DeclaredBy(g, disk'[g])
                      /\ g \notin callers' => \A k \in fileFunctions'[g] :
                           Followed(calls'[k]) =
                             Followed(Edges(k, disk'[g], nameIndex', readWith'[g]))
    BY DEF CleanIsRebuilt
  <2>1. g # f /\ ~ Dirty(g)
    BY <1>1, <1>4, <1>5 DEF Dirty
  <2> QED BY <1>1, <1>4, <2>1 DEF GraphInv, CleanIsRebuilt
<1> QED BY <1>3, <1>6, <1>7, <1>8 DEF GraphInv

\* A batch taken leaves the same files dirty.
LEMMA TakeKeepsGraphInv == GraphInv /\ TakeChanges => GraphInv'
<1> SUFFICES ASSUME GraphInv, TakeChanges PROVE GraphInv'
  OBVIOUS
<1>1. /\ watchAt = "idle" /\ watchAt' = "read"
      /\ batch' = pending /\ pending' = [f \in Files |-> "none"]
      /\ UNCHANGED <<disk, edits, changed, sources, callers>>
      /\ UNCHANGED <<nodes, fileFunctions, nameIndex, calls, declared, readWith>>
  BY DEF TakeChanges, graphVars
<1>2. changed = {} /\ callers = {} /\ \A f \in Files : batch[f] = "none"
  BY <1>1 DEF GraphInv, Phases
<1>3. GraphTypeOK' /\ IndexesAgree' /\ Phases'
  BY <1>1, <1>2 DEF GraphInv, GraphTypeOK, IndexesAgree, Phases
<1>4. ReadIsCurrent' /\ GoneIsTold'
  BY <1>1, <1>2 DEF GraphInv, ReadIsCurrent, GoneIsTold
<1>5. \A f \in Files : (~ Dirty(f))' => ~ Dirty(f)
  BY <1>1, <1>2 DEF Dirty
<1>6. CleanIsRebuilt'
  BY <1>1, <1>5 DEF GraphInv, CleanIsRebuilt
<1> QED BY <1>3, <1>4, <1>6 DEF GraphInv

\* A file read stays dirty: it is among the changed, or an event of it is to come.
LEMMA ReadKeepsGraphInv ==
  ASSUME NEW f \in Files, GraphInv, ReadChanged(f)
  PROVE  GraphInv'
<1>1. /\ watchAt = "read" /\ batch[f] # "none" /\ batch' = [batch EXCEPT ![f] = "none"]
      /\ UNCHANGED <<disk, edits, pending, watchAt, callers>>
      /\ UNCHANGED <<nodes, fileFunctions, nameIndex, calls, declared, readWith>>
  BY DEF ReadChanged, sourceVars, graphVars
<1>2. /\ disk \in [Files -> Contents \cup {Absent}]
      /\ batch \in [Files -> {"none", "written", "deleted"}]
      /\ sources \in [Files -> Contents \cup {Absent}]
      /\ changed \subseteq Files
  BY DEF GraphInv, GraphTypeOK
<1>3. pending[f] = "none" => (batch[f] = "deleted" <=> disk[f] = Absent)
  BY <1>1 DEF GraphInv, GoneIsTold
<1>4. \/ pending[f] # "none" /\ changed' = changed /\ sources' = sources
      \/ /\ changed' = changed \cup {f}
         /\ \/ sources' = [sources EXCEPT ![f] = disk[f]]
            \/ sources' = [sources EXCEPT ![f] = Absent] /\ batch[f] = "deleted"
  BY <1>2, <1>3 DEF ReadChanged
<1>5. GraphTypeOK'
  BY <1>1, <1>2, <1>4 DEF GraphInv, GraphTypeOK
<1>6. \A g \in Files \ {f} : /\ batch'[g] = batch[g] /\ sources'[g] = sources[g]
                             /\ g \in changed' <=> g \in changed
  BY <1>1, <1>2, <1>4
<1>7. f \in changed' /\ pending[f] = "none" => sources'[f] = disk[f]
  BY <1>2, <1>3, <1>4
<1>8. ReadIsCurrent'
  BY <1>1, <1>6, <1>7 DEF GraphInv, ReadIsCurrent
<1>9. GoneIsTold'
  BY <1>1, <1>2, <1>6 DEF GraphInv, GoneIsTold
<1>10. IndexesAgree' /\ Phases'
  BY <1>1 DEF GraphInv, IndexesAgree, Phases
<1>11. \A g \in Files : (~ Dirty(g))' => ~ Dirty(g)
  BY <1>1, <1>4, <1>6 DEF Dirty
<1>12. CleanIsRebuilt'
  BY <1>1, <1>11 DEF GraphInv, CleanIsRebuilt
<1> QED BY <1>5, <1>8, <1>9, <1>10, <1>12 DEF GraphInv

\* A caller read again is right when its file is clean, and no other file is touched.
LEMMA RereadKeepsGraphInv ==
  ASSUME NEW f \in Files, GraphInv, Reread(f)
  PROVE  GraphInv'
<1>1. /\ watchAt = "reread" /\ callers' = callers \ {f}
      /\ UNCHANGED <<disk, edits, pending, watchAt, batch, changed, sources>>
      /\ UNCHANGED <<nodes, fileFunctions, nameIndex, declared>>
  BY DEF Reread, sourceVars
<1>0. IF disk[f] = Absent THEN UNCHANGED <<calls, readWith>>
      ELSE /\ calls' = [k \in Keys |->
                IF k \in fileFunctions[f]
                THEN Edges(k, disk[f], nameIndex, Known(nodes, declared)) ELSE calls[k]]
           /\ readWith' = [readWith EXCEPT ![f] = Known(nodes, declared)]
  BY DEF Reread
<1>2. /\ nodes \subseteq Keys
      /\ \A g \in Files : fileFunctions[g] = {k \in nodes : k.file = g}
  BY DEF GraphInv, GraphTypeOK, IndexesAgree
<1>3. GraphTypeOK' /\ IndexesAgree' /\ ReadIsCurrent' /\ GoneIsTold'
  <2>1. readWith' = [g \in Files |-> readWith'[g]]
    BY <1>0 DEF GraphInv, GraphTypeOK
  <2> QED BY <1>1, <2>1 DEF GraphInv, GraphTypeOK, IndexesAgree, ReadIsCurrent, GoneIsTold
<1>4. Phases'
  <2>1. \A k \in Keys \ nodes : calls'[k] = {}
    BY <1>0, <1>2 DEF GraphInv, Phases
  <2> QED BY <1>1, <2>1 DEF GraphInv, Phases
<1>5. CleanIsRebuilt'
  <2> SUFFICES ASSUME NEW g \in Files, (~ Dirty(g))'
               PROVE  /\ fileFunctions[g] = KeysOf(g, disk[g])
                      /\ declared[g] = DeclaredBy(g, disk[g])
                      /\ g \notin callers' => \A k \in fileFunctions[g] :
                           Followed(calls'[k]) =
                             Followed(Edges(k, disk[g], nameIndex, readWith'[g]))
    BY <1>1 DEF CleanIsRebuilt
  <2>1. ~ Dirty(g)
    BY <1>1 DEF Dirty
  <2>2. fileFunctions[g] = KeysOf(g, disk[g]) /\ declared[g] = DeclaredBy(g, disk[g])
    BY <2>1 DEF GraphInv, CleanIsRebuilt
  <2>3. ASSUME g \notin callers', NEW k \in fileFunctions[g]
        PROVE  Followed(calls'[k]) = Followed(Edges(k, disk[g], nameIndex, readWith'[g]))
    <3>1. k \in Keys /\ k.file = g
      BY <1>2
    <3>2. CASE g = f
      <4>1. disk[f] # Absent
        BY <2>2, <2>3, <3>2 DEF KeysOf
      <4>2. readWith'[f] = Known(nodes, declared)
        BY <1>0, <4>1 DEF GraphInv, GraphTypeOK
      <4>3. calls'[k] = Edges(k, disk[f], nameIndex, Known(nodes, declared))
        BY <1>0, <2>3, <3>1, <3>2, <4>1
      <4> QED BY <3>2, <4>2, <4>3
    <3>3. CASE g # f
      <4>1. g \notin callers /\ k \notin fileFunctions[f]
        BY <1>1, <1>2, <2>3, <3>1, <3>3
      <4>2. calls'[k] = calls[k]
        BY <1>0, <3>1, <4>1
      <4>3. readWith'[g] = readWith[g]
        BY <1>0, <3>3 DEF GraphInv, GraphTypeOK
      <4> QED BY <2>1, <2>3, <4>1, <4>2, <4>3 DEF GraphInv, CleanIsRebuilt
    <3> QED BY <3>2, <3>3
  <2> QED BY <2>2, <2>3
<1> QED BY <1>3, <1>4, <1>5 DEF GraphInv

LEMMA UpdatedKeepsGraphInv == GraphInv /\ Updated => GraphInv'
<1> SUFFICES ASSUME GraphInv, Updated PROVE GraphInv'
  OBVIOUS
<1>1. /\ watchAt' = "idle" /\ callers = {}
      /\ UNCHANGED <<disk, edits, pending, batch, changed, sources, callers>>
      /\ UNCHANGED <<nodes, fileFunctions, nameIndex, calls, declared, readWith>>
      /\ watchAt = "reread"
  BY DEF Updated, sourceVars, graphVars
<1>2. GraphTypeOK' /\ IndexesAgree' /\ ReadIsCurrent' /\ GoneIsTold'
  BY <1>1 DEF GraphInv, GraphTypeOK, IndexesAgree, ReadIsCurrent, GoneIsTold
<1>3. Phases'
  BY <1>1 DEF GraphInv, Phases
<1>4. CleanIsRebuilt'
  BY <1>1 DEF GraphInv, CleanIsRebuilt, Dirty
<1> QED BY <1>2, <1>3, <1>4 DEF GraphInv

-----------------------------------------------------------------------------
\* The inductive invariant of the incremental update (update_call_graph): a clean file's
\* calls are those to the functions there are, by the types known when it was last read.
THEOREM GraphInvHolds == GraphSpec => []GraphInv
<1>1. GraphInit => GraphInv
  BY InitGraphInv
<1>2. GraphInv /\ [GraphNext]_callGraphVars => GraphInv'
  <2> SUFFICES ASSUME GraphInv, [GraphNext]_callGraphVars PROVE GraphInv'
    OBVIOUS
  <2>1. ASSUME NEW f \in Files, ReadChanged(f) PROVE GraphInv'
    BY <2>1, ReadKeepsGraphInv
  <2>2. ASSUME NEW f \in Files, Reread(f) PROVE GraphInv'
    BY <2>2, RereadKeepsGraphInv
  <2>3. ASSUME NEW f \in Files, NEW content \in Contents \cup {Absent}, EditSource(f, content)
        PROVE  GraphInv'
    BY <2>3, EditKeepsGraphInv
  <2>4. CASE TakeChanges
    BY <2>4, TakeKeepsGraphInv
  <2>5. CASE UpdateChanged
    BY <2>5, UpdateKeepsGraphInv
  <2>6. CASE Updated
    BY <2>6, UpdatedKeepsGraphInv
  <2>7. CASE UNCHANGED callGraphVars
    BY <2>7 DEF callGraphVars, sourceVars, watchVars, graphVars, GraphInv, GraphTypeOK,
                IndexesAgree, ReadIsCurrent, GoneIsTold, CleanIsRebuilt, Phases, Dirty
  <2> QED BY <2>1, <2>2, <2>3, <2>4, <2>5, <2>6, <2>7 DEF GraphNext
<1> QED BY <1>1, <1>2, PTL DEF GraphSpec

\* The maps of the graph agree at every step of the update (insert_node,
\* remove_functions_for_file).
THEOREM IndexesAlwaysAgree == GraphSpec => []IndexesAgree
<1>1. GraphInv => IndexesAgree
  BY DEF GraphInv
<1> QED BY <1>1, GraphInvHolds, PTL

\* With nothing left to do, the watcher's graph is the one a build from nothing makes of
\* the same files by the types known when each was last read, but for calls with a name
\* that bare_name cannot take apart (update_call_graph).
THEOREM SettledGraphIsRebuilt == GraphSpec => []SettledIsRebuilt
<1>1. GraphInv => SettledIsRebuilt
  <2> SUFFICES ASSUME GraphInv, Settled
               PROVE  /\ nodes = KeysIn(disk) /\ Known(nodes, declared) = KnownOf(disk)
                      /\ \A k \in Keys : Followed(calls[k]) = Followed(Rebuilt(disk, readWith)[k])
    BY DEF SettledIsRebuilt
  <2>1. \A f \in Files : ~ Dirty(f) /\ f \notin callers
    BY DEF GraphInv, Phases, Settled, Dirty
  <2>2. \A f \in Files :
          /\ fileFunctions[f] = KeysOf(f, disk[f]) /\ declared[f] = DeclaredBy(f, disk[f])
          /\ \A k \in fileFunctions[f] :
               Followed(calls[k]) = Followed(Edges(k, disk[f], nameIndex, readWith[f]))
    BY <2>1 DEF GraphInv, CleanIsRebuilt
  <2>3. /\ nodes \subseteq Keys
        /\ \A f \in Files : fileFunctions[f] = {k \in nodes : k.file = f}
        /\ nameIndex = IndexOf(nodes)
    BY DEF GraphInv, GraphTypeOK, IndexesAgree
  <2>4. \A k \in nodes : k.file \in Files
    BY <2>3 DEF Keys
  <2>5. nodes = KeysIn(disk)
    BY <2>2, <2>3, <2>4 DEF KeysIn
  <2>6. Known(nodes, declared) = KnownOf(disk)
    <3>1. declared = [f \in Files |-> DeclaredBy(f, disk[f])]
      BY <2>2 DEF GraphInv, GraphTypeOK
    <3> QED BY <2>5, <3>1 DEF KnownOf
  <2>7. ASSUME NEW k \in Keys PROVE Followed(calls[k]) = Followed(Rebuilt(disk, readWith)[k])
    <3>1. CASE k \in nodes
      <4>1. Followed(calls[k]) = Followed(Edges(k, disk[k.file], nameIndex, readWith[k.file]))
        BY <2>2, <2>3, <2>4, <3>1
      <4>2. Rebuilt(disk, readWith)[k] = Edges(k, disk[k.file], nameIndex, readWith[k.file])
        BY <2>3, <2>5, <3>1 DEF Rebuilt
      <4> QED BY <4>1, <4>2
    <3>2. CASE k \notin nodes
      <4>1. calls[k] = {}
        BY <3>2 DEF GraphInv, Phases
      <4>2. Rebuilt(disk, readWith)[k] = {}
        BY <2>5, <3>2 DEF Rebuilt
      <4> QED BY <4>1, <4>2
    <3> QED BY <3>1, <3>2
  <2> QED BY <2>5, <2>6, <2>7
<1> QED BY <1>1, GraphInvHolds, PTL
=============================================================================
