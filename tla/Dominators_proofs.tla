--------------------------- MODULE Dominators_proofs ---------------------------
(***************************************************************************)
(* The dominators that compute_dominators leaves are dominators, for every *)
(* control flow graph and every order in which its passes take the blocks. *)
(*                                                                         *)
(* The argument: the dominators kept form a tree with the entry as its     *)
(* root at every moment, so the two fingers of intersect_dominators meet   *)
(* at a block above both.  When a pass changes nothing, the dominator of   *)
(* each block is above all the blocks that lead to it, and what is not     *)
(* above a block is avoided by some path to it.                            *)
(***************************************************************************)
EXTENDS DataFlow_proofs

-----------------------------------------------------------------------------
(* The tree.                                                               *)

Rooted == 0 \in DOMAIN idom /\ idom[0] = 0 /\ idom \in [DOMAIN idom -> DOMAIN idom]

\* The blocks got their dominators one after another: each after its dominator and after a
\* block that leads to it.
IsRank(t) ==
  /\ t \in [DOMAIN idom -> Nat]
  /\ \A x \in DOMAIN idom \ {0} :
       t[idom[x]] < t[x] /\ \E p \in Predecessors(x) \cap DOMAIN idom : t[p] < t[x]
Ranked == \E t : \E M \in Nat : IsRank(t) /\ \A x \in DOMAIN idom : t[x] < M

\* a is x, its dominator, its dominator's dominator ...
Above(a, x) ==
  \A U \in SUBSET DOMAIN idom : x \in U /\ (\A y \in U : idom[y] \in U) => a \in U

LEMMA AboveMeans ==
  ASSUME Rooted
  PROVE  /\ \A x \in DOMAIN idom : Above(x, x)
         /\ \A x \in DOMAIN idom : \A a : Above(a, x) => a \in DOMAIN idom
         /\ \A x \in DOMAIN idom : \A a : Above(a, idom[x]) => Above(a, x)
         /\ \A x \in DOMAIN idom : \A a : Above(a, x) => a = x \/ Above(a, idom[x])
         /\ \A x, y \in DOMAIN idom : \A a : Above(a, y) /\ Above(y, x) => Above(a, x)
         /\ \A a : Above(a, 0) => a = 0
<1>1. \A x \in DOMAIN idom : Above(x, x)
  BY DEF Above
<1>2. \A x \in DOMAIN idom : \A a : Above(a, x) => a \in DOMAIN idom
  BY DEF Above, Rooted
<1>3. \A x \in DOMAIN idom : \A a : Above(a, idom[x]) => Above(a, x)
  BY DEF Above
<1>4. ASSUME NEW x \in DOMAIN idom, NEW a, Above(a, x), a # x
      PROVE  Above(a, idom[x])
  <2> SUFFICES ASSUME NEW U \in SUBSET DOMAIN idom, idom[x] \in U, \A y \in U : idom[y] \in U
               PROVE  a \in U
    BY DEF Above
  <2> DEFINE W == U \cup {x}
  <2>1. W \in SUBSET DOMAIN idom /\ x \in W /\ \A y \in W : idom[y] \in W
    OBVIOUS
  <2> HIDE DEF W
  <2>2. a \in W
    BY <2>1, <1>4 DEF Above
  <2> QED BY <2>2, <1>4 DEF W
<1>5. \A x, y \in DOMAIN idom : \A a : Above(a, y) /\ Above(y, x) => Above(a, x)
  BY DEF Above
<1>6. ASSUME NEW a, Above(a, 0)
      PROVE  a = 0
  <2>1. {0} \in SUBSET DOMAIN idom /\ 0 \in {0} /\ \A y \in {0} : idom[y] \in {0}
    BY DEF Rooted
  <2>2. a \in {0}
    BY <2>1, <1>6 DEF Above
  <2> QED BY <2>2
<1> QED BY <1>1, <1>2, <1>3, <1>4, <1>5, <1>6

\* What is above a block did not get its dominator later.
LEMMA AboveIsEarlier ==
  ASSUME Rooted, NEW t, IsRank(t), NEW x \in DOMAIN idom, NEW a, Above(a, x)
  PROVE  a \in DOMAIN idom /\ t[a] <= t[x]
<1> DEFINE U == {y \in DOMAIN idom : t[y] <= t[x]}
<1>1. U \in SUBSET DOMAIN idom /\ x \in U
  BY DEF IsRank
<1>2. ASSUME NEW y \in U
      PROVE  idom[y] \in U
  <2>1. y = 0 => idom[y] = y
    BY DEF Rooted
  <2>2. y # 0 => t[idom[y]] < t[y]
    BY DEF IsRank
  <2>3. idom[y] \in DOMAIN idom /\ t[idom[y]] \in Nat /\ t[y] \in Nat /\ t[x] \in Nat
    BY DEF Rooted, IsRank
  <2> QED BY <2>1, <2>2, <2>3
<1> HIDE DEF U
<1>3. a \in U
  BY <1>1, <1>2 DEF Above
<1> QED BY <1>3 DEF U

-----------------------------------------------------------------------------
(* The fingers of intersect_dominators meet, above both blocks.            *)

Met(f, at) ==
  IF at[1] = at[2] THEN at[1]
  ELSE IF at[1] > at[2] THEN f[<<idom[at[1]], at[2]>>] ELSE f[<<at[1], idom[at[2]]>>]
IsMeet(f) == f = [at \in (DOMAIN idom) \X (DOMAIN idom) |-> Met(f, at)]

\* One finger's step.
LEMMA FingerSteps ==
  ASSUME Rooted, DOMAIN idom \subseteq Nat, NEW t, IsRank(t),
         NEW x \in DOMAIN idom, NEW y \in DOMAIN idom, x # y
  PROVE  /\ x > y => idom[x] \in DOMAIN idom /\ t[idom[x]] + t[y] < t[x] + t[y]
         /\ ~ (x > y) => idom[y] \in DOMAIN idom /\ t[x] + t[idom[y]] < t[x] + t[y]
<1>1. \A z \in DOMAIN idom : t[z] \in Nat /\ idom[z] \in DOMAIN idom /\ (z # 0 => t[idom[z]] < t[z])
  BY DEF Rooted, IsRank
<1>2. x \in Nat /\ y \in Nat
  OBVIOUS
<1>3. (x > y => x # 0) /\ (~ (x > y) => y # 0)
  BY <1>2
<1> QED BY <1>1, <1>3

LEMMA MeetExists ==
  ASSUME Rooted, DOMAIN idom \subseteq Nat, Ranked
  PROVE  \E f : IsMeet(f)
<1>0. PICK t : \E M \in Nat : IsRank(t) /\ \A x \in DOMAIN idom : t[x] < M
  BY DEF Ranked
<1>1. PICK M \in Nat : IsRank(t) /\ \A x \in DOMAIN idom : t[x] < M
  BY <1>0
<1> DEFINE D == DOMAIN idom
           Body(f, x, y) == IF x = y THEN x ELSE IF x > y THEN f[<<idom[x], y>>] ELSE f[<<x, idom[y]>>]
           Good(f, n) == /\ f \in [D \X D -> D]
                         /\ \A x, y \in D : t[x] + t[y] < n => f[<<x, y>>] = Body(f, x, y)
           T == {n \in Nat : \E f : Good(f, n)}
<1>2. \A x \in D : t[x] \in Nat /\ t[x] < M /\ idom[x] \in D
  BY <1>1 DEF IsRank, Rooted
<1>3. 0 \in T
  <2>1. Good([p \in D \X D |-> 0], 0)
    BY <1>2 DEF Rooted
  <2> QED BY <2>1
<1>4. ASSUME NEW n \in T
      PROVE  n + 1 \in T
  <2>1. PICK f : Good(f, n)
    OBVIOUS
  <2> DEFINE g == [at \in D \X D |-> IF t[at[1]] + t[at[2]] < n THEN f[at] ELSE Body(f, at[1], at[2])]
  <2>2. \A x, y \in D : Body(f, x, y) \in D
    BY <2>1, <1>2
  <2>3. \A x, y \in D : g[<<x, y>>] = IF t[x] + t[y] < n THEN f[<<x, y>>] ELSE Body(f, x, y)
    OBVIOUS
  <2>4. g \in [D \X D -> D]
    BY <2>1, <2>2
  <2>5. \A x, y \in D : g[<<x, y>>] = Body(f, x, y)
    <3> SUFFICES ASSUME NEW x \in D, NEW y \in D
                 PROVE  g[<<x, y>>] = Body(f, x, y)
      OBVIOUS
    <3>1. t[x] + t[y] < n => f[<<x, y>>] = Body(f, x, y)
      BY <2>1
    <3> HIDE DEF g, Body
    <3> QED BY <3>1, <2>3
  <2> HIDE DEF g
  <2>6. ASSUME NEW x \in D, NEW y \in D, t[x] + t[y] < n + 1
        PROVE  Body(g, x, y) = Body(f, x, y)
    <3>1. n \in Nat /\ t[x] + t[y] \in Nat
      BY <1>2
    <3>2. CASE x = y
      BY <3>2
    <3>3. CASE x # y /\ x > y
      <4>1. idom[x] \in D /\ t[idom[x]] + t[y] < t[x] + t[y] /\ t[idom[x]] + t[y] \in Nat
        BY <3>3, <1>1, <1>2, FingerSteps
      <4>2. t[idom[x]] + t[y] < n
        BY <4>1, <3>1, <2>6
      <4>3. g[<<idom[x], y>>] = f[<<idom[x], y>>]
        BY <4>1, <4>2, <2>3
      <4> QED BY <4>3, <3>3
    <3>4. CASE x # y /\ ~ (x > y)
      <4>1. idom[y] \in D /\ t[x] + t[idom[y]] < t[x] + t[y] /\ t[x] + t[idom[y]] \in Nat
        BY <3>4, <1>1, <1>2, FingerSteps
      <4>2. t[x] + t[idom[y]] < n
        BY <4>1, <3>1, <2>6
      <4>3. g[<<x, idom[y]>>] = f[<<x, idom[y]>>]
        BY <4>1, <4>2, <2>3
      <4> QED BY <4>3, <3>4
    <3> QED BY <3>2, <3>3, <3>4
  <2>7. Good(g, n + 1)
    BY <2>4, <2>5, <2>6
  <2> HIDE DEF Good
  <2> QED BY <2>7
<1> HIDE DEF T
<1>5. T = Nat
  <2>1. T \in SUBSET Nat
    BY DEF T
  <2> QED BY <2>1, <1>3, <1>4, Climb
<1>6. M + M \in T
  BY <1>5, <1>1
<1>7. PICK f : Good(f, M + M)
  BY <1>6 DEF T
<1>8. \A x, y \in D : f[<<x, y>>] = Body(f, x, y)
  <2> SUFFICES ASSUME NEW x \in D, NEW y \in D
               PROVE  f[<<x, y>>] = Body(f, x, y)
    OBVIOUS
  <2>1. t[x] + t[y] < M + M
    BY <1>1, <1>2
  <2> HIDE DEF Body
  <2> QED BY <1>7, <2>1
<1>9. \A at \in D \X D : f[at] = Met(f, at)
  BY <1>8 DEF Met
<1>10. f \in [D \X D -> D]
  BY <1>7
<1> HIDE DEF Body, Good
<1>11. f = [at \in D \X D |-> Met(f, at)]
  BY <1>9, <1>10
<1> QED BY <1>11 DEF IsMeet

LEMMA MeetIsAbove ==
  ASSUME Rooted, DOMAIN idom \subseteq Nat, Ranked,
         NEW b1 \in DOMAIN idom, NEW b2 \in DOMAIN idom
  PROVE  /\ Meet(b1, b2) \in DOMAIN idom
         /\ Above(Meet(b1, b2), b1) /\ Above(Meet(b1, b2), b2)
<1> DEFINE D == DOMAIN idom
           f == CHOOSE g : IsMeet(g)
<1>1. IsMeet(f)
  BY MeetExists
<1>2. Meet(b1, b2) = f[<<b1, b2>>]
  BY DEF Meet, IsMeet, Met
<1> HIDE DEF f
<1>0. PICK t : \E M \in Nat : IsRank(t) /\ \A x \in D : t[x] < M
  BY DEF Ranked
<1>3. PICK M \in Nat : IsRank(t) /\ \A x \in D : t[x] < M
  BY <1>0
<1>4. \A x \in D : t[x] \in Nat /\ t[x] < M /\ idom[x] \in D
  BY <1>3 DEF IsRank, Rooted
<1>5. \A x, y \in D : f[<<x, y>>] = IF x = y THEN x ELSE IF x > y THEN f[<<idom[x], y>>] ELSE f[<<x, idom[y]>>]
  <2>1. \A at \in D \X D : f[at] = Met(f, at)
    BY <1>1 DEF IsMeet
  <2> SUFFICES ASSUME NEW x \in D, NEW y \in D
               PROVE  f[<<x, y>>] = IF x = y THEN x ELSE IF x > y THEN f[<<idom[x], y>>] ELSE f[<<x, idom[y]>>]
    OBVIOUS
  <2>2. <<x, y>> \in D \X D /\ <<x, y>>[1] = x /\ <<x, y>>[2] = y
    OBVIOUS
  <2> QED BY <2>1, <2>2 DEF Met
<1> DEFINE Right(x, y) == f[<<x, y>>] \in D /\ Above(f[<<x, y>>], x) /\ Above(f[<<x, y>>], y)
           T == {n \in Nat : \A x, y \in D : t[x] + t[y] < n => Right(x, y)}
<1>6. 0 \in T
  BY <1>4
<1>7. ASSUME NEW n \in T
      PROVE  n + 1 \in T
  <2> SUFFICES ASSUME NEW x \in D, NEW y \in D, t[x] + t[y] < n + 1
               PROVE  Right(x, y)
    OBVIOUS
  <2>1. n \in Nat /\ t[x] + t[y] \in Nat
    BY <1>4
  <2>2. CASE x = y
    <3>1. f[<<x, y>>] = x
      BY <2>2, <1>5
    <3> QED BY <2>2, <3>1, AboveMeans
  <2>3. CASE x # y /\ x > y
    <3>1. idom[x] \in D /\ t[idom[x]] + t[y] < t[x] + t[y] /\ t[idom[x]] + t[y] \in Nat
      BY <2>3, <1>3, <1>4, FingerSteps
    <3>2. t[idom[x]] + t[y] < n
      BY <3>1, <2>1
    <3>3. Right(idom[x], y)
      BY <3>1, <3>2
    <3>4. f[<<x, y>>] = f[<<idom[x], y>>]
      BY <2>3, <1>5
    <3> QED BY <3>3, <3>4, AboveMeans
  <2>4. CASE x # y /\ ~ (x > y)
    <3>1. idom[y] \in D /\ t[x] + t[idom[y]] < t[x] + t[y] /\ t[x] + t[idom[y]] \in Nat
      BY <2>4, <1>3, <1>4, FingerSteps
    <3>2. t[x] + t[idom[y]] < n
      BY <3>1, <2>1
    <3>3. Right(x, idom[y])
      BY <3>1, <3>2
    <3>4. f[<<x, y>>] = f[<<x, idom[y]>>]
      BY <2>4, <1>5
    <3> QED BY <3>3, <3>4, AboveMeans
  <2> QED BY <2>2, <2>3, <2>4
<1> HIDE DEF T
<1>8. T = Nat
  <2>1. T \in SUBSET Nat
    BY DEF T
  <2> QED BY <2>1, <1>6, <1>7, Climb
<1>9. M + M \in T /\ t[b1] + t[b2] < M + M
  BY <1>8, <1>4
<1>10. Right(b1, b2)
  BY <1>9 DEF T
<1> QED BY <1>10, <1>2

-----------------------------------------------------------------------------
(* What compute_dominators assigns to a block is above all that lead to it. *)

\* The edges that Entering finds come from the predecessors that have a dominator.
LEMMA EnteringMeans ==
  ASSUME IsGraph(graph), NEW b \in Blocks
  PROVE  /\ Entering(b) \subseteq 1 .. Len(graph.edges) /\ Len(graph.edges) \in Nat
         /\ \A i \in Entering(b) : graph.edges[i][1] \in Predecessors(b) \cap DOMAIN idom
         /\ \A p \in Predecessors(b) \cap DOMAIN idom : \E i \in Entering(b) : graph.edges[i][1] = p
<1>1. DOMAIN graph.edges = 1 .. Len(graph.edges) /\ Len(graph.edges) \in Nat
  BY DEF IsGraph
<1>2. \A i \in DOMAIN graph.edges : /\ graph.edges[i] \in Blocks \X Blocks
                                    /\ graph.edges[i] = <<graph.edges[i][1], graph.edges[i][2]>>
  BY <1>1 DEF IsGraph, Blocks
<1>3. Edges = {graph.edges[i] : i \in DOMAIN graph.edges}
  BY DEF Edges, Range
<1>4. ASSUME NEW i \in Entering(b)
      PROVE  graph.edges[i][1] \in Predecessors(b) \cap DOMAIN idom
  <2>1. i \in DOMAIN graph.edges /\ graph.edges[i][2] = b /\ graph.edges[i][1] \in DOMAIN idom
    BY DEF Entering
  <2>2. graph.edges[i] \in Edges /\ graph.edges[i] = <<graph.edges[i][1], b>>
    BY <2>1, <1>2, <1>3
  <2> QED BY <2>1, <2>2, EdgesArePairs DEF Predecessors
<1>5. ASSUME NEW p \in Predecessors(b) \cap DOMAIN idom
      PROVE  \E i \in Entering(b) : graph.edges[i][1] = p
  <2>1. <<p, b>> \in Edges
    BY DEF Predecessors
  <2>2. PICK i \in DOMAIN graph.edges : graph.edges[i] = <<p, b>>
    BY <2>1, <1>3
  <2> QED BY <2>2 DEF Entering
<1> QED BY <1>1, <1>4, <1>5 DEF Entering

IsMet(f, b) ==
  f = [n \in Nat |->
         IF n = 0 THEN graph.edges[Min(Entering(b))][1]
         ELSE IF n \in Entering(b) THEN Meet(graph.edges[n][1], f[n - 1]) ELSE f[n - 1]]

LEMMA MetExists ==
  ASSUME IsGraph(graph), Rooted, DOMAIN idom \subseteq Nat, Ranked,
         NEW b \in Blocks, Entering(b) # {}
  PROVE  \E f \in [Nat -> DOMAIN idom] : IsMet(f, b)
<1> DEFINE D == DOMAIN idom
           s == graph.edges[Min(Entering(b))][1]
           F == [p \in Nat \X D |-> IF p[1] \in Entering(b) THEN Meet(graph.edges[p[1]][1], p[2]) ELSE p[2]]
<1>1. s \in D
  <2>1. Entering(b) \in SUBSET Nat
    BY EnteringMeans
  <2>2. \E n \in Entering(b) : \A m \in Entering(b) : n <= m
    BY <2>1, Smallest
  <2>3. Min(Entering(b)) \in Entering(b)
    BY <2>2 DEF Min
  <2> QED BY <2>3, EnteringMeans
<1>2. F \in [Nat \X D -> D]
  <2>1. ASSUME NEW n \in Nat, NEW x \in D
        PROVE  (IF n \in Entering(b) THEN Meet(graph.edges[n][1], x) ELSE x) \in D
    BY EnteringMeans, MeetIsAbove
  <2> QED BY <2>1
<1>3. \A n \in Nat : \A x \in D :
        F[<<n, x>>] = IF n \in Entering(b) THEN Meet(graph.edges[n][1], x) ELSE x
  OBVIOUS
<1> HIDE DEF s, F, D
<1>4. PICK f \in [Nat -> D] : IsIteration(f, s, F)
  BY <1>1, <1>2, Iterates
<1> DEFINE Next(n) == IF n = 0 THEN s
                      ELSE IF n \in Entering(b) THEN Meet(graph.edges[n][1], f[n - 1]) ELSE f[n - 1]
<1>5. ASSUME NEW n \in Nat
      PROVE  f[n] = Next(n)
  <2>1. CASE n = 0
    BY <2>1, <1>4 DEF IsIteration
  <2>2. CASE n # 0
    <3>1. n - 1 \in Nat /\ f[n - 1] \in D
      BY <2>2
    <3>2. f[n] = F[<<n, f[n - 1]>>]
      BY <2>2, <1>4 DEF IsIteration
    <3> QED BY <2>2, <3>1, <3>2, <1>3
  <2> QED BY <2>1, <2>2
<1>6. f = [n \in Nat |-> Next(n)]
  <2> HIDE DEF Next
  <2> QED BY <1>5
<1>7. IsMet(f, b)
  BY <1>6 DEF IsMet, s
<1> QED BY <1>7 DEF D

LEMMA CommonIsAbove ==
  ASSUME IsGraph(graph), Rooted, DOMAIN idom \subseteq Nat, Ranked,
         NEW b \in Blocks, Entering(b) # {}
  PROVE  /\ Common(b) \in DOMAIN idom
         /\ \A p \in Predecessors(b) \cap DOMAIN idom : Above(Common(b), p)
<1> DEFINE D == DOMAIN idom
           f == CHOOSE g : IsMet(g, b)
           N == Len(graph.edges)
<1>1. IsMet(f, b)
  BY MetExists
<1>2. Common(b) = f[N]
  BY DEF Common, IsMet
<1> HIDE DEF f
<1> DEFINE Next(n) == IF n = 0 THEN graph.edges[Min(Entering(b))][1]
                      ELSE IF n \in Entering(b) THEN Meet(graph.edges[n][1], f[n - 1]) ELSE f[n - 1]
<1>3. \A n \in Nat : f[n] = Next(n)
  <2>1. f = [n \in Nat |-> Next(n)]
    BY <1>1 DEF IsMet
  <2> HIDE DEF Next
  <2> QED BY <2>1
<1> DEFINE Right(n) == /\ f[n] \in D
                       /\ \A i \in Entering(b) : i <= n => Above(f[n], graph.edges[i][1])
           T == {n \in Nat : Right(n)}
<1>4. Entering(b) \subseteq 1 .. N /\ N \in Nat /\ \A i \in Entering(b) : graph.edges[i][1] \in D
  BY EnteringMeans
<1> HIDE DEF N
<1>5. 0 \in T
  <2>1. \E n \in Entering(b) : \A m \in Entering(b) : n <= m
    <3>1. Entering(b) \in SUBSET Nat
      BY <1>4
    <3> QED BY <3>1, Smallest
  <2>2. Min(Entering(b)) \in Entering(b)
    BY <2>1 DEF Min
  <2>3. f[0] = graph.edges[Min(Entering(b))][1]
    BY <1>3
  <2>4. \A i \in Entering(b) : ~ (i <= 0)
    BY <1>4
  <2> QED BY <2>2, <2>3, <2>4, <1>4
<1>6. ASSUME NEW n \in T
      PROVE  n + 1 \in T
  <2>1. f[n + 1] = IF n + 1 \in Entering(b) THEN Meet(graph.edges[n + 1][1], f[n]) ELSE f[n]
    <3>1. n + 1 \in Nat /\ n + 1 # 0 /\ n + 1 - 1 = n
      OBVIOUS
    <3> QED BY <3>1, <1>3
  <2>2. Right(n) /\ \A i \in Entering(b) : i <= n + 1 => i <= n \/ i = n + 1
    BY <1>4
  <2>3. CASE n + 1 \notin Entering(b)
    <3>1. Right(n + 1)
      BY <2>1, <2>2, <2>3
    <3> QED BY <3>1
  <2>4. CASE n + 1 \in Entering(b)
    <3>1. f[n + 1] = Meet(graph.edges[n + 1][1], f[n]) /\ graph.edges[n + 1][1] \in D /\ f[n] \in D
      BY <2>1, <2>2, <2>4, <1>4
    <3>2. f[n + 1] \in D /\ Above(f[n + 1], graph.edges[n + 1][1]) /\ Above(f[n + 1], f[n])
      BY <3>1, MeetIsAbove
    <3>3. \A i \in Entering(b) : i <= n => Above(f[n + 1], graph.edges[i][1])
      BY <3>1, <3>2, <2>2, <1>4, AboveMeans
    <3>4. Right(n + 1)
      BY <3>2, <3>3, <2>2
    <3> QED BY <3>4
  <2> QED BY <2>3, <2>4
<1> HIDE DEF T, Right
<1>7. T = Nat
  <2>1. T \in SUBSET Nat
    BY DEF T
  <2> QED BY <2>1, <1>5, <1>6, Climb
<1>8. Right(N)
  BY <1>4, <1>7 DEF T
<1>9. Common(b) \in D /\ \A i \in Entering(b) : Above(Common(b), graph.edges[i][1])
  BY <1>8, <1>2, <1>4 DEF Right
<1> QED BY <1>9, EnteringMeans

-----------------------------------------------------------------------------
(* The invariant.                                                          *)

\* Nothing is left to do at a block: compute_dominators would leave it as it is.
Settled(b) ==
  b = 0 \/ Entering(b) = {} \/ (b \in DOMAIN idom /\ idom[b] = Common(b))

\* As long as a pass has changed nothing, the blocks it has visited are settled; after the
\* last pass all are.
DominatorsSettled ==
  \A b \in Blocks : (phase = "dominators" => ~ changed /\ b \notin pending) => Settled(b)

DomInv == Rooted /\ Ranked /\ DominatorsSettled

LEMMA TreeFixed ==
  ASSUME UNCHANGED <<graph, idom>>
  PROVE  /\ Rooted' <=> Rooted
         /\ Ranked' <=> Ranked
         /\ \A b : Settled(b)' <=> Settled(b)
<1>1. \A b : Predecessors(b)' = Predecessors(b)
  BY DEF Predecessors, Edges, Blocks, BlocksOf
<1>2. \A t : IsRank(t)' <=> IsRank(t)
  BY <1>1 DEF IsRank
<1>3. \A b : Common(b)' = Common(b) /\ Entering(b)' = Entering(b)
  BY DEF Common, Entering, Meet
<1> QED BY <1>2, <1>3 DEF Rooted, Ranked, Settled

\* The first dominator: of the entry, itself.
LEMMA InitRooted ==
  ASSUME FlowInit
  PROVE  DomInv
<1>1. DOMAIN idom = {0} /\ idom[0] = 0
  BY DEF FlowInit
<1>2. Rooted
  BY <1>1 DEF FlowInit, Rooted
<1>3. IsRank([x \in {0} |-> 0]) /\ \A x \in DOMAIN idom : [y \in {0} |-> 0][x] < 1
  BY <1>1 DEF IsRank
<1>4. Ranked
  BY <1>3 DEF Ranked
<1> QED BY <1>2, <1>4 DEF FlowInit, DomInv, DominatorsSettled

\* A block that has a dominator gets another: it is still above a block that came earlier.
\* A block that gets its first comes last.
LEMMA AssignKeepsTree ==
  ASSUME IsGraph(graph), DOMAIN idom \subseteq Nat, Rooted, Ranked, graph' = graph,
         NEW b \in Blocks, b # 0, Entering(b) # {},
         idom' = [x \in DOMAIN idom \cup {b} |-> IF x = b THEN Common(b) ELSE idom[x]]
  PROVE  Rooted' /\ Ranked'
<1> DEFINE D == DOMAIN idom
           c == Common(b)
<1>1. c \in D /\ \A p \in Predecessors(b) \cap D : Above(c, p)
  BY CommonIsAbove
<1>2. PICK p \in Predecessors(b) \cap D : TRUE
  BY EnteringMeans
<1> HIDE DEF c
<1>3. idom' = [x \in D \cup {b} |-> IF x = b THEN c ELSE idom[x]]
  BY DEF c
<1>4. DOMAIN idom' = D \cup {b} /\ idom'[b] = c /\ \A x \in D \ {b} : idom'[x] = idom[x]
  BY <1>3
<1>5. \A x : Predecessors(x)' = Predecessors(x)
  BY DEF Predecessors, Edges, Blocks, BlocksOf
<1>6. Rooted'
  <2>1. 0 \in DOMAIN idom' /\ idom'[0] = 0
    BY <1>4 DEF Rooted
  <2>2. \A x \in DOMAIN idom' : idom'[x] \in DOMAIN idom'
    BY <1>1, <1>4 DEF Rooted
  <2>3. idom' = [x \in DOMAIN idom' |-> idom'[x]]
    BY <1>3
  <2> QED BY <2>1, <2>2, <2>3 DEF Rooted
<1>7. PICK t : \E M \in Nat : IsRank(t) /\ \A x \in D : t[x] < M
  BY DEF Ranked
<1>8. PICK M \in Nat : IsRank(t) /\ \A x \in D : t[x] < M
  BY <1>7
<1>9. /\ \A x \in D : t[x] \in Nat /\ t[x] < M
      /\ \A x \in D \ {0} : /\ idom[x] \in D /\ t[idom[x]] < t[x]
                            /\ \E q \in Predecessors(x) \cap D : t[q] < t[x]
  BY <1>8 DEF IsRank, Rooted
<1>10. CASE b \in D
  <2>1. PICK q \in Predecessors(b) \cap D : t[q] < t[b]
    BY <1>10, <1>9
  <2>2. t[c] <= t[q]
    BY <1>1, <1>8, <2>1, AboveIsEarlier
  <2>3. t[c] < t[b]
    BY <2>1, <2>2, <1>9, <1>1, <1>10
  <2>4. DOMAIN idom' = D
    BY <1>10, <1>4
  <2>5. \A x \in D \ {0} : /\ t[idom'[x]] < t[x]
                           /\ \E r \in Predecessors(x) \cap D : t[r] < t[x]
    BY <2>3, <1>4, <1>9
  <2>6. IsRank(t)'
    BY <2>4, <2>5, <1>5, <1>8 DEF IsRank
  <2> QED BY <2>4, <2>6, <1>6, <1>8 DEF Ranked
<1>11. CASE b \notin D
  <2>0. PICK u : u = [x \in D \cup {b} |-> IF x = b THEN M ELSE t[x]]
    OBVIOUS
  <2>1. u[b] = M /\ \A x \in D : u[x] = t[x]
    BY <2>0, <1>11
  <2>2. u \in [DOMAIN idom' -> Nat] /\ \A x \in DOMAIN idom' : u[x] < M + 1
    BY <2>0, <1>4, <1>9
  <2>3. u[idom'[b]] < u[b] /\ u[p] < u[b]
    BY <2>1, <1>1, <1>2, <1>4, <1>9
  <2>4. ASSUME NEW x \in D \ {0}
        PROVE  u[idom'[x]] < u[x] /\ \E r \in Predecessors(x) \cap DOMAIN idom' : u[r] < u[x]
    <3>1. idom'[x] = idom[x] /\ idom[x] \in D
      BY <1>4, <1>9, <1>11
    <3>2. PICK r \in Predecessors(x) \cap D : t[r] < t[x]
      BY <1>9
    <3> QED BY <3>1, <3>2, <2>1, <1>4, <1>9
  <2>5. ASSUME NEW x \in DOMAIN idom' \ {0}
        PROVE  u[idom'[x]] < u[x] /\ \E r \in Predecessors(x) \cap DOMAIN idom' : u[r] < u[x]
    BY <2>3, <2>4, <1>2, <1>4
  <2>6. IsRank(u)'
    BY <2>2, <2>5, <1>5 DEF IsRank
  <2>7. M + 1 \in Nat
    OBVIOUS
  <2> QED BY <2>2, <2>6, <2>7, <1>6 DEF Ranked
<1> QED BY <1>10, <1>11

LEMMA StepKeepsDom ==
  ASSUME FlowInv, DomInv, [FlowNext]_flowVars
  PROVE  DomInv'
<1>1. graph' = graph /\ Blocks' = Blocks
  BY StepFixes DEF Fixed
<1>2. IsGraph(graph) /\ DOMAIN idom \subseteq Nat
  BY DEF FlowInv, FlowTypeOK, Blocks, BlocksOf, IsGraph
<1>3. ASSUME NEW b \in Blocks, VisitDominator(b)
      PROVE  DomInv'
  <2>1. CASE Settled(b)
    <3>1. UNCHANGED <<graph, idom, changed, phase>> /\ pending' = pending \ {b}
      BY <1>3, <2>1 DEF VisitDominator, Settled, dominatorVars
    <3> QED BY <2>1, <3>1, <1>1, TreeFixed DEF DomInv, DominatorsSettled
  <2>2. CASE ~ Settled(b)
    <3>1. /\ b # 0 /\ Entering(b) # {} /\ changed' = TRUE /\ phase' = "dominators"
          /\ idom' = [x \in DOMAIN idom \cup {b} |-> IF x = b THEN Common(b) ELSE idom[x]]
      BY <1>3, <2>2 DEF VisitDominator, Settled
    <3>2. Rooted' /\ Ranked'
      BY <3>1, <1>1, <1>2, AssignKeepsTree DEF DomInv
    <3> QED BY <3>1, <3>2 DEF DomInv, DominatorsSettled
  <2> QED BY <2>1, <2>2
<1>4. CASE EndPass
  <2>1. UNCHANGED <<graph, idom>>
    BY <1>4 DEF EndPass
  <2>2. DominatorsSettled'
    BY <1>4, <2>1, <1>1, TreeFixed DEF EndPass, DomInv, DominatorsSettled
  <2> QED BY <2>1, <2>2, TreeFixed DEF DomInv
<1>5. CASE phase # "dominators" /\ phase' # "dominators" /\ UNCHANGED <<graph, idom>>
  BY <1>5, <1>1, TreeFixed DEF DomInv, DominatorsSettled
<1>6. CASE UNCHANGED flowVars
  <2>1. UNCHANGED <<graph, idom, changed, phase, pending>>
    BY <1>6 DEF flowVars, dominatorVars
  <2> QED BY <2>1, <1>1, TreeFixed DEF DomInv, DominatorsSettled
<1>7. \/ \E b \in Blocks : VisitDominator(b)
      \/ EndPass
      \/ phase # "dominators" /\ phase' # "dominators" /\ UNCHANGED <<graph, idom>>
      \/ UNCHANGED flowVars
  BY DEF FlowNext, VisitReachable, VisitReaching, VisitLive, NextAnalysis, dominatorVars
<1> QED BY <1>3, <1>4, <1>5, <1>6, <1>7

-----------------------------------------------------------------------------
(* What follows at the end.                                                *)

\* dominates goes up from the block: what it finds is above.
IsUp(f, a) == f = [x \in Blocks |-> x = a \/ (x \in DOMAIN idom /\ idom[x] # x /\ f[idom[x]])]

LEMMA UpExists ==
  ASSUME DOMAIN idom \subseteq Blocks, Rooted, NEW a
  PROVE  \E f : IsUp(f, a)
<1> DEFINE D == DOMAIN idom
           g == [x \in Blocks |-> x = a \/ (x \in D /\ Above(a, x))]
<1>1. ASSUME NEW x \in Blocks
      PROVE  g[x] <=> x = a \/ (x \in D /\ idom[x] # x /\ g[idom[x]])
  <2>1. CASE x \notin D
    BY <2>1
  <2>2. CASE x \in D
    <3>1. idom[x] \in D /\ idom[x] \in Blocks
      BY <2>2 DEF Rooted
    <3>2. Above(a, x) <=> x = a \/ (idom[x] # x /\ Above(a, idom[x]))
      <4>1. idom[x] = x /\ Above(a, x) => a = x
        <5> SUFFICES ASSUME idom[x] = x, Above(a, x)
                     PROVE  a = x
          OBVIOUS
        <5>1. {x} \in SUBSET D /\ x \in {x} /\ \A y \in {x} : idom[y] \in {x}
          BY <2>2
        <5>2. a \in {x}
          BY <5>1 DEF Above
        <5> QED BY <5>2
      <4>2. x = a => Above(a, x)
        BY <2>2, AboveMeans
      <4>3. Above(a, idom[x]) => Above(a, x)
        BY <2>2, AboveMeans
      <4>4. Above(a, x) => a = x \/ Above(a, idom[x])
        BY <2>2, AboveMeans
      <4> QED BY <4>1, <4>2, <4>3, <4>4
    <3>3. a = idom[x] => Above(a, idom[x])
      BY <3>1, AboveMeans
    <3> QED BY <2>2, <3>1, <3>2, <3>3
  <2> QED BY <2>1, <2>2
<1>2. IsUp(g, a)
  BY <1>1 DEF IsUp
<1> QED BY <1>2

LEMMA DominatesIsAbove ==
  ASSUME IsGraph(graph), DOMAIN idom \subseteq Blocks, Rooted, Ranked,
         NEW a, NEW b \in DOMAIN idom, Dominates(a, b)
  PROVE  Above(a, b)
<1> DEFINE D == DOMAIN idom
           f == CHOOSE g : IsUp(g, a)
<1>1. \E g : IsUp(g, a)
  BY UpExists
<1>2. IsUp(f, a)
  BY <1>1
<1>3. f[b]
  BY DEF Dominates, IsUp
<1> HIDE DEF f
<1>4. \A x \in D : f[x] => x = a \/ (idom[x] # x /\ f[idom[x]])
  BY <1>2 DEF IsUp
<1> SUFFICES ASSUME NEW U \in SUBSET D, b \in U, \A y \in U : idom[y] \in U, a \notin U
             PROVE  FALSE
  BY DEF Above
<1>5. PICK t : IsRank(t)
  BY DEF Ranked
<1> DEFINE T == {t[x] : x \in {y \in U : f[y]}}
<1>6. T \in SUBSET Nat /\ T # {}
  BY <1>3, <1>5 DEF IsRank
<1>7. PICK x \in U : f[x] /\ \A y \in U : f[y] => t[x] <= t[y]
  <2>1. PICK n \in T : \A m \in T : n <= m
    BY <1>6, Smallest
  <2> QED BY <2>1
<1>8. x # a /\ idom[x] # x /\ f[idom[x]] /\ idom[x] \in U
  BY <1>4, <1>7
<1>9. x # 0
  BY <1>8 DEF Rooted
<1>10. t[idom[x]] < t[x] /\ t[idom[x]] \in Nat /\ t[x] \in Nat
  BY <1>5, <1>8, <1>9 DEF IsRank
<1> QED BY <1>7, <1>8, <1>10

\* What is above a block dominates finds.
LEMMA AboveDominates ==
  ASSUME IsGraph(graph), DOMAIN idom \subseteq Blocks, Rooted, Ranked,
         NEW a, NEW b \in DOMAIN idom, Above(a, b)
  PROVE  Dominates(a, b)
<1> DEFINE D == DOMAIN idom
           f == CHOOSE g : IsUp(g, a)
<1>1. \E g : IsUp(g, a)
  BY UpExists
<1>2. IsUp(f, a)
  BY <1>1
<1>3. b \in Blocks /\ (f[b] => Dominates(a, b))
  BY DEF Dominates, IsUp
<1> HIDE DEF f
<1>4. \A x \in D : x = a \/ (idom[x] # x /\ f[idom[x]]) => f[x]
  BY <1>2 DEF IsUp
<1>5. PICK t : IsRank(t)
  BY DEF Ranked
<1> DEFINE U == {x \in D : Above(a, x) /\ ~ f[x]}
           T == {t[x] : x \in U}
<1>6. SUFFICES ASSUME b \in U
               PROVE  FALSE
  BY <1>3
<1>7. T \in SUBSET Nat /\ T # {}
  BY <1>5, <1>6 DEF IsRank
<1>8. PICK x \in U : \A y \in U : t[x] <= t[y]
  <2>1. PICK n \in T : \A m \in T : n <= m
    BY <1>7, Smallest
  <2> QED BY <2>1
<1>9. x # a /\ x # 0 /\ Above(a, idom[x]) /\ idom[x] \in D
  BY <1>4, <1>8, AboveMeans DEF Rooted
<1>10. t[idom[x]] < t[x] /\ t[idom[x]] \in Nat /\ t[x] \in Nat
  BY <1>5, <1>9 DEF IsRank
<1>11. ~ f[idom[x]]
  BY <1>4, <1>8, <1>10
<1> QED BY <1>8, <1>9, <1>10, <1>11

\* The blocks that a is not above hold the entry, and the edges that do not come to a stay
\* among them.
LEMMA AvoidedIsNotAbove ==
  ASSUME IsGraph(graph), DOMAIN idom \subseteq Blocks, Rooted, Ranked,
         \A b \in Blocks : Settled(b), NEW a \in Blocks
  PROVE  \A b \in Avoiding(a) : b \in DOMAIN idom /\ ~ Above(a, b)
<1> DEFINE D == DOMAIN idom
           S == {0} \ {a}
           E == {e \in Edges : e[2] # a}
           C == {b \in D : ~ Above(a, b)}
<1>0. D \subseteq Nat /\ 0 \in Blocks
  BY DEF Blocks, BlocksOf, IsGraph
<1>1. S \subseteq C
  BY AboveMeans DEF Rooted
<1>2. ASSUME NEW x \in C, NEW y \in Blocks, <<x, y>> \in E
      PROVE  y \in C
  <2>1. x \in Predecessors(y) \cap D /\ y # a
    BY <1>2 DEF Predecessors
  <2>2. CASE y = 0
    BY <2>2, <2>1, AboveMeans DEF Rooted
  <2>3. CASE y # 0
    <3>1. Entering(y) # {}
      BY <2>1, EnteringMeans
    <3>2. y \in D /\ idom[y] = Common(y)
      BY <3>1, <2>3 DEF Settled
    <3>3. Common(y) \in D /\ Above(Common(y), x)
      BY <3>1, <2>1, <1>0, CommonIsAbove
    <3>4. Above(a, y) => Above(a, Common(y))
      BY <3>2, <2>1, AboveMeans
    <3>5. Above(a, Common(y)) => Above(a, x)
      BY <3>3, AboveMeans
    <3> QED BY <3>2, <3>4, <3>5
  <2> QED BY <2>2, <2>3
<1>3. Closed(C, E)
  BY <1>2 DEF Closed
<1>4. S \in SUBSET Blocks
  BY <1>0
<1>5. Avoiding(a) = From(S, E)
  BY DEF Avoiding
<1> HIDE DEF C, S, E
<1>6. Avoiding(a) \subseteq C
  BY <1>1, <1>3, <1>4, <1>5, FromMeans
<1> QED BY <1>6 DEF C

\* A block said to dominate another is on every path from the entry to it, whatever the graph
\* and the order of the passes (compute_dominators, intersect_dominators, dominates).
THEOREM DominatorsAreSound == FlowSpec => []DominatorsSound
<1>1. FlowInit => DomInv
  BY InitRooted
<1>2. FlowInv /\ DomInv /\ [FlowNext]_flowVars => DomInv'
  BY StepKeepsDom
<1>3. ASSUME FlowInv, DomInv
      PROVE  DominatorsSound
  <2> SUFFICES ASSUME Done, NEW a \in reached, NEW b \in reached \ {a}, b \in Avoiding(a), Dominates(a, b)
               PROVE  FALSE
    BY DEF DominatorsSound
  <2>1. IsGraph(graph) /\ DOMAIN idom \subseteq Blocks /\ a \in Blocks
    BY <1>3 DEF FlowInv, FlowTypeOK
  <2>2. Rooted /\ Ranked /\ \A c \in Blocks : Settled(c)
    BY <1>3 DEF DomInv, DominatorsSettled, Done
  <2>3. b \in DOMAIN idom /\ ~ Above(a, b)
    BY <2>1, <2>2, AvoidedIsNotAbove
  <2> QED BY <2>1, <2>2, <2>3, DominatesIsAbove
<1> QED BY <1>1, <1>2, <1>3, FlowInvHolds, PTL DEF FlowSpec
-----------------------------------------------------------------------------
(* Which dominators are found.  A finger of intersect_dominators passes a  *)
(* only if the other stands at a block numbered before a.  If every block  *)
(* that a dominates has a later number than a, the fingers that start at   *)
(* such blocks stay among them and meet at one, so that the dominator of   *)
(* each but a is among them at every moment, whatever the passes have      *)
(* still to do.                                                            *)

\* What the later of two blocks of C steps to is in C: then so is the block where they meet.
Steps(C) == \A x, y \in C : x > y => idom[x] \in C

LEMMA MeetStays ==
  ASSUME Rooted, DOMAIN idom \subseteq Nat, Ranked,
         NEW C \in SUBSET DOMAIN idom, Steps(C), NEW b1 \in C, NEW b2 \in C
  PROVE  Meet(b1, b2) \in C
<1> DEFINE D == DOMAIN idom
           f == CHOOSE g : IsMeet(g)
<1>1. IsMeet(f)
  BY MeetExists
<1>2. Meet(b1, b2) = f[<<b1, b2>>]
  BY DEF Meet, IsMeet, Met
<1> HIDE DEF f
<1>0. PICK t : \E M \in Nat : IsRank(t) /\ \A x \in D : t[x] < M
  BY DEF Ranked
<1>3. PICK M \in Nat : IsRank(t) /\ \A x \in D : t[x] < M
  BY <1>0
<1>4. \A x \in D : t[x] \in Nat /\ t[x] < M
  BY <1>3 DEF IsRank
<1>5. \A x, y \in C : f[<<x, y>>] = IF x = y THEN x ELSE IF x > y THEN f[<<idom[x], y>>] ELSE f[<<x, idom[y]>>]
  <2>1. \A at \in D \X D : f[at] = Met(f, at)
    BY <1>1 DEF IsMeet
  <2> SUFFICES ASSUME NEW x \in C, NEW y \in C
               PROVE  f[<<x, y>>] = IF x = y THEN x ELSE IF x > y THEN f[<<idom[x], y>>] ELSE f[<<x, idom[y]>>]
    OBVIOUS
  <2>2. <<x, y>> \in D \X D /\ <<x, y>>[1] = x /\ <<x, y>>[2] = y
    OBVIOUS
  <2> QED BY <2>1, <2>2 DEF Met
<1> DEFINE T == {n \in Nat : \A x, y \in C : t[x] + t[y] < n => f[<<x, y>>] \in C}
<1>6. 0 \in T
  BY <1>4
<1>7. ASSUME NEW n \in T
      PROVE  n + 1 \in T
  <2> SUFFICES ASSUME NEW x \in C, NEW y \in C, t[x] + t[y] < n + 1
               PROVE  f[<<x, y>>] \in C
    OBVIOUS
  <2>1. n \in Nat /\ t[x] + t[y] \in Nat /\ x \in Nat /\ y \in Nat
    BY <1>4
  <2>2. CASE x = y
    BY <2>2, <1>5
  <2>3. CASE x # y /\ x > y
    <3>1. idom[x] \in C /\ t[idom[x]] + t[y] < t[x] + t[y] /\ t[idom[x]] + t[y] \in Nat
      BY <2>3, <1>3, <1>4, FingerSteps DEF Steps
    <3>2. t[idom[x]] + t[y] < n
      BY <3>1, <2>1
    <3>3. f[<<x, y>>] = f[<<idom[x], y>>]
      BY <2>3, <1>5
    <3> QED BY <3>1, <3>2, <3>3
  <2>4. CASE x # y /\ ~ (x > y)
    <3>1. idom[y] \in C /\ t[x] + t[idom[y]] < t[x] + t[y] /\ t[x] + t[idom[y]] \in Nat
      BY <2>1, <2>4, <1>3, <1>4, FingerSteps DEF Steps
    <3>2. t[x] + t[idom[y]] < n
      BY <3>1, <2>1
    <3>3. f[<<x, y>>] = f[<<x, idom[y]>>]
      BY <2>4, <1>5
    <3> QED BY <3>1, <3>2, <3>3
  <2> QED BY <2>2, <2>3, <2>4
<1> HIDE DEF T
<1>8. T = Nat
  <2>1. T \in SUBSET Nat
    BY DEF T
  <2> QED BY <2>1, <1>6, <1>7, Climb
<1>9. M + M \in T /\ t[b1] + t[b2] < M + M
  BY <1>8, <1>4
<1> QED BY <1>2, <1>9 DEF T

LEMMA CommonStays ==
  ASSUME IsGraph(graph), Rooted, DOMAIN idom \subseteq Nat, Ranked,
         NEW C \in SUBSET DOMAIN idom, Steps(C),
         NEW b \in Blocks, Entering(b) # {}, Predecessors(b) \cap DOMAIN idom \subseteq C
  PROVE  Common(b) \in C
<1> DEFINE f == CHOOSE g : IsMet(g, b)
           N == Len(graph.edges)
<1>1. IsMet(f, b)
  BY MetExists
<1>2. Common(b) = f[N]
  BY DEF Common, IsMet
<1> HIDE DEF f
<1> DEFINE Next(n) == IF n = 0 THEN graph.edges[Min(Entering(b))][1]
                      ELSE IF n \in Entering(b) THEN Meet(graph.edges[n][1], f[n - 1]) ELSE f[n - 1]
<1>3. \A n \in Nat : f[n] = Next(n)
  <2>1. f = [n \in Nat |-> Next(n)]
    BY <1>1 DEF IsMet
  <2> HIDE DEF Next
  <2> QED BY <2>1
<1>4. Entering(b) \subseteq 1 .. N /\ N \in Nat /\ \A i \in Entering(b) : graph.edges[i][1] \in C
  BY EnteringMeans
<1> HIDE DEF N
<1> DEFINE T == {n \in Nat : f[n] \in C}
<1>5. 0 \in T
  <2>1. \E n \in Entering(b) : \A m \in Entering(b) : n <= m
    <3>1. Entering(b) \in SUBSET Nat
      BY <1>4
    <3> QED BY <3>1, Smallest
  <2>2. Min(Entering(b)) \in Entering(b)
    BY <2>1 DEF Min
  <2>3. f[0] = graph.edges[Min(Entering(b))][1]
    BY <1>3
  <2> QED BY <2>2, <2>3, <1>4
<1>6. ASSUME NEW n \in T
      PROVE  n + 1 \in T
  <2>1. f[n + 1] = IF n + 1 \in Entering(b) THEN Meet(graph.edges[n + 1][1], f[n]) ELSE f[n]
    <3>1. n + 1 \in Nat /\ n + 1 # 0 /\ n + 1 - 1 = n
      OBVIOUS
    <3> QED BY <3>1, <1>3
  <2>2. f[n + 1] \in C
    BY <2>1, <1>4, MeetStays
  <2> QED BY <2>2
<1> HIDE DEF T
<1>7. T = Nat
  <2>1. T \in SUBSET Nat
    BY DEF T
  <2> QED BY <2>1, <1>5, <1>6, Climb
<1> QED BY <1>2, <1>4, <1>7 DEF T

\* The paths that avoid a block, and the blocks all paths to which come through it.
LEMMA AvoidingMeans ==
  ASSUME IsGraph(graph), NEW a \in Blocks
  PROVE  /\ From({0}, Edges) \subseteq Blocks /\ 0 \in From({0}, Edges)
         /\ \A x \in From({0}, Edges), y \in Blocks : <<x, y>> \in Edges => y \in From({0}, Edges)
         /\ a # 0 => 0 \in Avoiding(a)
         /\ \A x \in Avoiding(a), y \in Blocks : <<x, y>> \in Edges /\ y # a => y \in Avoiding(a)
<1>1. 0 \in Blocks /\ {0} \in SUBSET Blocks /\ {0} \ {a} \in SUBSET Blocks
  BY DEF Blocks, BlocksOf, IsGraph
<1>2. {0} \subseteq From({0}, Edges) /\ From({0}, Edges) \subseteq Blocks /\ Closed(From({0}, Edges), Edges)
  BY <1>1, FromMeans
<1> DEFINE E == {e \in Edges : e[2] # a}
<1>3. {0} \ {a} \subseteq Avoiding(a) /\ Closed(Avoiding(a), E)
  <2>1. Avoiding(a) = From({0} \ {a}, E)
    BY DEF Avoiding
  <2> HIDE DEF E
  <2> QED BY <2>1, <1>1, FromMeans
<1> QED BY <1>2, <1>3 DEF Closed

\* As long as the dominator of each block of Below(a) but a is in Below(a) ...
Kept(a) == \A x \in DOMAIN idom \ {a} : x \notin Avoiding(a) => idom[x] \notin Avoiding(a)

OrderInv ==
  /\ DOMAIN idom \subseteq From({0}, Edges)
  /\ \A a \in Blocks : MadeFirst(a) => Kept(a)

LEMMA PathsFixed ==
  ASSUME graph' = graph
  PROVE  /\ From({0}, Edges)' = From({0}, Edges)
         /\ \A a : Avoiding(a)' = Avoiding(a) /\ Below(a)' = Below(a) /\ (MadeFirst(a)' <=> MadeFirst(a))
<1>1. From({0}, Edges)' = From({0}, Edges)
  BY DEF From, Edges, Blocks, BlocksOf
<1>2. \A a : Avoiding(a)' = Avoiding(a)
  BY DEF Avoiding, From, Edges, Blocks, BlocksOf
<1>3. \A a : Below(a)' = Below(a)
  BY <1>1, <1>2 DEF Below
<1>4. \A a : MadeFirst(a)' <=> MadeFirst(a)
  BY <1>3 DEF MadeFirst
<1> QED BY <1>1, <1>2, <1>3, <1>4

LEMMA AssignKeepsOrder ==
  ASSUME IsGraph(graph), DOMAIN idom \subseteq Blocks, Rooted, Ranked, OrderInv, graph' = graph,
         NEW b \in Blocks, b # 0, Entering(b) # {},
         idom' = [x \in DOMAIN idom \cup {b} |-> IF x = b THEN Common(b) ELSE idom[x]]
  PROVE  OrderInv'
<1> DEFINE D == DOMAIN idom
<1>1. DOMAIN idom' = D \cup {b} /\ idom'[b] = Common(b) /\ \A x \in D \ {b} : idom'[x] = idom[x]
  OBVIOUS
<1>2. D \subseteq Nat /\ Blocks' = Blocks
  BY DEF Blocks, BlocksOf
<1>3. b \in From({0}, Edges)
  <2>1. PICK p \in Predecessors(b) \cap D : TRUE
    BY EnteringMeans
  <2>2. <<p, b>> \in Edges /\ p \in From({0}, Edges)
    BY <2>1 DEF Predecessors, OrderInv
  <2> QED BY <2>2, AvoidingMeans
<1>4. ASSUME NEW a \in Blocks, MadeFirst(a)
      PROVE  \A x \in (D \cup {b}) \ {a} : x \notin Avoiding(a) => idom'[x] \notin Avoiding(a)
  <2> DEFINE C == {x \in D : x \notin Avoiding(a)}
  <2>1. Kept(a) /\ \A x \in D : x \notin Avoiding(a) => a <= x
    BY <1>4 DEF OrderInv, MadeFirst, Below
  <2>2. ASSUME NEW x \in C, NEW y \in C, x > y
        PROVE  idom[x] \in C
    <3>1. a <= y /\ x \in Nat /\ y \in Nat /\ a \in Nat
      BY <2>1, <1>2 DEF Blocks, BlocksOf
    <3>2. x # a
      BY <3>1, <2>2
    <3> QED BY <3>2, <2>1 DEF Kept, Rooted
  <2>3. Steps(C) /\ C \in SUBSET D
    BY <2>2 DEF Steps
  <2>4. ASSUME b # a, b \notin Avoiding(a)
        PROVE  Common(b) \notin Avoiding(a)
    <3>1. \A p \in Predecessors(b) \cap D : p \notin Avoiding(a)
      BY <2>4, AvoidingMeans DEF Predecessors
    <3>2. Predecessors(b) \cap D \subseteq C
      BY <3>1
    <3> HIDE DEF C
    <3>3. Common(b) \in C
      BY <3>2, <2>3, <1>2, CommonStays
    <3> QED BY <3>3 DEF C
  <2> QED BY <2>1, <2>4, <1>1 DEF Kept
<1>5. \A a \in Blocks : MadeFirst(a)' => Kept(a)'
  BY <1>1, <1>2, <1>4, PathsFixed DEF Kept
<1>6. DOMAIN idom' \subseteq From({0}, Edges)'
  BY <1>1, <1>3, PathsFixed DEF OrderInv
<1> QED BY <1>2, <1>5, <1>6 DEF OrderInv

LEMMA InitInOrder ==
  ASSUME FlowInv, FlowInit
  PROVE  OrderInv
<1>1. DOMAIN idom = {0} /\ idom[0] = 0
  BY DEF FlowInit
<1>2. IsGraph(graph) /\ 0 \in Blocks
  BY DEF FlowInv, FlowTypeOK, IsGraph, Blocks, BlocksOf
<1>3. DOMAIN idom \subseteq From({0}, Edges)
  BY <1>1, <1>2, AvoidingMeans
<1>4. \A a \in Blocks : Kept(a)
  BY <1>1 DEF Kept
<1> QED BY <1>3, <1>4 DEF OrderInv

LEMMA StepKeepsOrder ==
  ASSUME FlowInv, DomInv, OrderInv, [FlowNext]_flowVars
  PROVE  OrderInv'
<1>1. graph' = graph /\ Blocks' = Blocks
  BY StepFixes DEF Fixed
<1>2. IsGraph(graph) /\ DOMAIN idom \subseteq Blocks /\ Rooted /\ Ranked
  BY DEF FlowInv, FlowTypeOK, DomInv
<1>3. CASE idom' = idom
  <2>1. \A a : Kept(a)' <=> Kept(a)
    BY <1>1, <1>3, PathsFixed DEF Kept
  <2> QED BY <2>1, <1>1, <1>3, PathsFixed DEF OrderInv
<1>4. ASSUME NEW b \in Blocks, b # 0, Entering(b) # {},
             idom' = [x \in DOMAIN idom \cup {b} |-> IF x = b THEN Common(b) ELSE idom[x]]
      PROVE  OrderInv'
  BY <1>1, <1>2, <1>4, AssignKeepsOrder
<1>5. \/ idom' = idom
      \/ \E b \in Blocks :
           /\ b # 0 /\ Entering(b) # {}
           /\ idom' = [x \in DOMAIN idom \cup {b} |-> IF x = b THEN Common(b) ELSE idom[x]]
  BY DEF FlowNext, VisitDominator, EndPass, VisitReachable, VisitReaching, VisitLive, NextAnalysis,
         flowVars, dominatorVars
<1> QED BY <1>3, <1>4, <1>5

\* ... going up from a block of Below(a) comes to a.
LEMMA KeptIsAbove ==
  ASSUME IsGraph(graph), DOMAIN idom \subseteq Blocks, Rooted, Ranked,
         NEW a \in Blocks, Kept(a), NEW b \in DOMAIN idom, b \notin Avoiding(a)
  PROVE  Above(a, b)
<1> SUFFICES ASSUME NEW U \in SUBSET DOMAIN idom, b \in U, \A y \in U : idom[y] \in U, a \notin U
             PROVE  FALSE
  BY DEF Above
<1>1. PICK t : IsRank(t)
  BY DEF Ranked
<1> DEFINE V == {y \in U : y \notin Avoiding(a)}
           T == {t[x] : x \in V}
<1>2. T \in SUBSET Nat /\ T # {}
  BY <1>1 DEF IsRank
<1>3. PICK x \in V : \A y \in V : t[x] <= t[y]
  <2>1. PICK n \in T : \A m \in T : n <= m
    BY <1>2, Smallest
  <2> QED BY <2>1
<1>4. x # a /\ x # 0
  BY <1>3, AvoidingMeans
<1>5. idom[x] \in V
  BY <1>3, <1>4 DEF Kept
<1>6. t[idom[x]] < t[x] /\ t[idom[x]] \in Nat /\ t[x] \in Nat
  BY <1>1, <1>3, <1>4, <1>5 DEF IsRank
<1> QED BY <1>3, <1>5, <1>6

\* After the last pass every block that paths come to has a dominator.
LEMMA SettledHasAll ==
  ASSUME IsGraph(graph), Rooted, \A b \in Blocks : Settled(b)
  PROVE  From({0}, Edges) \subseteq DOMAIN idom
<1>1. ASSUME NEW x \in DOMAIN idom, NEW y \in Blocks, <<x, y>> \in Edges
      PROVE  y \in DOMAIN idom
  <2>1. x \in Predecessors(y) \cap DOMAIN idom
    BY <1>1, EdgesArePairs DEF Predecessors
  <2>2. Entering(y) # {}
    BY <2>1, EnteringMeans
  <2> QED BY <2>2 DEF Settled, Rooted
<1>2. Closed(DOMAIN idom, Edges) /\ {0} \subseteq DOMAIN idom
  BY <1>1 DEF Closed, Rooted
<1>3. {0} \in SUBSET Blocks
  BY DEF Blocks, BlocksOf, IsGraph
<1> QED BY <1>2, <1>3, FromMeans

\* A block that was made before all the blocks it dominates is reported to dominate each of
\* them, whatever the graph and the order of the passes (compute_dominators,
\* intersect_dominators, dominates).
THEOREM DominatorsAreFoundInOrder == FlowSpec => []DominatorsFoundInOrder
<1>1. FlowInit => DomInv
  BY InitRooted
<1>2. FlowInv /\ DomInv /\ [FlowNext]_flowVars => DomInv'
  BY StepKeepsDom
<1>3. FlowInv /\ FlowInit => OrderInv
  BY InitInOrder
<1>4. FlowInv /\ DomInv /\ OrderInv /\ [FlowNext]_flowVars => OrderInv'
  BY StepKeepsOrder
<1>5. ASSUME FlowInv, DomInv, OrderInv
      PROVE  DominatorsFoundInOrder
  <2> SUFFICES ASSUME Done, NEW a \in reached, MadeFirst(a), NEW b \in Below(a)
               PROVE  Dominates(a, b)
    BY DEF DominatorsFoundInOrder
  <2>1. IsGraph(graph) /\ DOMAIN idom \subseteq Blocks /\ a \in Blocks
    BY <1>5 DEF FlowInv, FlowTypeOK
  <2>2. Rooted /\ Ranked /\ \A c \in Blocks : Settled(c)
    BY <1>5 DEF DomInv, DominatorsSettled, Done
  <2>3. b \in DOMAIN idom /\ b \notin Avoiding(a) /\ Kept(a)
    BY <1>5, <2>1, <2>2, SettledHasAll DEF Below, OrderInv
  <2>4. Above(a, b)
    BY <2>1, <2>2, <2>3, KeptIsAbove
  <2> QED BY <2>1, <2>2, <2>3, <2>4, AboveDominates
<1> QED BY <1>1, <1>2, <1>3, <1>4, <1>5, FlowInvHolds, PTL DEF FlowSpec
-----------------------------------------------------------------------------
(* Loops.                                                                  *)

\* From each block of C edges inside C lead to each block of C.
IsLoop(C) ==
  /\ C # {}
  /\ \A x, y \in C :
       y \in From({z \in C : <<x, z>> \in Edges}, {e \in Edges : e[1] \in C /\ e[2] \in C})

\* Each loop has a block that all paths to the loop come through and that was made first.
HeadedLoops ==
  \A C \in SUBSET From({0}, Edges) : IsLoop(C) => \E h \in C : MadeFirst(h) /\ C \subseteq Below(h)

LEMMA FromOnward ==
  ASSUME IsGraph(graph), NEW S \in SUBSET Blocks, NEW T \in SUBSET Blocks, NEW edges,
         T \subseteq From(S, edges)
  PROVE  From(T, edges) \subseteq From(S, edges)
BY FromMeans

LEMMA FromHasLast ==
  ASSUME IsGraph(graph), NEW S \in SUBSET Blocks, NEW edges, NEW y \in From(S, edges), y \notin S
  PROVE  \E p \in From(S, edges) : <<p, y>> \in edges
<1> SUFFICES ASSUME \A p \in From(S, edges) : <<p, y>> \notin edges
             PROVE  FALSE
  OBVIOUS
<1> DEFINE C == From(S, edges) \ {y}
<1>1. S \subseteq C /\ Closed(C, edges)
  BY FromMeans DEF Closed
<1> HIDE DEF C
<1>2. From(S, edges) \subseteq C
  BY <1>1, FromMeans
<1> QED BY <1>2 DEF C

\* The blocks on the cycles of some edges through a block are a loop.
After(b, F) == {y \in Blocks : <<b, y>> \in F}
Cycle(b, F) == {y \in Blocks : y \in From(After(b, F), F) /\ b \in From({y}, F)}

LEMMA CycleIsLoop ==
  ASSUME IsGraph(graph), NEW F \in SUBSET Edges, NEW b \in Blocks, b \in From(After(b, F), F)
  PROVE  /\ b \in Cycle(b, F) /\ Cycle(b, F) \subseteq Blocks /\ IsLoop(Cycle(b, F))
         /\ \A x \in From(After(b, F), F), y \in Cycle(b, F) : <<x, y>> \in F => x \in Cycle(b, F)
<1> DEFINE N == {y \in Blocks : <<b, y>> \in F}
           C == {y \in Blocks : y \in From(N, F) /\ b \in From({y}, F)}
<1>0. N = After(b, F) /\ C = Cycle(b, F) /\ b \in From(N, F)
  BY DEF After, Cycle
<1>1. N \in SUBSET Blocks /\ b \in From({b}, F)
  BY FromMeans
<1>2. ASSUME NEW x \in From(N, F), NEW y \in C, <<x, y>> \in F
      PROVE  x \in C
  <2>1. x \in Blocks /\ {x} \in SUBSET Blocks /\ {y} \in SUBSET Blocks
    BY <1>1, FromMeans
  <2>2. y \in From({x}, F)
    BY <1>2, <2>1, FromMeans DEF Closed
  <2>3. From({y}, F) \subseteq From({x}, F)
    BY <2>1, <2>2, FromOnward
  <2> QED BY <2>1, <2>3
<1>3. ASSUME NEW x \in C, NEW y \in C
      PROVE  y \in From({z \in C : <<x, z>> \in Edges}, {e \in Edges : e[1] \in C /\ e[2] \in C})
  <2> DEFINE Nx == {z \in Blocks : <<x, z>> \in F}
             Z == {z \in C : <<x, z>> \in Edges}
             E == {e \in Edges : e[1] \in C /\ e[2] \in C}
             Q == {w \in From(Nx, F) : w \in C => w \in From(Z, E)}
  <2>1. Nx \in SUBSET Blocks /\ Z \in SUBSET Blocks /\ x \in Blocks /\ {x} \in SUBSET Blocks
    OBVIOUS
  <2>2. Nx \subseteq From(N, F)
    BY <1>1, FromMeans DEF Closed
  <2>3. From(Nx, F) \subseteq From(N, F)
    BY <1>1, <2>1, <2>2, FromOnward
  <2>4. Nx \subseteq Q
    <3>1. Nx \subseteq From(Nx, F) /\ Z \subseteq From(Z, E)
      BY <2>1, FromMeans
    <3>2. \A z \in Nx : z \in C => z \in Z
      OBVIOUS
    <3> QED BY <3>1, <3>2
  <2>5. ASSUME NEW w \in Q, NEW v \in Blocks, <<w, v>> \in F
        PROVE  v \in Q
    <3> HIDE DEF Nx, Z
    <3>1. v \in From(Nx, F)
      BY <2>1, <2>5, FromMeans DEF Closed
    <3>2. CASE v \in C
      <4>1. w \in C
        BY <3>2, <2>3, <2>5, <1>2
      <4>2. w \in From(Z, E) /\ <<w, v>> \in E
        BY <4>1, <3>2, <2>5
      <4> HIDE DEF E
      <4>3. v \in From(Z, E)
        BY <4>2, <2>1, FromMeans DEF Closed
      <4> QED BY <3>1, <4>3
    <3> QED BY <3>1, <3>2
  <2>6. Closed(Q, F)
    BY <2>5 DEF Closed
  <2> HIDE DEF Q, E, Z
  <2>7. From(Nx, F) \subseteq Q
    BY <2>1, <2>4, <2>6, FromMeans
  <2>8. y \in From(Nx, F)
    <3>1. CASE x = b
      BY <3>1
    <3>2. CASE x # b
      <4>1. {x} \subseteq {x} \cup From(Nx, F) /\ Closed({x} \cup From(Nx, F), F)
        <5>1. Nx \subseteq From(Nx, F) /\ Closed(From(Nx, F), F)
          BY <2>1, FromMeans
        <5> QED BY <5>1 DEF Closed
      <4> HIDE DEF Nx
      <4>2. From({x}, F) \subseteq {x} \cup From(Nx, F)
        BY <2>1, <4>1, FromMeans
      <4>3. b \in From(Nx, F)
        BY <3>2, <4>2
      <4>4. N \subseteq From(Nx, F)
        BY <2>1, <4>3, FromMeans DEF Closed
      <4>5. From(N, F) \subseteq From(Nx, F)
        BY <1>1, <2>1, <4>4, FromOnward
      <4> QED BY <4>5
    <3> QED BY <3>1, <3>2
  <2> QED BY <2>7, <2>8 DEF Q, E, Z
<1>4. b \in C
  BY <1>0, <1>1
<1>5. IsLoop(C)
  BY <1>3, <1>4 DEF IsLoop
<1> HIDE DEF C, N
<1> QED BY <1>0, <1>2, <1>4, <1>5 DEF Cycle

\* In a graph whose loops have heads that were made first, every loop is found by a back
\* edge, whatever the order of the passes (find_loops, compute_dominators).
THEOREM LoopsAreFoundInOrder == FlowSpec => [](HeadedLoops => LoopsAreFound)
<1>1. ASSUME FlowInv, Done => ResultsRight, DominatorsFoundInOrder, HeadedLoops
      PROVE  LoopsAreFound
  <2> DEFINE F == {e \in Edges : e[1] \in reached} \ BackEdges
  <2> SUFFICES ASSUME Done, NEW b \in reached, b \in From(After(b, F), F)
               PROVE  FALSE
    BY DEF LoopsAreFound, After
  <2> DEFINE N == After(b, F)
             C == Cycle(b, F)
  <2>1. IsGraph(graph) /\ reached \subseteq Blocks /\ ResultsRight /\ N \in SUBSET Blocks
    BY <1>1 DEF FlowInv, FlowTypeOK, After
  <2>2. reached \subseteq From({0}, Edges)
    <3>1. ReachedClosed(From({0}, Edges))
      <4>1. 0 \in Blocks
        BY <2>1 DEF IsGraph, Blocks, BlocksOf
      <4>2. \A x \in From({0}, Edges) : Successors(x) \subseteq From({0}, Edges)
        BY <2>1, <4>1, AvoidingMeans DEF Successors
      <4> QED BY <2>1, <4>1, <4>2, AvoidingMeans DEF ReachedClosed
    <3> HIDE DEF N
    <3>2. \A S : ReachedClosed(S) => reached \subseteq S
      BY <2>1 DEF ResultsRight
    <3> QED BY <3>1, <3>2
  <2>3. From(N, F) \subseteq reached
    <3>1. \A x \in reached, y \in Blocks : <<x, y>> \in F => y \in reached
      BY <2>1 DEF ResultsRight, ReachedClosed, Successors
    <3>2. N \subseteq reached /\ Closed(reached, F)
      BY <3>1 DEF Closed, After
    <3> HIDE DEF N, F
    <3> QED BY <2>1, <3>2, FromMeans
  <2>4. F \in SUBSET Edges /\ b \in Blocks /\ b \in From(N, F)
    BY <2>1
  <2>5. \A e \in F : e \notin BackEdges
    OBVIOUS
  <2>6. \A y \in N : <<b, y>> \in F
    BY DEF After
  <2>7. /\ b \in C /\ C \subseteq Blocks /\ IsLoop(C)
        /\ \A x \in From(N, F), y \in C : <<x, y>> \in F => x \in C
    <3> HIDE DEF F
    <3> QED BY <2>1, <2>4, CycleIsLoop
  <2>8. C \subseteq From(N, F)
    BY DEF Cycle
  <2> HIDE DEF C, N, F
  <2>9. PICK h \in C : MadeFirst(h) /\ C \subseteq Below(h)
    BY <1>1, <2>2, <2>3, <2>7, <2>8 DEF HeadedLoops
  <2>10. \E p \in C : <<p, h>> \in F
    <3>1. CASE h \in N
      BY <3>1, <2>6, <2>7
    <3>2. CASE h \notin N
      BY <3>2, <2>1, <2>7, <2>8, FromHasLast
    <3> QED BY <3>1, <3>2
  <2>11. PICK p \in C : <<p, h>> \in F
    BY <2>10
  <2>12. Dominates(h, p)
    BY <1>1, <2>3, <2>8, <2>9 DEF DominatorsFoundInOrder
  <2>13. <<p, h>> \in BackEdges
    BY <2>4, <2>11, <2>12 DEF BackEdges
  <2> QED BY <2>5, <2>11, <2>13
<1> QED BY <1>1, FlowInvHolds, ResultsAreRight, DominatorsAreFoundInOrder, PTL
================================================================================
