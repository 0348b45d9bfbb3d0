---------------------------- MODULE LspClient_proofs ----------------------------
(***************************************************************************)
(* Proofs that the request table of LspClient never mixes up answers, for  *)
(* any number of calls, servers, writers and threads.                      *)
(***************************************************************************)
EXTENDS LspClient, TLAPS

USE CallersAssumption

-----------------------------------------------------------------------------
LEMMA StartsRight ==
  ASSUME LspInit
  PROVE  LspInv
<1>1. LspTypeOK
  BY DEF LspInit, LspTypeOK, Requests
<1>2. AnswersMatch /\ WaitersAreHeard /\ CallsInOrder
  BY RequestAssumption DEF LspInit, AnswersMatch, WaitersAreHeard, CallsInOrder, InFlight
<1>3. IdsName
  BY DEF LspInit, IdsName, Known, OnTheWay, InFlight
<1> QED BY <1>1, <1>2, <1>3 DEF LspInv

\* Every step keeps the types.
LEMMA TypesKept ==
  ASSUME LspTypeOK, CallsInOrder, [LspNext]_lspVars
  PROVE  LspTypeOK'
<1> USE DEF LspTypeOK
<1>1. ASSUME NEW c \in Callers, Call(c) PROVE LspTypeOK'
  <2>1. /\ at' \in [Callers -> {"idle", "send", "lock", "write", "wait", "ready"}]
        /\ calls' \in [Callers -> Nat] /\ guards' \subseteq Holders
    BY <1>1 DEF Call
  <2>2. /\ life' \in [Servers -> {"none", "running", "ended"}]
        /\ reading' \in [Servers -> BOOLEAN]
        /\ via' \in [Callers -> Servers \cup {NoServer}]
        /\ goal' \in [Callers -> {"initialize", "request"}]
    <3>1. CASE server # NoServer
      BY <1>1, <3>1, ZenonT(30) DEF Call
    <3>2. CASE server = NoServer
      <4>1. PICK s \in Servers :
              /\ life' = [life EXCEPT ![s] = "running"]
              /\ reading' = [reading EXCEPT ![s] = TRUE]
              /\ via' = [via EXCEPT ![c] = s]
        BY <1>1, <3>2 DEF Call
      <4>2. goal' = [goal EXCEPT ![c] = "initialize"]
        BY <1>1, <3>2 DEF Call
      <4>3. /\ life' \in [Servers -> {"none", "running", "ended"}]
            /\ reading' \in [Servers -> BOOLEAN]
        BY <4>1
      <4> QED BY <4>1, <4>2, <4>3
    <3> QED BY <3>1, <3>2
  <2> QED BY <1>1, <2>1, <2>2 DEF Call, tableVars, wireVars
<1>2. ASSUME NEW c \in Callers, Send(c) PROVE LspTypeOK'
  <2>1. via[c] \in Servers
    BY <1>2 DEF Send, CallsInOrder
  <2>2. [id |-> nextId[via[c]], caller |-> c, number |-> calls[c]] \in Requests
    BY <2>1 DEF Requests
  <2>3. /\ at' \in [Callers -> {"idle", "send", "lock", "write", "wait", "ready"}]
        /\ request' \in [Callers -> Requests \cup {NoRequest}]
    BY <1>2, <2>2 DEF Send
  <2>4. nextId' \in [Servers -> Nat]
    BY <1>2, <2>1 DEF Send
  <2>5. pending' \in [Servers -> SUBSET Requests]
    BY <1>2, <2>1, <2>2 DEF Send
  <2> QED BY <1>2, <2>3, <2>4, <2>5 DEF Send, serverVars, wireVars, mapVars
<1>3. ASSUME NEW c \in Callers, Lock(c) PROVE LspTypeOK'
  BY <1>3 DEF Lock, serverVars, wireVars, mapVars
<1>4. ASSUME NEW c \in Callers, Return(c) PROVE
        /\ at' \in [Callers -> {"idle", "send", "lock", "write", "wait", "ready"}]
        /\ goal' \in [Callers -> {"initialize", "request"}]
        /\ via' \in [Callers -> Servers \cup {NoServer}]
        /\ request' \in [Callers -> Requests \cup {NoRequest}]
        /\ calls' \in [Callers -> Nat]
        /\ reply' \in [Callers -> Requests \cup {NoRequest, Closed}]
        /\ guards' \subseteq Holders /\ blocked' \subseteq Writers
  BY <1>4 DEF Return
<1>5. \A c \in Callers : Unlocked(c) \in [Servers -> Callers \cup {Nobody}]
  BY DEF Unlocked
<1>6. ASSUME NEW c \in Callers, Write(c) PROVE LspTypeOK'
  <2>1. via[c] \in Servers /\ request[c] \in Requests
    BY <1>6 DEF Write, CallsInOrder, InFlight
  <2>2. CASE life[via[c]] = "running"
    <3>1. Append(pipe[via[c]], request[c]) \in Seq(Requests)
      BY <2>1
    <3>2. pipe' \in [Servers -> Seq(Requests)]
      BY <1>6, <2>1, <2>2, <3>1 DEF Write
    <3>3. at' \in [Callers -> {"idle", "send", "lock", "write", "wait", "ready"}]
      <4>1. at' = [at EXCEPT ![c] = "wait"]
        BY <1>6, <2>2 DEF Write
      <4> QED BY <4>1
    <3>4. stdin' \in [Servers -> Callers \cup {Nobody}]
      <4>1. stdin' = Unlocked(c)
        BY <1>6 DEF Write
      <4> QED BY <1>5, <4>1
    <3> QED BY <1>6, <2>2, <3>2, <3>3, <3>4 DEF Write, serverVars, mapVars
  <2>3. CASE life[via[c]] = "ended"
    <3>1. Return(c) /\ UNCHANGED pipe /\ stdin' \in [Servers -> Callers \cup {Nobody}]
      BY <1>5, <1>6, <2>3 DEF Write
    <3> QED BY <1>4, <1>6, <3>1 DEF Write, serverVars
  <2> QED BY <1>6, <2>2, <2>3 DEF Write
<1>7. ASSUME NEW c \in Callers, Take(c) PROVE LspTypeOK'
  <2>1. CASE goal[c] = "initialize" /\ reply[c] # Closed
    BY <1>7, <2>1, ZenonT(30) DEF Take, serverVars, tableVars, wireVars, mapVars
  <2>2. CASE Return(c)
    BY <1>4, <1>7, <2>2 DEF Take, serverVars, tableVars, wireVars
  <2> QED BY <1>7, <2>1, <2>2 DEF Take
<1>8. ASSUME NEW c \in Callers, Register(c) PROVE LspTypeOK'
  <2>1. via[c] \in Servers
    BY <1>8 DEF Register, CallsInOrder
  <2>2. CASE life[via[c]] = "running"
    <3>1. server' \in Servers
      BY <1>8, <2>1, <2>2 DEF Register
    <3>2. /\ at' \in [Callers -> {"idle", "send", "lock", "write", "wait", "ready"}]
          /\ goal' \in [Callers -> {"initialize", "request"}]
      BY <1>8, <2>2 DEF Register
    <3>3. /\ request' \in [Callers -> Requests \cup {NoRequest}]
          /\ reply' \in [Callers -> Requests \cup {NoRequest, Closed}]
      BY <1>8, <2>2 DEF Register
    <3> QED BY <1>8, <2>2, <3>1, <3>2, <3>3 DEF Register, tableVars, wireVars, mapVars
  <2>3. CASE life[via[c]] = "ended"
    BY <1>4, <1>8, <2>3 DEF Register, tableVars, wireVars
  <2> QED BY <1>8, <2>2, <2>3 DEF Register
<1>9. ASSUME NEW c \in Callers, Timeout(c) PROVE LspTypeOK'
  BY <1>4, <1>9 DEF Timeout, serverVars, tableVars, wireVars
<1>10. ASSUME NEW c \in Callers, Cancel(c) PROVE LspTypeOK'
  BY <1>4, <1>5, <1>10 DEF Cancel, serverVars, wireVars
<1>11. ASSUME NEW s \in Servers, ServerReads(s) PROVE LspTypeOK'
  <2>1. pipe[s] \in Seq(Requests) /\ pipe[s] # <<>>
    BY <1>11 DEF ServerReads
  <2>2. Head(pipe[s]) \in Requests /\ Tail(pipe[s]) \in Seq(Requests)
    BY <2>1
  <2> QED BY <1>11, <2>2 DEF ServerReads, serverVars, tableVars, callVars, mapVars
<1>12. ASSUME NEW s \in Servers, NEW id, NEW what \in Requests \cup {Closed},
              Deliver(s, id, what), received' \in [Servers -> SUBSET Requests]
       PROVE  LspTypeOK'
  <2>0. UNCHANGED <<serverVars, nextId, stdin, pipe, at, goal, via, request, calls, mapVars>>
    BY <1>12 DEF Deliver
  <2>1. pending' \in [Servers -> SUBSET Requests]
    BY <1>12 DEF Deliver
  <2>2. reply' \in [Callers -> Requests \cup {NoRequest, Closed}]
    BY <1>12 DEF Deliver
  <2> QED BY <1>12, <2>0, <2>1, <2>2 DEF serverVars, mapVars
<1>13. ASSUME NEW s \in Servers, NEW r \in received[s], Answer(s, r) PROVE LspTypeOK'
  <2>1. received' \in [Servers -> SUBSET Requests] /\ r \in Requests
    BY <1>13 DEF Answer
  <2> QED BY <1>12, <1>13, <2>1 DEF Answer
<1>14. ASSUME NEW s \in Servers, NEW p \in pending[s], Ask(s, p) PROVE LspTypeOK'
  <2>1. Deliver(s, p.id, Closed) /\ received' \in [Servers -> SUBSET Requests]
    BY <1>14 DEF Ask
  <2> QED BY <1>12, <2>1
<1>15. ASSUME NEW s \in Servers, ReaderEnds(s) \/ ServerEnds(s) PROVE LspTypeOK'
  <2>1. CASE ReaderEnds(s)
    BY <2>1 DEF ReaderEnds, tableVars, wireVars, callVars, mapVars
  <2>2. CASE ServerEnds(s)
    <3>1. <<>> \in Seq(Requests)
      OBVIOUS
    <3>2. /\ life' \in [Servers -> {"none", "running", "ended"}]
          /\ reading' \in [Servers -> BOOLEAN]
          /\ pipe' \in [Servers -> Seq(Requests)]
          /\ received' \in [Servers -> SUBSET Requests]
      BY <2>2, <3>1 DEF ServerEnds
    <3> QED BY <2>2, <3>2 DEF ServerEnds, tableVars, callVars, mapVars
  <2> QED BY <1>15, <2>1, <2>2
<1>16. ASSUME NEW w \in Writers, Block(w) \/ Unblock(w) PROVE LspTypeOK'
  BY <1>16 DEF Block, Unblock, serverVars, tableVars, wireVars, callVars
<1>17. CASE UNCHANGED lspVars
  BY <1>17 DEF lspVars, serverVars, tableVars, wireVars, callVars, mapVars
<1> QED
  BY <1>1, <1>2, <1>3, <1>6, <1>7, <1>8, <1>9, <1>10, <1>11, <1>13, <1>14, <1>15, <1>16, <1>17
  DEF LspNext, CallStep

-----------------------------------------------------------------------------
(* The ids.                                                                *)

\* Forgetting requests breaks no id.
LEMMA FewerKnown ==
  ASSUME IdsName, nextId' = nextId, \A s \in Servers : Known(s)' \subseteq Known(s)
  PROVE  IdsName'
BY DEF IdsName

\* A call that ends forgets its request.
LEMMA ReturnForgets ==
  ASSUME LspTypeOK, NEW c \in Callers, Return(c),
         pending' = pending, received' = received,
         \A s \in Servers : pipe'[s] = pipe[s]
  PROVE  \A s \in Servers : Known(s)' \subseteq Known(s)
BY DEF LspTypeOK, Return, Known, OnTheWay, InFlight

\* A message about an id takes requests from the table.
LEMMA DeliverForgets ==
  ASSUME NEW s \in Servers, NEW id, NEW what, Deliver(s, id, what), LspTypeOK,
         \A t \in Servers : received'[t] \subseteq received[t]
  PROVE  \A t \in Servers : Known(t)' \subseteq Known(t)
<1>1. UNCHANGED <<pipe, at, via, request>>
  BY DEF Deliver
<1>2. \A t \in Servers : pending'[t] \subseteq pending[t]
  BY DEF Deliver, LspTypeOK
<1> QED BY <1>1, <1>2 DEF Known, OnTheWay, InFlight

\* Every step keeps an id the name of one request: a new one is beyond those given.
LEMMA IdsKept ==
  ASSUME LspTypeOK, CallsInOrder, IdsName, [LspNext]_lspVars
  PROVE  IdsName'
<1>1. ASSUME NEW c \in Callers, Send(c) PROVE IdsName'
  <2> DEFINE v == via[c]
             r == [id |-> nextId[v], caller |-> c, number |-> calls[c]]
  <2>1. v \in Servers /\ nextId[v] \in Nat
    BY <1>1 DEF Send, CallsInOrder, LspTypeOK
  <2>2. \A s \in Servers : nextId'[s] = IF s = v THEN nextId[s] + 1 ELSE nextId[s]
    BY <1>1, <2>1 DEF Send, LspTypeOK
  <2>3. \A s \in Servers : Known(s)' \subseteq Known(s) \cup (IF s = v THEN {r} ELSE {})
    <3>1. pending' = [pending EXCEPT ![v] = {p \in @ : p.id # r.id} \cup {r}]
      BY <1>1 DEF Send
    <3>2. \A s \in Servers :
            pending'[s] \subseteq pending[s] \cup (IF s = v THEN {r} ELSE {})
      BY <2>1, <3>1 DEF LspTypeOK
    <3>3. \A s \in Servers : OnTheWay(s)' = OnTheWay(s)
      BY <1>1 DEF Send, wireVars, OnTheWay
    <3>4. \A b \in Callers : /\ via'[b] = via[b]
                              /\ IF b = c THEN request'[b] = r
                                 ELSE request'[b] = request[b] /\ at'[b] = at[b]
      BY <1>1 DEF Send, LspTypeOK
    <3>5. \A s \in Servers : \A b \in Callers : InFlight(b)' /\ via'[b] = s =>
            request'[b] \in Known(s) \cup (IF s = v THEN {r} ELSE {})
      BY <3>4 DEF Known, InFlight
    <3>6. \A s \in Servers : OnTheWay(s) \subseteq Known(s) /\ pending[s] \subseteq Known(s)
      BY DEF Known
    <3>7. \A s \in Servers : Known(s)' = pending'[s] \cup OnTheWay(s)' \cup
            {request'[b] : b \in {e \in Callers : InFlight(e)' /\ via'[e] = s}}
      BY DEF Known
    <3> HIDE DEF r, v
    <3> QED BY <3>2, <3>3, <3>5, <3>6, <3>7
  <2>4. ASSUME NEW s \in Servers, NEW p \in Known(s)' PROVE
          /\ p.id < nextId'[s]
          /\ \A q \in Known(s)' : p.id = q.id => p = q
    <3>1. \A q \in Known(s) : q.id < nextId[s] /\ \A t \in Known(s) : q.id = t.id => q = t
      BY DEF IdsName
    <3>2. nextId[s] \in Nat /\ r.id = nextId[v]
      BY DEF LspTypeOK
    <3>3. \A q \in Known(s) : q.id \in Nat
      <4>1. \A i \in DOMAIN pipe[s] : pipe[s][i] \in Requests
        BY DEF LspTypeOK
      <4>2. \A c2 \in Callers : InFlight(c2) => request[c2] \in Requests
        BY DEF CallsInOrder
      <4> QED BY <4>1, <4>2 DEF Known, OnTheWay, LspTypeOK, Requests
    <3> HIDE DEF r, v
    <3>4. CASE s = v
      BY <2>2, <2>3, <3>1, <3>2, <3>3, <3>4
    <3>5. CASE s # v
      BY <2>2, <2>3, <3>1, <3>5
    <3> QED BY <3>4, <3>5
  <2> QED BY <2>4 DEF IdsName
<1>2. ASSUME NEW c \in Callers, Call(c) PROVE IdsName'
  <2>1. UNCHANGED <<tableVars, wireVars, request>>
    BY <1>2 DEF Call
  <2>2. \A b \in Callers : InFlight(b)' => InFlight(b) /\ via'[b] = via[b]
    <3>1. at' = [at EXCEPT ![c] = "send"]
      BY <1>2 DEF Call
    <3>2. \A b \in Callers \ {c} : via'[b] = via[b]
      BY <1>2 DEF Call, LspTypeOK
    <3> QED BY <3>1, <3>2 DEF InFlight, LspTypeOK
  <2>3. \A s \in Servers : Known(s)' \subseteq Known(s)
    BY <2>1, <2>2 DEF Known, OnTheWay, tableVars, wireVars
  <2> QED BY <2>1, <2>3, FewerKnown DEF tableVars
<1>3. ASSUME NEW c \in Callers, Lock(c) PROVE IdsName'
  <2>1. UNCHANGED <<nextId, pending, pipe, received, via, request>>
    BY <1>3 DEF Lock, wireVars
  <2>2. \A b \in Callers : InFlight(b)' => InFlight(b)
    BY <1>3 DEF Lock, InFlight, LspTypeOK
  <2>3. \A s \in Servers : Known(s)' \subseteq Known(s)
    BY <2>1, <2>2 DEF Known, OnTheWay
  <2> QED BY <2>1, <2>3, FewerKnown
<1>4. ASSUME NEW c \in Callers, Write(c) PROVE IdsName'
  <2>1. via[c] \in Servers /\ request[c] \in Requests /\ InFlight(c)
    BY <1>4 DEF Write, CallsInOrder, InFlight
  <2>2. UNCHANGED <<nextId, pending, received>>
    BY <1>4 DEF Write
  <2>3. CASE life[via[c]] = "running"
    <3>1. UNCHANGED <<via, request>> /\ at' = [at EXCEPT ![c] = "wait"]
          /\ pipe' = [pipe EXCEPT ![via[c]] = Append(@, request[c])]
      BY <1>4, <2>3 DEF Write
    <3>2. \A b \in Callers : InFlight(b)' => InFlight(b)
      BY <2>1, <3>1 DEF InFlight, LspTypeOK
    <3>3. ASSUME NEW s \in Servers, NEW i \in DOMAIN pipe'[s] PROVE pipe'[s][i] \in Known(s)
      <4>1. CASE s = via[c]
        <5>1. pipe[s] \in Seq(Requests) /\ pipe'[s] = Append(pipe[s], request[c])
          BY <3>1, <4>1 DEF LspTypeOK
        <5>2. pipe'[s][i] = request[c] \/ (i \in DOMAIN pipe[s] /\ pipe'[s][i] = pipe[s][i])
          <6>1. /\ DOMAIN pipe[s] = 1..Len(pipe[s]) /\ Len(pipe[s]) \in Nat
                /\ DOMAIN pipe'[s] = 1..(Len(pipe[s]) + 1)
            BY <2>1, <5>1
          <6>2. \A j \in 1..(Len(pipe[s]) + 1) :
                  pipe'[s][j] = IF j <= Len(pipe[s]) THEN pipe[s][j] ELSE request[c]
            BY <2>1, <5>1
          <6>3. i \in 1..(Len(pipe[s]) + 1)
            BY <6>1
          <6>4. CASE i <= Len(pipe[s])
            BY <6>1, <6>2, <6>3, <6>4
          <6>5. CASE ~(i <= Len(pipe[s]))
            BY <6>2, <6>3, <6>5
          <6> QED BY <6>4, <6>5
        <5> QED BY <2>1, <4>1, <5>2 DEF Known, OnTheWay
      <4>2. CASE s # via[c]
        BY <3>1, <4>2 DEF Known, OnTheWay, LspTypeOK
      <4> QED BY <4>1, <4>2
    <3>4. \A s \in Servers : Known(s)' \subseteq Known(s)
      BY <2>2, <3>1, <3>2, <3>3 DEF Known, OnTheWay
    <3> QED BY <2>2, <3>4, FewerKnown
  <2>4. CASE life[via[c]] = "ended"
    BY <1>4, <2>2, <2>4, ReturnForgets, FewerKnown DEF Write
  <2> QED BY <1>4, <2>3, <2>4 DEF Write
<1>5. ASSUME NEW c \in Callers, Take(c) PROVE IdsName'
  <2>1. UNCHANGED <<nextId, pending, pipe, received>>
    BY <1>5 DEF Take, tableVars, wireVars
  <2>2. CASE goal[c] = "initialize" /\ reply[c] # Closed
    <3>1. UNCHANGED <<via, request>> /\ \A b \in Callers : InFlight(b)' => InFlight(b)
      BY <1>5, <2>2 DEF Take, InFlight, LspTypeOK
    <3>2. \A s \in Servers : Known(s)' \subseteq Known(s)
      BY <2>1, <3>1 DEF Known, OnTheWay
    <3> QED BY <2>1, <3>2, FewerKnown
  <2>3. CASE Return(c)
    BY <2>1, <2>3, ReturnForgets, FewerKnown
  <2> QED BY <1>5, <2>2, <2>3 DEF Take
<1>6. ASSUME NEW c \in Callers, Register(c) PROVE IdsName'
  <2>1. UNCHANGED <<nextId, pending, pipe, received>>
    BY <1>6 DEF Register, tableVars, wireVars
  <2>2. CASE life[via[c]] = "running"
    <3>1. via' = via /\ \A b \in Callers : InFlight(b)' => InFlight(b) /\ request'[b] = request[b]
      BY <1>6, <2>2 DEF Register, InFlight, LspTypeOK
    <3>2. ASSUME NEW s \in Servers PROVE Known(s)' \subseteq Known(s)
      <4>1. OnTheWay(s)' = OnTheWay(s)
        BY <2>1 DEF OnTheWay
      <4>2. ASSUME NEW b \in Callers, InFlight(b)', via'[b] = s PROVE request'[b] \in Known(s)
        <5>1. InFlight(b) /\ via[b] = s /\ request'[b] = request[b]
          BY <3>1, <4>2 DEF InFlight
        <5>2. request[b] \in {request[e] : e \in {e \in Callers : InFlight(e) /\ via[e] = s}}
          BY <5>1
        <5> QED BY <5>1, <5>2 DEF Known
      <4>3. Known(s)' = pending'[s] \cup OnTheWay(s)' \cup
              {request'[b] : b \in {e \in Callers : InFlight(e)' /\ via'[e] = s}}
        BY DEF Known
      <4>4. pending[s] \cup OnTheWay(s) \subseteq Known(s)
        BY DEF Known
      <4> QED BY <2>1, <4>1, <4>2, <4>3, <4>4
    <3> QED BY <2>1, <3>2, FewerKnown
  <2>3. CASE Return(c)
    BY <2>1, <2>3, ReturnForgets, FewerKnown
  <2> QED BY <1>6, <2>2, <2>3 DEF Register
<1>7. ASSUME NEW c \in Callers, Timeout(c) \/ Cancel(c) PROVE IdsName'
  <2>1. Return(c) /\ UNCHANGED <<nextId, pending, pipe, received>>
    BY <1>7 DEF Timeout, Cancel, tableVars, wireVars
  <2> QED BY <2>1, ReturnForgets, FewerKnown
<1>8. ASSUME NEW s \in Servers, ServerReads(s) PROVE IdsName'
  <2>1. UNCHANGED <<nextId, pending, at, via, request>>
    BY <1>8 DEF ServerReads, tableVars, callVars
  <2>2. \A t \in Servers : OnTheWay(t)' \subseteq OnTheWay(t)
    <3>1. pipe[s] \in Seq(Requests) /\ pipe[s] # <<>>
      BY <1>8 DEF ServerReads, LspTypeOK
    <3>2. /\ Head(pipe[s]) = pipe[s][1] /\ 1 \in DOMAIN pipe[s]
          /\ \A i \in DOMAIN Tail(pipe[s]) :
               i + 1 \in DOMAIN pipe[s] /\ Tail(pipe[s])[i] = pipe[s][i + 1]
      BY <3>1
    <3> QED BY <1>8, <3>2 DEF ServerReads, OnTheWay, LspTypeOK
  <2>3. \A t \in Servers : Known(t)' \subseteq Known(t)
    BY <2>1, <2>2 DEF Known, InFlight
  <2> QED BY <2>1, <2>3, FewerKnown
<1>9. ASSUME NEW s \in Servers, NEW id, NEW what, Deliver(s, id, what),
             \A t \in Servers : received'[t] \subseteq received[t]
      PROVE  IdsName'
  <2>1. nextId' = nextId
    BY <1>9 DEF Deliver
  <2> QED BY <1>9, <2>1, DeliverForgets, FewerKnown
<1>10. ASSUME NEW s \in Servers, NEW r \in received[s], Answer(s, r) PROVE IdsName'
  <2>1. \A t \in Servers : received'[t] \subseteq received[t]
    BY <1>10 DEF Answer, LspTypeOK
  <2> QED BY <1>9, <1>10, <2>1 DEF Answer
<1>11. ASSUME NEW s \in Servers, NEW p \in pending[s], Ask(s, p) PROVE IdsName'
  <2>1. Deliver(s, p.id, Closed) /\ received' = received
    BY <1>11 DEF Ask
  <2> QED BY <1>9, <2>1
<1>12. ASSUME NEW s \in Servers, ReaderEnds(s) \/ ServerEnds(s) PROVE IdsName'
  <2>1. UNCHANGED <<nextId, pending, at, via, request>>
    BY <1>12 DEF ReaderEnds, ServerEnds, tableVars, callVars
  <2>2. \A t \in Servers : OnTheWay(t)' \subseteq OnTheWay(t)
    <3>1. CASE ReaderEnds(s)
      BY <3>1 DEF ReaderEnds, wireVars, OnTheWay
    <3>2. CASE ServerEnds(s)
      <4>1. /\ pipe' = [pipe EXCEPT ![s] = <<>>]
            /\ received' = [received EXCEPT ![s] = {}]
        BY <3>2 DEF ServerEnds
      <4>2. \A t \in Servers : received'[t] \subseteq received[t]
        BY <4>1 DEF LspTypeOK
      <4>3. \A t \in Servers : pipe'[t] = IF t = s THEN <<>> ELSE pipe[t]
        BY <4>1 DEF LspTypeOK
      <4>4. DOMAIN <<>> = {}
        OBVIOUS
      <4> QED BY <4>2, <4>3, <4>4 DEF OnTheWay
    <3> QED BY <1>12, <3>1, <3>2
  <2>3. \A t \in Servers : Known(t)' \subseteq Known(t)
    BY <2>1, <2>2 DEF Known, InFlight
  <2> QED BY <2>1, <2>3, FewerKnown
<1>13. ASSUME UNCHANGED <<tableVars, wireVars, callVars>> PROVE IdsName'
  BY <1>13 DEF tableVars, wireVars, callVars, IdsName, Known, OnTheWay, InFlight
<1>14. ASSUME NEW w \in Writers, Block(w) \/ Unblock(w) PROVE IdsName'
  BY <1>13, <1>14 DEF Block, Unblock
<1>15. CASE UNCHANGED lspVars
  BY <1>13, <1>15 DEF lspVars
<1> QED
  BY <1>1, <1>2, <1>3, <1>4, <1>5, <1>6, <1>7, <1>8, <1>10, <1>11, <1>12, <1>14, <1>15
  DEF LspNext, CallStep

-----------------------------------------------------------------------------
(* What the calls know.                                                    *)

Calls == AnswersMatch /\ WaitersAreHeard /\ CallsInOrder

\* What a single call may have after a step.
CallRight(c) ==
  /\ reply[c] \in Requests => reply[c] = request[c]
  /\ at[c] \in {"lock", "write", "wait"} /\ reply[c] = NoRequest =>
       via[c] \in Servers /\ request[c] \in pending[via[c]]
  /\ at[c] # "idle" => via[c] \in Servers
  /\ IF InFlight(c) THEN request[c] \in Requests
                    ELSE request[c] = NoRequest /\ reply[c] = NoRequest

LEMMA CallByCall == Calls <=> \A c \in Callers : CallRight(c)
BY DEF Calls, CallRight, AnswersMatch, WaitersAreHeard, CallsInOrder

\* A call whose part is untouched stays right when the table keeps what it holds.
LEMMA OthersStayRight ==
  ASSUME LspTypeOK, NEW c \in Callers, CallRight(c),
         at'[c] = at[c], via'[c] = via[c], request'[c] = request[c], reply'[c] = reply[c],
         \A s \in Servers : request[c] \in pending[s] => request[c] \in pending'[s]
  PROVE  CallRight(c)'
BY DEF CallRight, InFlight

\* A call that ended knows nothing.
LEMMA ReturnRight ==
  ASSUME LspTypeOK, Calls, NEW c \in Callers, Return(c), pending' = pending
  PROVE  Calls'
<1>1. CallRight(c)'
  BY RequestAssumption DEF Return, CallRight, InFlight, LspTypeOK
<1>2. ASSUME NEW b \in Callers \ {c} PROVE CallRight(b)'
  <2>1. /\ at'[b] = at[b] /\ via'[b] = via[b]
        /\ request'[b] = request[b] /\ reply'[b] = reply[b]
    BY DEF Return, LspTypeOK
  <2> QED BY <2>1, CallByCall, OthersStayRight
<1>3. \A b \in Callers : CallRight(b)'
  BY <1>1, <1>2
<1> QED BY <1>3 DEF Calls, CallRight, AnswersMatch, WaitersAreHeard, CallsInOrder

\* A message tells those who wait for its id, and them the answer to their request.
LEMMA DeliverRight ==
  ASSUME LspTypeOK, Calls, NEW s \in Servers, NEW id, NEW what, Deliver(s, id, what),
         what = Closed \/ (what \in Requests /\ \A p \in pending[s] : p.id = id => p = what)
  PROVE  Calls'
<1>1. /\ UNCHANGED <<at, via, request>>
      /\ pending' = [pending EXCEPT ![s] = @ \ {p \in pending[s] : p.id = id}]
      /\ reply' = [c \in Callers |-> IF request[c] \in {p \in pending[s] : p.id = id}
                                     THEN what ELSE reply[c]]
  BY DEF Deliver
<1>2. ASSUME NEW c \in Callers PROVE CallRight(c)'
  <2>1. CallRight(c)
    BY CallByCall
  <2>2. CASE request[c] \in {p \in pending[s] : p.id = id}
    <3>1. reply'[c] = what /\ request[c] \in Requests
      BY <1>1, <2>2 DEF LspTypeOK
    <3>2. what # NoRequest /\ (what \in Requests => what = request[c])
      BY <2>2, RequestAssumption
    <3>3. InFlight(c)
      BY <2>1, <3>1, RequestAssumption DEF CallRight
    <3> QED BY <1>1, <2>1, <3>1, <3>2, <3>3 DEF CallRight, InFlight
  <2>3. CASE request[c] \notin {p \in pending[s] : p.id = id}
    <3>1. reply'[c] = reply[c]
      BY <1>1, <2>3
    <3>2. \A t \in Servers : request[c] \in pending[t] => request[c] \in pending'[t]
      BY <1>1, <2>3 DEF LspTypeOK
    <3> QED BY <1>1, <2>1, <3>1, <3>2, OthersStayRight
  <2> QED BY <2>2, <2>3
<1> QED BY <1>2 DEF Calls, CallRight, AnswersMatch, WaitersAreHeard, CallsInOrder

\* Every step leaves each call with its own answer, or heard, or told.
LEMMA CallsKept ==
  ASSUME LspTypeOK, Calls, IdsName, [LspNext]_lspVars
  PROVE  Calls'
<1>1. \A c \in Callers : CallRight(c)
  BY CallByCall
<1>2. (\A c \in Callers : CallRight(c)') => Calls'
  BY DEF Calls, CallRight, AnswersMatch, WaitersAreHeard, CallsInOrder
<1>3. ASSUME NEW c \in Callers, Call(c) PROVE Calls'
  <2>1. UNCHANGED <<pending, request, reply>> /\ at' = [at EXCEPT ![c] = "send"] /\ at[c] = "idle"
    BY <1>3 DEF Call, tableVars
  <2>2. via'[c] \in Servers /\ \A b \in Callers \ {c} : via'[b] = via[b]
    BY <1>3 DEF Call, LspTypeOK
  <2>3. CallRight(c)'
    BY <1>1, <2>1, <2>2, RequestAssumption DEF CallRight, InFlight, LspTypeOK
  <2>4. ASSUME NEW b \in Callers \ {c} PROVE CallRight(b)'
    BY <1>1, <2>1, <2>2, OthersStayRight DEF LspTypeOK
  <2> QED BY <1>2, <2>3, <2>4
<1>4. ASSUME NEW c \in Callers, Send(c) PROVE Calls'
  <2> DEFINE v == via[c]
             r == [id |-> nextId[v], caller |-> c, number |-> calls[c]]
  <2>1. v \in Servers /\ reply[c] = NoRequest
    BY <1>1, <1>4 DEF Send, CallRight, InFlight
  <2>2. r \in Requests /\ r.id = nextId[v]
    BY <2>1 DEF Requests, LspTypeOK
  <2>3. /\ at' = [at EXCEPT ![c] = "lock"] /\ request' = [request EXCEPT ![c] = r]
        /\ pending' = [pending EXCEPT ![v] = {p \in @ : p.id # r.id} \cup {r}]
        /\ UNCHANGED <<via, reply>>
    BY <1>4 DEF Send
  <2> HIDE DEF r, v
  <2>4. CallRight(c)'
    <3>1. at'[c] = "lock" /\ request'[c] = r /\ r \in pending'[v] /\ reply'[c] = NoRequest
      BY <2>1, <2>3 DEF LspTypeOK
    <3>2. via'[c] = v
      BY <2>3 DEF v
    <3> QED BY <2>1, <2>2, <3>1, <3>2, RequestAssumption DEF CallRight, InFlight
  <2>5. \A t \in Servers : pending[t] \subseteq pending'[t]
    <3>1. \A p \in pending[v] : p.id # r.id
      <4>1. pending[v] \subseteq Known(v) /\ nextId[v] \in Nat
        BY <2>1 DEF Known, LspTypeOK
      <4>2. \A p \in pending[v] : p.id < nextId[v] /\ p.id \in Nat
        BY <2>1, <4>1 DEF IdsName, LspTypeOK, Requests
      <4> QED BY <2>2, <4>1, <4>2
    <3> QED BY <2>1, <2>3, <3>1 DEF LspTypeOK
  <2>6. ASSUME NEW b \in Callers \ {c} PROVE CallRight(b)'
    BY <1>1, <2>3, <2>5, OthersStayRight DEF LspTypeOK
  <2> QED BY <1>2, <2>4, <2>6
<1>5. ASSUME NEW c \in Callers, NEW step \in {"write", "wait", "ready"},
             at' = [at EXCEPT ![c] = step], UNCHANGED <<pending, via, request, reply>>,
             CASE step = "write" -> at[c] = "lock"
               [] step = "wait"  -> at[c] = "write"
               [] OTHER          -> at[c] = "wait"
      PROVE  Calls'
  <2>1. CallRight(c)'
    BY <1>1, <1>5 DEF CallRight, InFlight, LspTypeOK
  <2>2. ASSUME NEW b \in Callers \ {c} PROVE CallRight(b)'
    BY <1>1, <1>5, OthersStayRight DEF LspTypeOK
  <2> QED BY <1>2, <2>1, <2>2
<1>6. ASSUME NEW c \in Callers, Lock(c) PROVE Calls'
  BY <1>5, <1>6 DEF Lock
<1>7. ASSUME NEW c \in Callers, Write(c) PROVE Calls'
  <2>1. CASE life[via[c]] = "running"
    BY <1>5, <1>7, <2>1 DEF Write
  <2>2. CASE Return(c)
    BY <1>7, <2>2, ReturnRight DEF Write
  <2> QED BY <1>7, <2>1, <2>2 DEF Write
<1>8. ASSUME NEW c \in Callers, Take(c) PROVE Calls'
  <2>1. CASE goal[c] = "initialize" /\ reply[c] # Closed
    BY <1>5, <1>8, <2>1 DEF Take, tableVars
  <2>2. CASE Return(c)
    BY <1>8, <2>2, ReturnRight DEF Take, tableVars
  <2> QED BY <1>8, <2>1, <2>2 DEF Take
<1>9. ASSUME NEW c \in Callers, Register(c) PROVE Calls'
  <2>1. CASE life[via[c]] = "running"
    <3>1. /\ at' = [at EXCEPT ![c] = "send"] /\ UNCHANGED <<via, pending>>
          /\ request' = [request EXCEPT ![c] = NoRequest]
          /\ reply' = [reply EXCEPT ![c] = NoRequest] /\ at[c] = "ready"
      BY <1>9, <2>1 DEF Register, tableVars
    <3>2. CallRight(c)'
      BY <1>1, <3>1, RequestAssumption DEF CallRight, InFlight, LspTypeOK
    <3>3. ASSUME NEW b \in Callers \ {c} PROVE CallRight(b)'
      BY <1>1, <3>1, OthersStayRight DEF LspTypeOK
    <3> QED BY <1>2, <3>2, <3>3
  <2>2. CASE Return(c)
    BY <1>9, <2>2, ReturnRight DEF Register, tableVars
  <2> QED BY <1>9, <2>1, <2>2 DEF Register
<1>10. ASSUME NEW c \in Callers, Timeout(c) \/ Cancel(c) PROVE Calls'
  BY <1>10, ReturnRight DEF Timeout, Cancel, tableVars
<1>11. ASSUME NEW s \in Servers, NEW r \in received[s], Answer(s, r) PROVE Calls'
  <2>1. r \in Requests /\ \A p \in pending[s] : p.id = r.id => p = r
    BY DEF IdsName, Known, OnTheWay, LspTypeOK
  <2>2. Deliver(s, r.id, r) \/ Deliver(s, r.id, Closed)
    BY <1>11 DEF Answer
  <2> QED BY <2>1, <2>2, DeliverRight
<1>12. ASSUME NEW s \in Servers, NEW p \in pending[s], Ask(s, p) PROVE Calls'
  <2>1. Deliver(s, p.id, Closed)
    BY <1>12 DEF Ask
  <2> QED BY <2>1, DeliverRight
<1>13. ASSUME UNCHANGED <<pending, at, via, request, reply>> PROVE Calls'
  BY <1>13 DEF Calls, AnswersMatch, WaitersAreHeard, CallsInOrder, InFlight
<1>14. ASSUME NEW s \in Servers, ServerReads(s) \/ ReaderEnds(s) \/ ServerEnds(s) PROVE Calls'
  BY <1>13, <1>14 DEF ServerReads, ReaderEnds, ServerEnds, tableVars, callVars
<1>15. ASSUME NEW w \in Writers, Block(w) \/ Unblock(w) PROVE Calls'
  BY <1>13, <1>15 DEF Block, Unblock, tableVars, callVars
<1>16. CASE UNCHANGED lspVars
  BY <1>13, <1>16 DEF lspVars, tableVars, callVars
<1> QED
  BY <1>3, <1>4, <1>6, <1>7, <1>8, <1>9, <1>10, <1>11, <1>12, <1>14, <1>15, <1>16
  DEF LspNext, CallStep

-----------------------------------------------------------------------------
\* The inductive invariant of the request table, for any number of calls and servers: ids
\* stay the names of requests through timeouts, cancellations and restarts (send_request,
\* handle_responses in src/lsp.rs).
THEOREM LspInvHolds == LspSpec => []LspInv
<1>1. LspInit => LspInv
  BY StartsRight
<1>2. LspInv /\ [LspNext]_lspVars => LspInv'
  <2>1. LspInv /\ [LspNext]_lspVars => LspTypeOK' /\ IdsName' /\ Calls'
    BY TypesKept, IdsKept, CallsKept DEF LspInv, Calls
  <2> QED BY <2>1 DEF LspInv, Calls
<1> QED BY <1>1, <1>2, PTL DEF LspSpec

\* No call is ever handed the answer to another request (send_request,
\* handle_responses).
THEOREM AnswersAlwaysMatch == LspSpec => []AnswersMatch
<1>1. LspInv => AnswersMatch
  BY DEF LspInv
<1> QED BY <1>1, LspInvHolds, PTL

\* A call that waits can be told, until it is (send_request enters it in the table
\* before it writes).
THEOREM WaitersAlwaysHeard == LspSpec => []WaitersAreHeard
<1>1. LspInv => WaitersAreHeard
  BY DEF LspInv
<1> QED BY <1>1, LspInvHolds, PTL
===============================================================================
