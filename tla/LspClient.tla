------------------------------- MODULE LspClient -------------------------------
(***************************************************************************)
(* The client of one language's server (src/lsp.rs) and the tools that     *)
(* call it (src/engine/mod.rs): requests written to the server's input     *)
(* under a lock, a table of who waits for which answer, a task that reads  *)
(* the answers, timeouts around the wait and, for find_references, around  *)
(* the whole call.                                                         *)
(*                                                                         *)
(* Some callers keep a guard of the symbol map across the call.  A task    *)
(* that wants to change the map meanwhile blocks its thread; the runtime   *)
(* has `Workers' of them, and without a free one nothing moves: no task,   *)
(* no timer, no reading of answers.                                        *)
(*                                                                         *)
(* The servers, tokio and the operating system are modelled by what the    *)
(* code relies on: a message is written as a whole or not at all (it is    *)
(* shorter than a pipe writes at once), a server may answer in any order,  *)
(* late or never, ask a question of its own, stop reading, or end.         *)
(***************************************************************************)
EXTENDS Naturals, FiniteSets, Sequences

CONSTANTS
  Callers,       \* tool calls that may be going on at once
  Holders,       \* of these: get_symbol_definition and find_references, which hold the guard
  Hurried,       \*   and find_references, which gives up after a while
  Writers,       \* tasks that change the symbol map (the watcher, a walk)
  Workers,       \* threads of the runtime
  Servers,       \* server processes that may be started, numbered as they are
  NoServer, Nobody, NoRequest,
  Closed,        \* told to a call whose sender was dropped
  PipeCapacity,  \* messages that fit between a server and us
  MaxCalls       \* bound: calls of each caller

ASSUME CallersAssumption == Holders \subseteq Callers /\ Hurried \subseteq Callers
ASSUME NobodyAssumption == Nobody \notin Callers /\ NoServer \notin Servers
ASSUME NumbersAssumption == PipeCapacity \in Nat /\ MaxCalls \in [Callers -> Nat] /\ Workers \in Nat /\ Servers \subseteq Nat

\* A request: the id it has in the protocol, and which call of whom it is for.
Requests == [id : Nat, caller : Callers, number : Nat]
ASSUME RequestAssumption == {NoRequest, Closed} \cap Requests = {} /\ NoRequest # Closed

VARIABLES
  server,                      \* LspManager.servers for the language
  life, reading,               \* a server process; the task that reads from it
  nextId, pending, stdin,      \* LspProcess: next_id, pending_requests, the lock of stdin
  pipe, received,              \* requests written, and those the server has read
  at, goal, via, request, calls, reply,  \* a call: its step, what for, by which server
  guards, blocked              \* who holds the symbol map, which writers wait for it

serverVars == <<server, life, reading>>
tableVars  == <<nextId, pending, stdin>>
wireVars   == <<pipe, received>>
callVars   == <<at, goal, via, request, calls, reply>>
mapVars    == <<guards, blocked>>
lspVars == <<serverVars, tableVars, wireVars, callVars, mapVars>>

WorkerFree == Cardinality(blocked) < Workers

LspInit ==
  /\ server = NoServer
  /\ life = [s \in Servers |-> "none"] /\ reading = [s \in Servers |-> FALSE]
  /\ nextId = [s \in Servers |-> 1] /\ pending = [s \in Servers |-> {}]
  /\ stdin = [s \in Servers |-> Nobody]
  /\ pipe = [s \in Servers |-> <<>>] /\ received = [s \in Servers |-> {}]
  /\ at = [c \in Callers |-> "idle"] /\ goal = [c \in Callers |-> "request"]
  /\ via = [c \in Callers |-> NoServer] /\ request = [c \in Callers |-> NoRequest]
  /\ calls = [c \in Callers |-> 0] /\ reply = [c \in Callers |-> NoRequest]
  /\ guards = {} /\ blocked = {}

-----------------------------------------------------------------------------
(* A call.                                                                 *)

\* The registered server, or else one started for this call (a start that fails at once
\* ends the call and is left out).
Call(c) ==
  /\ WorkerFree
  /\ at[c] = "idle" /\ calls[c] < MaxCalls[c]
  /\ at' = [at EXCEPT ![c] = "send"]
  /\ calls' = [calls EXCEPT ![c] = @ + 1]
  /\ guards' = guards \cup ({c} \cap Holders)
  /\ \/ /\ server # NoServer
        /\ via' = [via EXCEPT ![c] = server]
        /\ goal' = [goal EXCEPT ![c] = "request"]
        /\ UNCHANGED <<life, reading>>
     \/ /\ server = NoServer
        /\ \E s \in Servers :
             /\ life[s] = "none" /\ \A t \in Servers : life[t] = "none" => s <= t
             /\ life' = [life EXCEPT ![s] = "running"]
             /\ reading' = [reading EXCEPT ![s] = TRUE]
             /\ via' = [via EXCEPT ![c] = s]
        /\ goal' = [goal EXCEPT ![c] = "initialize"]
  /\ UNCHANGED <<server, tableVars, wireVars, request, reply, blocked>>

\* (Mutant: the id is taken from the size of the table.)
SendCounted(c) ==
  LET s == via[c]
      r == [id |-> Cardinality(pending[s]) + 1, caller |-> c, number |-> calls[c]]
  IN
  /\ WorkerFree /\ at[c] = "send"
  /\ at' = [at EXCEPT ![c] = "lock"]
  /\ request' = [request EXCEPT ![c] = r]
  /\ pending' = [pending EXCEPT ![s] = {p \in @ : p.id # r.id} \cup {r}]
  /\ UNCHANGED <<serverVars, nextId, stdin, wireVars, goal, via, calls, reply, mapVars>>

\* (Mutant: the request is not entered in the table.)
SendUnheard(c) ==
  LET s == via[c]
      r == [id |-> nextId[s], caller |-> c, number |-> calls[c]]
  IN
  /\ WorkerFree /\ at[c] = "send"
  /\ at' = [at EXCEPT ![c] = "lock"]
  /\ request' = [request EXCEPT ![c] = r]
  /\ nextId' = [nextId EXCEPT ![s] = @ + 1]
  /\ UNCHANGED <<serverVars, pending, stdin, wireVars, goal, via, calls, reply, mapVars>>

\* send_request, up to the lock.
Send(c) ==
  LET s == via[c]
      r == [id |-> nextId[s], caller |-> c, number |-> calls[c]]
  IN
  /\ WorkerFree /\ at[c] = "send"
  /\ at' = [at EXCEPT ![c] = "lock"]
  /\ request' = [request EXCEPT ![c] = r]
  /\ nextId' = [nextId EXCEPT ![s] = @ + 1]
  /\ pending' = [pending EXCEPT ![s] = {p \in @ : p.id # r.id} \cup {r}]
  /\ UNCHANGED <<serverVars, stdin, wireVars, goal, via, calls, reply, mapVars>>

Lock(c) ==
  /\ WorkerFree /\ at[c] = "lock" /\ stdin[via[c]] = Nobody
  /\ at' = [at EXCEPT ![c] = "write"]
  /\ stdin' = [stdin EXCEPT ![via[c]] = c]
  /\ UNCHANGED <<serverVars, nextId, pending, wireVars, goal, via, request, calls, reply, mapVars>>

\* (Mutant: the guard is kept.)
ReturnHolding(c) ==
  /\ at' = [at EXCEPT ![c] = "idle"] /\ goal' = [goal EXCEPT ![c] = "request"]
  /\ via' = [via EXCEPT ![c] = NoServer] /\ request' = [request EXCEPT ![c] = NoRequest]
  /\ reply' = [reply EXCEPT ![c] = NoRequest]
  /\ UNCHANGED <<calls, mapVars>>

\* The call is over, and with it the guard.  Its entry stays in the table.
Return(c) ==
  /\ at' = [at EXCEPT ![c] = "idle"] /\ goal' = [goal EXCEPT ![c] = "request"]
  /\ via' = [via EXCEPT ![c] = NoServer] /\ request' = [request EXCEPT ![c] = NoRequest]
  /\ reply' = [reply EXCEPT ![c] = NoRequest]
  /\ guards' = guards \ {c}
  /\ UNCHANGED <<calls, blocked>>

Unlocked(c) == [s \in Servers |-> IF stdin[s] = c THEN Nobody ELSE stdin[s]]

\* A full pipe keeps the writer, and the lock with it; no timeout runs yet.
Write(c) ==
  LET s == via[c] IN
  /\ WorkerFree /\ at[c] = "write"
  /\ stdin' = Unlocked(c)
  /\ \/ /\ life[s] = "running" /\ Len(pipe[s]) < PipeCapacity
        /\ pipe' = [pipe EXCEPT ![s] = Append(@, request[c])]
        /\ at' = [at EXCEPT ![c] = "wait"]
        /\ UNCHANGED <<goal, via, request, calls, reply, mapVars>>
     \/ life[s] = "ended" /\ Return(c) /\ UNCHANGED pipe
  /\ UNCHANGED <<serverVars, nextId, pending, received>>

\* The answer, or the news that none will come: the end of the call, or of `initialize'.
Take(c) ==
  /\ WorkerFree /\ at[c] = "wait" /\ reply[c] # NoRequest
  /\ \/ /\ goal[c] = "initialize" /\ reply[c] # Closed
        /\ at' = [at EXCEPT ![c] = "ready"]
        /\ UNCHANGED <<goal, via, request, calls, reply, mapVars>>
     \/ (goal[c] = "request" \/ reply[c] = Closed) /\ Return(c)
  /\ UNCHANGED <<serverVars, tableVars, wireVars>>

\* initialize_server's notification, which finds the lock free and the pipe empty;
\* then the server takes the place of whichever is registered by now.
Register(c) ==
  /\ WorkerFree /\ at[c] = "ready"
  /\ \/ /\ life[via[c]] = "running"
        /\ server' = via[c]
        /\ at' = [at EXCEPT ![c] = "send"] /\ goal' = [goal EXCEPT ![c] = "request"]
        /\ request' = [request EXCEPT ![c] = NoRequest]
        /\ reply' = [reply EXCEPT ![c] = NoRequest]
        /\ UNCHANGED <<via, calls, mapVars>>
     \/ life[via[c]] = "ended" /\ Return(c) /\ UNCHANGED server
  /\ UNCHANGED <<life, reading, tableVars, wireVars>>

\* send_request's timeout, which an answer that is there precedes.
Timeout(c) ==
  /\ WorkerFree /\ at[c] = "wait" /\ reply[c] = NoRequest
  /\ Return(c)
  /\ UNCHANGED <<serverVars, tableVars, wireVars>>

\* (Mutant: find_references gives up only where send_request would.)
CancelWaiting(c) ==
  /\ WorkerFree /\ c \in Hurried /\ at[c] = "wait"
  /\ Return(c) /\ stdin' = Unlocked(c)
  /\ UNCHANGED <<serverVars, nextId, pending, wireVars>>

\* find_references gives up, wherever its call is.
Cancel(c) ==
  /\ WorkerFree /\ c \in Hurried /\ at[c] # "idle"
  /\ Return(c) /\ stdin' = Unlocked(c)
  /\ UNCHANGED <<serverVars, nextId, pending, wireVars>>

-----------------------------------------------------------------------------
(* The server, and handle_responses.                                       *)

ServerReads(s) ==
  /\ life[s] = "running" /\ pipe[s] # <<>>
  /\ received' = [received EXCEPT ![s] = @ \cup {Head(pipe[s])}]
  /\ pipe' = [pipe EXCEPT ![s] = Tail(@)]
  /\ UNCHANGED <<serverVars, tableVars, callVars, mapVars>>

\* The entry of this id leaves the table, and whoever still waits is told.
Deliver(s, id, what) ==
  LET entry == {p \in pending[s] : p.id = id} IN
  /\ WorkerFree /\ reading[s]
  /\ pending' = [pending EXCEPT ![s] = @ \ entry]
  /\ reply' = [c \in Callers |-> IF request[c] \in entry THEN what ELSE reply[c]]
  /\ UNCHANGED <<serverVars, nextId, stdin, pipe, at, goal, via, request, calls, mapVars>>

\* An answer; with a null result or an error the sender is dropped.
Answer(s, r) ==
  /\ r \in received[s]
  /\ received' = [received EXCEPT ![s] = @ \ {r}]
  /\ Deliver(s, r.id, r) \/ Deliver(s, r.id, Closed)

\* A request of the server's own, whose id is that of one of ours.
Ask(s, p) ==
  /\ life[s] = "running" /\ p \in pending[s]
  /\ Deliver(s, p.id, Closed)
  /\ UNCHANGED received

\* A message that is not understood ends the task.
ReaderEnds(s) ==
  /\ WorkerFree /\ reading[s]
  /\ reading' = [reading EXCEPT ![s] = FALSE]
  /\ UNCHANGED <<server, life, tableVars, wireVars, callVars, mapVars>>

ServerEnds(s) ==
  /\ life[s] = "running"
  /\ life' = [life EXCEPT ![s] = "ended"]
  /\ reading' = [reading EXCEPT ![s] = FALSE]
  /\ pipe' = [pipe EXCEPT ![s] = <<>>] /\ received' = [received EXCEPT ![s] = {}]
  /\ UNCHANGED <<server, tableVars, callVars, mapVars>>

-----------------------------------------------------------------------------
(* The symbol map: a writer waits on its thread for the guards to go.      *)

Block(w) ==
  /\ WorkerFree /\ w \notin blocked /\ guards # {}
  /\ blocked' = blocked \cup {w}
  /\ UNCHANGED <<serverVars, tableVars, wireVars, callVars, guards>>

Unblock(w) ==
  /\ w \in blocked /\ guards = {}
  /\ blocked' = blocked \ {w}
  /\ UNCHANGED <<serverVars, tableVars, wireVars, callVars, guards>>

CallStep(c) == Send(c) \/ Lock(c) \/ Write(c) \/ Take(c) \/ Register(c) \/ Timeout(c)

LspNext ==
  \/ \E c \in Callers : Call(c) \/ CallStep(c) \/ Cancel(c)
  \/ \E s \in Servers : ServerReads(s) \/ ReaderEnds(s) \/ ServerEnds(s)
  \/ \E s \in Servers : \E r \in received[s] : Answer(s, r)
  \/ \E s \in Servers : \E p \in pending[s] : Ask(s, p)
  \/ \E w \in Writers : Block(w) \/ Unblock(w)

LspSpec == LspInit /\ [][LspNext]_lspVars

\* The tasks that can go on do; nothing is assumed of the server.
LspFairSpec ==
  /\ LspSpec
  /\ \A c \in Callers : WF_lspVars(CallStep(c)) /\ WF_lspVars(Cancel(c))
  /\ \A w \in Writers : WF_lspVars(Unblock(w))

-----------------------------------------------------------------------------
LspTypeOK ==
  /\ server \in Servers \cup {NoServer}
  /\ life \in [Servers -> {"none", "running", "ended"}] /\ reading \in [Servers -> BOOLEAN]
  /\ nextId \in [Servers -> Nat] /\ pending \in [Servers -> SUBSET Requests]
  /\ stdin \in [Servers -> Callers \cup {Nobody}]
  /\ pipe \in [Servers -> Seq(Requests)] /\ received \in [Servers -> SUBSET Requests]
  /\ at \in [Callers -> {"idle", "send", "lock", "write", "wait", "ready"}]
  /\ goal \in [Callers -> {"initialize", "request"}]
  /\ via \in [Callers -> Servers \cup {NoServer}]
  /\ request \in [Callers -> Requests \cup {NoRequest}]
  /\ calls \in [Callers -> Nat]
  /\ reply \in [Callers -> Requests \cup {NoRequest, Closed}]
  /\ guards \subseteq Holders /\ blocked \subseteq Writers

\* An answer a call takes is the answer to its own request: not to an earlier one that
\* timed out, nor to another call's (send_request, handle_responses).
AnswersMatch == \A c \in Callers : reply[c] \in Requests => reply[c] = request[c]

\* Until it is told something, a call that sent a request is in the table of its server
\* under the request's id (send_request enters it before it writes).
WaitersAreHeard ==
  \A c \in Callers :
    at[c] \in {"lock", "write", "wait"} /\ reply[c] = NoRequest =>
      \E s \in Servers : s = via[c] /\ request[c] \in pending[s]

-----------------------------------------------------------------------------
(* Why they hold: an id names one request of its server.                   *)

InFlight(c) == at[c] \in {"lock", "write", "wait", "ready"}
OnTheWay(s) == received[s] \cup {pipe[s][i] : i \in DOMAIN pipe[s]}
Known(s) ==
  pending[s] \cup OnTheWay(s) \cup {request[c] : c \in {b \in Callers : InFlight(b) /\ via[b] = s}}

CallsInOrder ==
  \A c \in Callers :
    /\ at[c] # "idle" => via[c] \in Servers
    /\ IF InFlight(c) THEN request[c] \in Requests
                      ELSE request[c] = NoRequest /\ reply[c] = NoRequest

IdsName ==
  \A s \in Servers : \A p \in Known(s) :
    p.id < nextId[s] /\ \A q \in Known(s) : p.id = q.id => p = q

\* The inductive invariant of the request table.
LspInv == LspTypeOK /\ AnswersMatch /\ WaitersAreHeard /\ CallsInOrder /\ IdsName

\* find_references comes back whatever the server does ("we don't block the full LSP
\* timeout"), as long as the writers leave the runtime a thread.
HurriedReturn == \A c \in Hurried : []<>(at[c] = "idle")

\* If servers read what they are sent, every call comes back and every writer gets the
\* map; the timeout of send_request does not cover the writing.
ServersKeepReading ==
  \A s \in Servers : []<>(life[s] # "running" \/ Len(pipe[s]) < PipeCapacity)
EveryCallReturns ==
  ServersKeepReading =>
    (\A c \in Callers : []<>(at[c] = "idle")) /\ (\A w \in Writers : []<>(w \notin blocked))
===============================================================================
