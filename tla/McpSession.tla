------------------------------ MODULE McpSession ------------------------------
(***************************************************************************)
(* One MCP server and the JSON-RPC session over its pipes (mcp.py,         *)
(* MCPServer and the part of MCPRegistry that starts and stops it).        *)
(*                                                                         *)
(* Tool calls of several chats share the session.  A request takes the     *)
(* session's lock, draws the next id, writes its line, waits until the     *)
(* pipe has taken it, and then reads lines until one carries its id or 30  *)
(* seconds have passed.  A call may be cancelled at any of these points,   *)
(* the answer of a call that is gone may come later, and the server may    *)
(* say things nobody asked for, fall silent or exit.                       *)
(***************************************************************************)
EXTENDS Naturals, Sequences, SequencesExt

CONSTANTS
    Callers,     (* chat turns that call this server's tools                   *)
    registry,    (* the mcp-startup task                                       *)
    MaxPages,    (* 20 in the code: pages of tools/list                        *)
    PipeSpace,   (* unread requests the pipe takes before drain() waits        *)
    OutSpace,    (* unread lines at which the server's own write blocks        *)
    ServerIds,   (* ids the server gives to requests of its own                *)
    MaxCalls,    (* calls per chat turn, and                                   *)
    MaxOwn       (* unsolicited lines: bounds of the model only                *)

ASSUME ConstantsAssumption ==
    /\ registry \notin Callers
    /\ MaxPages \in Nat \ {0}
    /\ PipeSpace \in Nat
    /\ OutSpace \in Nat \ {0}
    /\ ServerIds \subseteq Nat
    /\ MaxCalls \in Nat
    /\ MaxOwn \in Nat

Tasks == Callers \cup {registry}

(* A line of the server: the id it carries, the request it really answers   *)
(* (0 for none), and what it holds: a result, a result with a cursor to a   *)
(* next page, an error, or something request() cannot take (a line longer   *)
(* than the reader's limit, JSON that is not an object).                    *)
Kind == {"result", "more", "error", "odd"}
Line == [id : Nat, answers : Nat, kind : Kind]

VARIABLES
    phase,     (* of MCPRegistry.start for this server                         *)
    pages,     (* tools/list requests answered                                 *)
    server,    (* the process                                                  *)
    task,      (* per task: where request() is suspended                       *)
    waiters,   (* the lock: its holder, then the waiters in their order        *)
    next_id,
    mine,      (* per task: its request_id                                     *)
    stdin,     (* requests the server has not read                             *)
    asked,     (* requests it has read and not answered                        *)
    stdout,    (* lines not read by KiloFrame                                  *)
    calls,     (* per caller: calls made                                       *)
    own,       (* unsolicited lines so far                                     *)
    results    (* history: pairs of a request and the request its result is of *)

pipeVars == <<stdin, asked, stdout, own>>
bootVars == <<phase, pages, server>>
vars == <<bootVars, task, waiters, next_id, mine, pipeVars, calls, results>>

Init ==
    /\ phase = "handshake"
    /\ pages = 0
    /\ server = "up"
    /\ task = [t \in Tasks |-> "idle"]
    /\ waiters = <<>>
    /\ next_id = 0
    /\ mine = [t \in Tasks |-> 0]
    /\ stdin = <<>>
    /\ asked = {}
    /\ stdout = <<>>
    /\ calls = [t \in Callers |-> 0]
    /\ own = 0
    /\ results = {}

-----------------------------------------------------------------------------
(* request(), up to the lock *)
Queue(t) ==
    /\ task' = [task EXCEPT ![t] = "waiting"]
    /\ waiters' = Append(waiters, t)

(* start() sends initialize, then tools/list for every page. *)
BootRequest ==
    /\ task[registry] = "idle"
    /\ phase \in {"handshake", "listing"}
    /\ Queue(registry)
    /\ UNCHANGED <<bootVars, next_id, mine, pipeVars, calls, results>>

(* A tool of the server exists once its start is complete. *)
Call(t) ==
    /\ task[t] = "idle"
    /\ phase = "ready"
    /\ calls[t] < MaxCalls
    /\ calls' = [calls EXCEPT ![t] = @ + 1]
    /\ Queue(t)
    /\ UNCHANGED <<bootVars, next_id, mine, pipeVars, results>>

Holds(t) == waiters # <<>> /\ Head(waiters) = t

(* With the lock: the id is drawn and the line is written. *)
Send(t) ==
    /\ task[t] = "waiting"
    /\ Holds(t)
    /\ server = "up"
    /\ next_id' = next_id + 1
    /\ mine' = [mine EXCEPT ![t] = next_id + 1]
    /\ stdin' = Append(stdin, next_id + 1)
    /\ task' = [task EXCEPT ![t] = "sending"]
    /\ UNCHANGED <<bootVars, waiters, asked, stdout, own, calls, results>>

(* stdin.drain() returns: no timeout covers it. *)
Drained(t) ==
    /\ task[t] = "sending"
    /\ server = "up"
    /\ Len(stdin) <= PipeSpace
    /\ task' = [task EXCEPT ![t] = "reading"]
    /\ UNCHANGED <<bootVars, waiters, next_id, mine, pipeVars, calls, results>>

-----------------------------------------------------------------------------
(* Seeded fault: a call that ends early keeps the lock. *)
KeepsPlace(t) == waiters

WithoutMe(t) ==
    IF \E i \in DOMAIN waiters : waiters[i] = t
    THEN RemoveAt(waiters, CHOOSE i \in DOMAIN waiters : waiters[i] = t)
    ELSE waiters

(* async with self._lock is left, normally or by an exception. *)
Return(t) ==
    /\ task' = [task EXCEPT ![t] = "idle"]
    /\ waiters' = WithoutMe(t)

(* for _ in range(20), with this page answered *)
PagesLeft == pages + 1 < MaxPages

(* start() goes on: after the handshake comes a notification, a line without   *)
(* an id (written 0), and then the pages of tools/list.                        *)
Answered(t, kind) ==
    /\ Return(t)
    /\ IF t # registry
       THEN UNCHANGED <<bootVars, stdin>>
       ELSE /\ phase' = IF phase = "handshake" THEN "notifying"
                        ELSE IF kind = "more" /\ PagesLeft THEN "listing" ELSE "ready"
            /\ pages' = IF phase = "handshake" THEN pages ELSE pages + 1
            /\ stdin' = IF phase = "handshake" THEN Append(stdin, 0) ELSE stdin
            /\ UNCHANGED server

(* drain() of the notification *)
Notified ==
    /\ phase = "notifying"
    /\ server = "up"
    /\ Len(stdin) <= PipeSpace
    /\ phase' = "listing"
    /\ UNCHANGED <<pages, server, task, waiters, next_id, mine, pipeVars, calls, results>>

NotifyFails ==
    /\ phase = "notifying"
    /\ server = "exited"
    /\ phase' = "failed"
    /\ UNCHANGED <<pages, server, task, waiters, next_id, mine, pipeVars, calls, results>>

(* The request raises; a start that fails stops the server. *)
Fails(t) ==
    /\ Return(t)
    /\ IF t # registry
       THEN UNCHANGED bootVars
       ELSE phase' = "failed" /\ server' = "exited" /\ UNCHANGED pages

(* Seeded fault: the next line is the answer, whatever its id. *)
AnyId(t, line) == TRUE

(* payload.get("id") == request_id *)
IdMatches(t, line) == line.id = mine[t]

(* One turn of await_response. *)
ReadLine(t) ==
    /\ task[t] = "reading"
    /\ stdout # <<>>
    /\ stdout' = Tail(stdout)
    /\ LET line == Head(stdout) IN
        \/ /\ line.kind = "odd" \/ (line.kind = "error" /\ IdMatches(t, line))
           /\ Fails(t)
           /\ UNCHANGED <<stdin, results>>
        \/ /\ line.kind # "odd"
           /\ ~IdMatches(t, line)
           /\ UNCHANGED <<task, waiters, bootVars, stdin, results>>
        \/ /\ line.kind \in {"result", "more"}
           /\ IdMatches(t, line)
           /\ Answered(t, line.kind)
           /\ results' = results \cup {<<mine[t], line.answers>>}
    /\ UNCHANGED <<next_id, mine, asked, own, calls>>

(* The process is gone: _send raises, or readline returns the end of the      *)
(* stream.                                                                    *)
Broken(t) ==
    /\ server = "exited"
    /\ \/ task[t] = "waiting" /\ Holds(t)
       \/ task[t] = "sending"
       \/ task[t] = "reading" /\ stdout = <<>>
    /\ Fails(t)
    /\ UNCHANGED <<next_id, mine, pipeVars, calls, results>>

(* Seeded faults: only the handshake, or only tool calls, have the timeout. *)
HandshakeOnly(t) == task[t] = "reading" /\ t = registry
ToolCallsOnly(t) == task[t] = "reading" /\ t # registry

(* wait_for(await_response(), 30) *)
Timed(t) == task[t] = "reading"

Timeout(t) ==
    /\ Timed(t)
    /\ Fails(t)
    /\ UNCHANGED <<next_id, mine, pipeVars, calls, results>>

(* The chat's client is gone: the call is cancelled wherever it waits. *)
Cancel(t) ==
    /\ task[t] # "idle"
    /\ Return(t)
    /\ UNCHANGED <<bootVars, next_id, mine, pipeVars, calls, results>>

-----------------------------------------------------------------------------
(* The server: it can neither read nor answer while its own write blocks. *)
CanWork == server = "up" /\ Len(stdout) < OutSpace

ServerReads ==
    /\ CanWork
    /\ stdin # <<>>
    /\ stdin' = Tail(stdin)
    /\ asked' = asked \cup ({Head(stdin)} \ {0})
    /\ UNCHANGED <<bootVars, task, waiters, next_id, mine, stdout, own, calls, results>>

ServerAnswers(id, kind) ==
    /\ CanWork
    /\ asked' = asked \ {id}
    /\ stdout' = Append(stdout, [id |-> id, answers |-> id, kind |-> kind])
    /\ UNCHANGED <<bootVars, task, waiters, next_id, mine, stdin, own, calls, results>>

(* A log line, a notification (no id, written 0) or a request of its own. *)
ServerSpeaks(id) ==
    /\ CanWork
    /\ own < MaxOwn
    /\ own' = own + 1
    /\ stdout' = Append(stdout, [id |-> id, answers |-> 0, kind |-> "result"])
    /\ UNCHANGED <<bootVars, task, waiters, next_id, mine, stdin, asked, calls, results>>

ServerExits ==
    /\ server = "up"
    /\ server' = "exited"
    /\ UNCHANGED <<phase, pages, task, waiters, next_id, mine, pipeVars, calls, results>>

(* MCPServer.stop: closed, asked to end or killed, the process is gone. *)
AfterStop == IF phase = "ready" THEN "exited" ELSE server

(* The daemon stops: the mcp-startup task is cancelled and MCPRegistry.stop    *)
(* closes the servers that have started.  A server whose start is cancelled    *)
(* is not among them and runs on; calls still under way find a closed pipe.    *)
Stop ==
    /\ phase \in {"handshake", "notifying", "listing", "ready"}
    /\ phase' = "stopped"
    /\ server' = AfterStop
    /\ Return(registry)
    /\ UNCHANGED <<pages, next_id, mine, pipeVars, calls, results>>

Session ==
    \/ BootRequest
    \/ Notified
    \/ NotifyFails
    \/ \E t \in Tasks : Send(t) \/ Drained(t) \/ ReadLine(t) \/ Broken(t) \/ Timeout(t)

Server ==
    \/ ServerReads
    \/ \E id \in asked, kind \in Kind : ServerAnswers(id, kind)
    \/ \E id \in ServerIds \cup {0} : ServerSpeaks(id)

Next ==
    \/ Session
    \/ Server
    \/ \E t \in Callers : Call(t) \/ Cancel(t)
    \/ ServerExits
    \/ Stop

Spec == Init /\ [][Next]_vars

(* The event loop runs what is ready and the timeout is a timer; nothing is    *)
(* assumed of the server.                                                      *)
SessionFairness ==
    /\ WF_vars(BootRequest) /\ WF_vars(Notified) /\ WF_vars(NotifyFails)
    /\ \A t \in Tasks :
        /\ WF_vars(Send(t)) /\ WF_vars(Drained(t)) /\ WF_vars(ReadLine(t))
        /\ WF_vars(Broken(t)) /\ WF_vars(Timeout(t))

FairSpec == Spec /\ SessionFairness

(* A server that reads and answers whenever it can. *)
GoodServerSpec ==
    /\ FairSpec
    /\ WF_vars(ServerReads)
    /\ WF_vars(\E id \in asked, kind \in Kind : ServerAnswers(id, kind))

-----------------------------------------------------------------------------
TypeOK ==
    /\ phase \in {"handshake", "notifying", "listing", "ready", "failed", "stopped"}
    /\ pages \in 0..MaxPages
    /\ server \in {"up", "exited"}
    /\ task \in [Tasks -> {"idle", "waiting", "sending", "reading"}]
    /\ waiters \in Seq(Tasks)
    /\ next_id \in Nat
    /\ mine \in [Tasks -> Nat]
    /\ stdin \in Seq(Nat)
    /\ asked \in SUBSET Nat
    /\ stdout \in Seq(Line)
    /\ calls \in [Callers -> 0..MaxCalls]
    /\ own \in 0..MaxOwn
    /\ results \in SUBSET (Nat \X Nat)

(* A call only ever takes the server's result for its own request: not the    *)
(* late answer to a call that timed out or was cancelled, and not something   *)
(* the server said on its own ("anything arriving with a different id is a    *)
(* server-initiated message and is skipped rather than mistaken for the       *)
(* answer", mcp.py:164-166).                                                  *)
OwnResults == \A r \in results : r[1] = r[2]

(* The lock is never held by nobody: whoever is first in its queue is inside   *)
(* request(), everybody behind waits, and nobody is in the queue twice         *)
(* (mcp.py, async with self._lock, on every way out of request()).             *)
LockIsOwned ==
    /\ \A i \in DOMAIN waiters :
           /\ task[waiters[i]] # "idle"
           /\ i > 1 => task[waiters[i]] = "waiting"
    /\ \A i, j \in DOMAIN waiters : waiters[i] = waiters[j] => i = j
    /\ \A t \in Tasks : task[t] # "idle" => \E i \in DOMAIN waiters : waiters[i] = t

(* Every call and every start comes to an end, whatever the server does (mcp.py, *)
(* the request timeout; mcp.py:15-16 "A server that hangs must not hang          *)
(* KiloFrame, so every request has a timeout").                                  *)
CallsSettle == \A t \in Callers : task[t] # "idle" ~> task[t] = "idle"
StartSettles == <>(phase \in {"ready", "failed", "stopped"})
=============================================================================
