--------------------------- MODULE ChatPermission ---------------------------
(***************************************************************************)
(* The approval round trip of a chat request on the daemon's Unix socket   *)
(* (rpc.py, RPCServer._handle; security.py, PermissionManager; tools.py,   *)
(* ToolRegistry.execute).                                                  *)
(*                                                                         *)
(* A tool that changes state asks PermissionManager.authorize.  Unless a   *)
(* rule decides, the connection's handler writes a permission event and    *)
(* reads ONE line from the same socket, for at most 300 seconds; whatever  *)
(* line comes next is taken for the answer, and refuses the action unless  *)
(* it carries the id of the prompt.  Beside it, the handler's loop looks   *)
(* every 250 ms whether the client is gone and then cancels the turn.      *)
(* Handlers of several chats share one table of rules, and "yes, all this  *)
(* session" writes into it.                                                *)
(***************************************************************************)
EXTENDS Naturals, Sequences

CONSTANTS
    Chats,        (* concurrent chat connections                               *)
    Patient,      (* clients without a deadline of their own: tui.py blocks in *)
                  (* input(), while tui_full.py answers "no" after 280 seconds *)
    RemoteChoices, (* sets of chats that may ask for remote handling           *)
    Caps,         (* capabilities of non-safe actions                          *)
    McpCap,       (* the capability of MCP tools                               *)
    PolicyAllow,  (* policy.json                                               *)
    PolicyDeny,
    MaxRequests   (* non-safe tool calls per chat: a bound of the model only   *)

ASSUME ConstantsAssumption ==
    /\ Patient \subseteq Chats
    /\ RemoteChoices \subseteq SUBSET Chats
    /\ McpCap \in Caps
    /\ PolicyAllow \subseteq Caps
    /\ PolicyDeny \subseteq Caps
    /\ PolicyAllow \cap PolicyDeny = {}
    /\ MaxRequests \in Nat

VARIABLES
    remote,   (* chats whose request says remote: rules are not consulted      *)
    rules,    (* PermissionManager.rules, shared by all chats                  *)
    turn,     (* per chat: the model works, the handler waits for an answer,   *)
              (* an approved action runs, or the connection is closed          *)
    reqs,     (* per chat: its non-safe tool calls, the index is the uuid      *)
    prompts,  (* per chat: prompts written and not yet answered by the client  *)
    inbox,    (* per chat: answer lines the daemon has not read                *)
    peer,     (* per chat: the client's end of the socket is open              *)
    audit     (* per chat: calls with a row in the audit table                 *)

vars == <<remote, rules, turn, reqs, prompts, inbox, peer, audit>>

Said    == {"nothing", "yes", "always", "no"}
Verdict == {"open", "ran", "refused", "expired", "lost"}
Request == [cap : Caps, via : {"owner", "rule"}, said : Said, verdict : Verdict]
Answer  == [id : Nat, allow : BOOLEAN, remember : BOOLEAN]

Init ==
    /\ remote \in RemoteChoices
    /\ rules = [k \in Caps |-> IF k \in PolicyAllow THEN "allow"
                               ELSE IF k \in PolicyDeny THEN "deny" ELSE "ask"]
    /\ turn = [c \in Chats |-> "busy"]
    /\ reqs = [c \in Chats |-> <<>>]
    /\ prompts = [c \in Chats |-> <<>>]
    /\ inbox = [c \in Chats |-> <<>>]
    /\ peer = [c \in Chats |-> TRUE]
    /\ audit = [c \in Chats |-> {}]

Last(c) == Len(reqs[c])

(* execute() writes an audit row when a handler returns or raises; the         *)
(* permission check of an MCP tool stands before that try block.               *)
AuditRow(c, n, k) ==
    audit' = IF k = McpCap THEN audit ELSE [audit EXCEPT ![c] = @ \cup {n}]

(* The request being asked about ends without running. *)
Settle(c, verdict) ==
    /\ reqs' = [reqs EXCEPT ![c][Last(c)].verdict = verdict]
    /\ turn' = [turn EXCEPT ![c] = "busy"]
    /\ AuditRow(c, Last(c), reqs[c][Last(c)].cap)

-----------------------------------------------------------------------------
NewRequest(c, r) == reqs' = [reqs EXCEPT ![c] = Append(@, r)]

CanRequest(c) == turn[c] = "busy" /\ Last(c) < MaxRequests

(* authorize: a rule lets the action run without asking. *)
AllowedByRule(c, k) ==
    /\ CanRequest(c)
    /\ c \notin remote
    /\ rules[k] = "allow"
    /\ NewRequest(c, [cap |-> k, via |-> "rule", said |-> "nothing", verdict |-> "ran"])
    /\ turn' = [turn EXCEPT ![c] = "acting"]
    /\ UNCHANGED <<remote, rules, prompts, inbox, peer, audit>>

(* A deny rule, and an MCP tool asked for by a remote chat. *)
DeniedByRule(c, k) ==
    /\ CanRequest(c)
    /\ IF c \in remote THEN k = McpCap ELSE rules[k] = "deny"
    /\ NewRequest(c, [cap |-> k, via |-> "rule", said |-> "nothing", verdict |-> "refused"])
    /\ AuditRow(c, Last(c) + 1, k)
    /\ UNCHANGED <<remote, rules, turn, prompts, inbox, peer>>

Undecided(c, k) == IF c \in remote THEN k # McpCap ELSE rules[k] = "ask"

(* The handler writes a permission event and starts to read. *)
Ask(c, k) ==
    /\ CanRequest(c)
    /\ Undecided(c, k)
    /\ peer[c]
    /\ NewRequest(c, [cap |-> k, via |-> "owner", said |-> "nothing", verdict |-> "open"])
    /\ prompts' = [prompts EXCEPT ![c] = Append(@, Last(c) + 1)]
    /\ turn' = [turn EXCEPT ![c] = "asking"]
    /\ UNCHANGED <<remote, rules, inbox, peer, audit>>

(* The event cannot be written: the tool fails. *)
AskFails(c, k) ==
    /\ CanRequest(c)
    /\ Undecided(c, k)
    /\ ~peer[c]
    /\ NewRequest(c, [cap |-> k, via |-> "owner", said |-> "nothing", verdict |-> "lost"])
    /\ AuditRow(c, Last(c) + 1, k)
    /\ UNCHANGED <<remote, rules, turn, prompts, inbox, peer>>

-----------------------------------------------------------------------------
(* The client answers its oldest prompt; tui.py has no "yes, all this session". *)
OwnerAnswers(c, say) ==
    /\ say = "always" => c \notin Patient
    /\ peer[c]
    /\ turn[c] # "closed"
    /\ prompts[c] # <<>>
    /\ LET n == Head(prompts[c]) IN
        /\ reqs' = [reqs EXCEPT ![c][n].said = say]
        /\ inbox' = [inbox EXCEPT ![c] = Append(@,
               [id |-> n, allow |-> say # "no", remember |-> say = "always"])]
    /\ prompts' = [prompts EXCEPT ![c] = Tail(@)]
    /\ UNCHANGED <<remote, rules, turn, peer, audit>>

(* Seeded fault: the id of the answer is not compared. *)
AnyAnswer(c, a) == TRUE

(* answer.get("id") == permission_id *)
Matches(c, a) == a.id = Last(c)

(* The next line on the socket is taken for the answer. *)
ReadAnswer(c) ==
    /\ turn[c] = "asking"
    /\ inbox[c] # <<>>
    /\ inbox' = [inbox EXCEPT ![c] = Tail(@)]
    /\ LET a == Head(inbox[c])
           k == reqs[c][Last(c)].cap
       IN  IF Matches(c, a) /\ a.allow
           THEN /\ rules' = IF a.remember THEN [rules EXCEPT ![k] = "allow"] ELSE rules
                /\ reqs' = [reqs EXCEPT ![c][Last(c)].verdict = "ran"]
                /\ turn' = [turn EXCEPT ![c] = "acting"]
                /\ UNCHANGED audit
           ELSE Settle(c, "refused") /\ UNCHANGED rules
    /\ UNCHANGED <<remote, prompts, peer>>

(* Seeded fault: the daemon's deadline is shorter than the client's. *)
ShortDeadline(c) == turn[c] = "asking"

(* Seeded fault: the read of the answer has no timeout. *)
NoDeadline(c) == FALSE

(* 300 seconds: only a client without its own 280-second deadline sees it. *)
DaemonDeadline(c) == turn[c] = "asking" /\ c \in Patient

(* wait_for(reader.readline(), 300) times out; the prompt stays with the client. *)
Expire(c) ==
    /\ DaemonDeadline(c)
    /\ inbox[c] = <<>>
    /\ peer[c]
    /\ Settle(c, "expired")
    /\ UNCHANGED <<remote, rules, prompts, inbox, peer>>

(* readline returns b"" at the end of the stream, which is not JSON. *)
ReadEof(c) ==
    /\ turn[c] = "asking"
    /\ inbox[c] = <<>>
    /\ ~peer[c]
    /\ Settle(c, "lost")
    /\ UNCHANGED <<remote, rules, prompts, inbox, peer>>

(* Seeded fault: only failures are audited. *)
ActionEndsUnaudited(c) ==
    /\ turn[c] = "acting"
    /\ turn' = [turn EXCEPT ![c] = "busy"]
    /\ UNCHANGED <<remote, rules, reqs, prompts, inbox, peer, audit>>

(* The approved action ends, well or not. *)
ActionEnds(c) ==
    /\ turn[c] = "acting"
    /\ turn' = [turn EXCEPT ![c] = "busy"]
    /\ audit' = [audit EXCEPT ![c] = @ \cup {Last(c)}]
    /\ UNCHANGED <<remote, rules, reqs, prompts, inbox, peer>>

-----------------------------------------------------------------------------
Leave(c) ==
    /\ peer[c]
    /\ turn[c] # "closed"
    /\ peer' = [peer EXCEPT ![c] = FALSE]
    /\ prompts' = [prompts EXCEPT ![c] = <<>>]
    /\ UNCHANGED <<remote, rules, turn, reqs, inbox, audit>>

(* Seeded fault: only a turn that waits for the model is watched. *)
WatchedWhenBusy(c) == turn[c] = "busy"

Watched(c) == turn[c] \in {"busy", "asking", "acting"}

(* The 250 ms poll sees the end of the stream (reader.at_eof() is false while  *)
(* an unread line is buffered) and cancels what is pending; CancelledError     *)
(* passes execute() without an audit row.                                      *)
NoticeEof(c) ==
    /\ Watched(c)
    /\ ~peer[c]
    /\ inbox[c] = <<>>
    /\ turn' = [turn EXCEPT ![c] = "closed"]
    /\ reqs' = IF turn[c] = "asking"
               THEN [reqs EXCEPT ![c][Last(c)].verdict = "lost"] ELSE reqs
    /\ UNCHANGED <<remote, rules, prompts, inbox, peer, audit>>

(* The turn ends: its last event is sent, or sending any event fails. *)
TurnEnds(c) ==
    /\ turn[c] = "busy"
    /\ turn' = [turn EXCEPT ![c] = "closed"]
    /\ UNCHANGED <<remote, rules, reqs, prompts, inbox, peer, audit>>

Next ==
    \E c \in Chats :
        \/ \E k \in Caps : AllowedByRule(c, k)
        \/ \E k \in Caps : DeniedByRule(c, k)
        \/ \E k \in Caps : Ask(c, k)
        \/ \E k \in Caps : AskFails(c, k)
        \/ \E say \in {"yes", "always", "no"} : OwnerAnswers(c, say)
        \/ ReadAnswer(c)
        \/ Expire(c)
        \/ ReadEof(c)
        \/ ActionEnds(c)
        \/ Leave(c)
        \/ NoticeEof(c)
        \/ TurnEnds(c)

Spec == Init /\ [][Next]_vars

(* The event loop runs what is ready, both deadlines are timers and the poll   *)
(* repeats. Nothing is assumed of the model, of the action or of a patient     *)
(* owner.                                                                      *)
Fairness ==
    \A c \in Chats :
        /\ WF_vars(ReadAnswer(c))
        /\ WF_vars(Expire(c))
        /\ WF_vars(ReadEof(c))
        /\ WF_vars(NoticeEof(c))
        /\ c \notin Patient => WF_vars(OwnerAnswers(c, "no"))

FairSpec == Spec /\ Fairness

-----------------------------------------------------------------------------
TypeOK ==
    /\ remote \in SUBSET Chats
    /\ rules \in [Caps -> {"allow", "deny", "ask"}]
    /\ turn \in [Chats -> {"busy", "asking", "acting", "closed"}]
    /\ reqs \in [Chats -> Seq(Request)]
    /\ prompts \in [Chats -> Seq(Nat)]
    /\ inbox \in [Chats -> Seq(Answer)]
    /\ peer \in [Chats -> BOOLEAN]
    /\ audit \in [Chats -> SUBSET Nat]
    /\ \A c \in Chats : turn[c] \in {"asking", "acting"} => Last(c) > 0

(* An action runs only when the owner said yes to that very prompt, or when    *)
(* policy.json allows its capability, or when an owner said "yes, all this     *)
(* session" to a prompt for it - never because of an answer meant for another  *)
(* prompt or left over in the socket (rpc.py permission, security.py           *)
(* authorize).                                                                 *)
Granted(k) ==
    \/ k \in PolicyAllow
    \/ \E c \in Chats : \E n \in DOMAIN reqs[c] :
           reqs[c][n].cap = k /\ reqs[c][n].said = "always"

OnlyApprovedRuns ==
    \A c \in Chats : \A n \in DOMAIN reqs[c] :
        reqs[c][n].verdict = "ran" =>
            \/ reqs[c][n].said \in {"yes", "always"}
            \/ c \notin remote /\ Granted(reqs[c][n].cap)

(* A prompt is decided once, and granted only after the owner's first answer   *)
(* to that very prompt was a yes, however answers, deadlines and disconnects   *)
(* cross: the round trip implements Consent (rpc.py permission).               *)
StateOf(c, n) ==
    IF n \notin DOMAIN reqs[c] \/ reqs[c][n].via = "rule" THEN "unasked"
    ELSE IF reqs[c][n].verdict = "ran" THEN "granted"
    ELSE IF reqs[c][n].verdict # "open" THEN "denied"
    ELSE IF reqs[c][n].said = "nothing" THEN "open"
    ELSE IF reqs[c][n].said = "no" THEN "no" ELSE "yes"

Consent ==
    INSTANCE Consent WITH Prompts <- Chats \X (1..MaxRequests),
        state <- [p \in Chats \X (1..MaxRequests) |-> StateOf(p[1], p[2])]

KeepsConsent == Consent!Spec

(* With a client that has its own, shorter deadline an owner's answer always   *)
(* reaches the prompt it was given to: a refusal that is not the policy's is   *)
(* the owner's (tui_full.py, the 280-second deadline).                         *)
RefusedByOwner(c, n) ==
    reqs[c][n].verdict = "refused" /\ reqs[c][n].via = "owner" => reqs[c][n].said = "no"

AnswersReachTheirPrompt ==
    \A c \in Chats \ Patient : \A n \in DOMAIN reqs[c] : RefusedByOwner(c, n)

(* The audit table never claims a call that is still being decided, and a     *)
(* chat that goes on to its next call has left a row for every action that    *)
(* ran before it (tools.py, execute).                                         *)
AuditOfSettledCalls ==
    \A c \in Chats :
        /\ \A n \in audit[c] : n \in DOMAIN reqs[c] /\ reqs[c][n].verdict # "open"
        /\ \A n \in DOMAIN reqs[c] :
               reqs[c][n].verdict = "ran" /\ n < Last(c) => n \in audit[c]

(* No chat waits for an answer for ever (rpc.py, the 300-second deadline).     *)
PromptIsSettled == \A c \in Chats : turn[c] = "asking" ~> turn[c] # "asking"

(* When the client is gone the turn is closed without waiting for the model    *)
(* or the running action to say something (rpc.py, the poll of the socket).    *)
DisconnectEndsTurn == \A c \in Chats \ Patient : ~peer[c] ~> turn[c] = "closed"
=============================================================================
