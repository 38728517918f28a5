------------------------------ MODULE AgentTurn ------------------------------
(***************************************************************************)
(* One chat turn of KiloFrame's agent loop (agent.py, Agent.run): the      *)
(* framework asks a model for a reply, streams it to the client, runs the  *)
(* tool calls it contains, and puts a reply without tool calls through an  *)
(* ordered row of gates before it is accepted, stored in the session's     *)
(* history and reported as done.                                           *)
(*                                                                         *)
(* The model behind the loop is arbitrary: any text class and any tool     *)
(* calls may arrive at any step, the stream may break, a tool may fail,    *)
(* and the client may leave at any point where the generator is suspended. *)
(***************************************************************************)
EXTENDS Naturals, Sequences

CONSTANTS
    Tools,          (* names a tool call may carry                            *)
    Args,           (* argument objects that parse as a JSON object           *)
    Malformed,      (* arguments that do not                                  *)
    Changing,       (* calls that change state when they succeed              *)
    Texts,          (* classes of reply text, a subset of TextClass           *)
    Offers,         (* possible values of the turn's filtered tool schema     *)
    MaxCalls,       (* tool calls in one reply: a bound of the model only     *)
    MaxSteps,       (* agent steps of the turn (effort / max_agent_steps)     *)
    FailureNudges,  (* 2 in the code                                          *)
    NudgeLimit      (* 3 in the code                                          *)

Call    == [tool : Tools, arg : Args \cup {Malformed}]
Run     == [tool : Tools, arg : Args]     (* a call whose arguments parsed *)
Entry   == [call : Run, ok : BOOLEAN]     (* a run that returned *)

(* What the gates can tell about a reply's text: whether anything is left   *)
(* of it once the address is stripped, and which regular expressions match. *)
TextClass == [body : {"none", "flourish", "some"}, admits : BOOLEAN,
              denial : BOOLEAN, refusal : BOOLEAN, punt : BOOLEAN]

ASSUME ConstantsAssumption ==
    /\ {"web_search", "web_fetch"} \subseteq Tools
    /\ Malformed \notin Args
    /\ Changing \subseteq Run
    /\ Texts \subseteq TextClass
    /\ Offers \subseteq SUBSET Tools
    /\ MaxCalls \in Nat
    /\ MaxSteps \in Nat \ {0}
    /\ FailureNudges \in Nat
    /\ NudgeLimit \in Nat

NudgeKind == {"failure", "inline", "research", "capability", "refusal", "follow"}
Failed    == {"unverified", "unresearched", "denied", "refused", "promised"}
Verdict   == {"answer", "no_answer", "limited"} \cup Failed
Outcome   == {"running", "error", "cancelled"} \cup Verdict

VARIABLES
    pc,                   (* where the generator is suspended                 *)
    research_required,    (* the turn's profile is research or private        *)
    offered,              (* names in tool_schemas                            *)
    step,                 (* model requests made                              *)
    nudges,               (* the *_nudges counters, inline_nudged as 0 or 1   *)
    seen_calls,
    successful_tools,
    unresolved_failures,  (* its keys: tool names                             *)
    sir_started,
    emitted_this_step,
    inline_markup,        (* of the reply being streamed or judged            *)
    text,                 (* class of the reply being judged                  *)
    cut,                  (* finish_reason == "length"                        *)
    todo,                 (* tool calls of the reply still to be handled      *)
    current,              (* <<call>> while a tool runs, else <<>>            *)
    ending,               (* the verdict being delivered                      *)
    shown,                (* what a client that honours response_reset shows  *)
    recorded,             (* assistant messages this turn added to memory     *)
    outcome,
    log                   (* history: every tool run that returned            *)

gateVars  == <<nudges, seen_calls, successful_tools, unresolved_failures>>
replyVars == <<inline_markup, text, cut>>
turnVars  == <<research_required, offered>>
vars == <<pc, turnVars, step, gateVars, sir_started, emitted_this_step, replyVars,
          todo, current, ending, shown, recorded, outcome, log>>

NoText == [body |-> "none", admits |-> FALSE, denial |-> FALSE,
           refusal |-> FALSE, punt |-> TRUE]

(* The tokens a client can have on screen: the opening "Sir, ", draft text   *)
(* of a step, the closing ", Sir.", or a complete framework message.         *)
Sir      == [kind |-> "sir", step |-> 0]
Draft(n) == [kind |-> "draft", step |-> n]
Close    == [kind |-> "close", step |-> 0]
Message  == [kind |-> "message", step |-> 0]
Token    == [kind : {"sir", "draft", "close", "message"}, step : Nat]

Init ==
    /\ pc = "think"
    /\ research_required \in BOOLEAN
    /\ offered \in Offers
    /\ step = 0
    /\ nudges = [k \in NudgeKind |-> 0]
    /\ seen_calls = {}
    /\ successful_tools = {}
    /\ unresolved_failures = {}
    /\ sir_started = FALSE
    /\ emitted_this_step = FALSE
    /\ inline_markup = FALSE
    /\ text = NoText
    /\ cut = FALSE
    /\ todo = <<>>
    /\ current = <<>>
    /\ ending = "running"
    /\ shown = <<>>
    /\ recorded = <<>>
    /\ outcome = "running"
    /\ log = <<>>

-----------------------------------------------------------------------------
(* for _step in range(max_steps) *)
StepsLeft == step < MaxSteps

(* One model request: ensure_ready, then the stream is opened. *)
Think ==
    /\ pc = "think"
    /\ StepsLeft
    /\ pc' = "stream"
    /\ step' = step + 1
    /\ emitted_this_step' = FALSE
    /\ inline_markup' = FALSE
    /\ text' = NoText
    /\ cut' = FALSE
    /\ UNCHANGED <<turnVars, gateVars, sir_started, todo, current, ending, shown,
                   recorded, outcome, log>>

(* More text than the 64-character guard holds back becomes visible. It may   *)
(* still turn out to be nothing but the address once the reply is complete.   *)
StreamText ==
    /\ pc = "stream"
    /\ ~inline_markup
    /\ ~emitted_this_step
    /\ shown' = shown \o (IF sir_started THEN <<Draft(step)>> ELSE <<Sir, Draft(step)>>)
    /\ sir_started' = TRUE
    /\ emitted_this_step' = TRUE
    /\ UNCHANGED <<pc, turnVars, step, gateVars, replyVars, todo, current, ending,
                   recorded, outcome, log>>

(* A tool-call marker in the text: what was shown of this reply is retracted *)
(* and nothing more of it is shown.                                          *)
StreamMarker ==
    /\ pc = "stream"
    /\ ~inline_markup
    /\ inline_markup' = TRUE
    /\ shown' = IF emitted_this_step THEN <<>> ELSE shown
    /\ emitted_this_step' = FALSE
    /\ sir_started' = FALSE
    /\ UNCHANGED <<pc, turnVars, step, gateVars, text, cut, todo, current, ending,
                   recorded, outcome, log>>

Replies == UNION {[1..n -> Call] : n \in 0..MaxCalls}

(* The stream ends: the guarded rest is flushed, the reply's tool calls are   *)
(* known (native ones, which may name any tool, or else those recovered from  *)
(* inline markup), and narration beside a tool call is retracted.             *)
StreamEnd(calls, t, length) ==
    LET opens   == ~inline_markup /\ t.body # "none" /\ ~sir_started
        adds    == ~inline_markup /\ t.body = "some" /\ ~emitted_this_step
        visible == emitted_this_step \/ adds
        retract == calls # <<>> /\ visible
    IN  /\ pc = "stream"
        /\ pc' = IF calls = <<>> THEN "judge" ELSE "tools"
        /\ todo' = calls
        /\ text' = t
        /\ cut' = length
        /\ shown' = IF retract THEN <<>>
                    ELSE shown \o (IF opens THEN <<Sir>> ELSE <<>>)
                               \o (IF adds THEN <<Draft(step)>> ELSE <<>>)
        /\ emitted_this_step' = (visible /\ ~retract)
        /\ sir_started' = ((sir_started \/ opens) /\ ~retract)
        /\ UNCHANGED <<turnVars, step, gateVars, inline_markup, current, ending,
                       recorded, outcome, log>>

(* ensure_ready or the stream raises: the exception leaves the generator. *)
StreamFails ==
    /\ pc = "stream"
    /\ pc' = "done"
    /\ outcome' = "error"
    /\ UNCHANGED <<turnVars, step, gateVars, sir_started, emitted_this_step, replyVars,
                   todo, current, ending, shown, recorded, log>>

-----------------------------------------------------------------------------
(* Tool dispatch. *)

(* A call whose arguments do not parse, and an unchanged duplicate, never run. *)
RejectCall ==
    /\ pc = "tools"
    /\ todo # <<>>
    /\ LET c == Head(todo) IN
        \/ /\ c.arg = Malformed
           /\ unresolved_failures' = unresolved_failures \cup {c.tool}
        \/ /\ c \in seen_calls
           /\ UNCHANGED unresolved_failures
    /\ todo' = Tail(todo)
    /\ UNCHANGED <<pc, turnVars, step, nudges, seen_calls, successful_tools, sir_started,
                   emitted_this_step, replyVars, current, ending, shown, recorded,
                   outcome, log>>

StartCall ==
    /\ pc = "tools"
    /\ todo # <<>>
    /\ Head(todo).arg # Malformed
    /\ Head(todo) \notin seen_calls
    /\ seen_calls' = seen_calls \cup {Head(todo)}
    /\ current' = <<Head(todo)>>
    /\ todo' = Tail(todo)
    /\ pc' = "running"
    /\ UNCHANGED <<turnVars, step, nudges, successful_tools, unresolved_failures,
                   sir_started, emitted_this_step, replyVars, ending, shown, recorded,
                   outcome, log>>

(* Seeded faults: a change that failed still unlocks every repeat; any        *)
(* success clears every failure.                                              *)
SeenForgotten(c, ok) == IF c \in Changing THEN {} ELSE seen_calls
FailuresForgotten(c, ok) == IF ok THEN {} ELSE unresolved_failures \cup {c.tool}

(* A successful change can make an earlier call useful again. *)
SeenAfter(c, ok) == IF ok /\ c \in Changing THEN {} ELSE seen_calls

FailuresAfter(c, ok) ==
    IF ok THEN unresolved_failures \ {c.tool} ELSE unresolved_failures \cup {c.tool}

(* A result that tool_failed() rejects and an exception have the same effect. *)
CallReturns(ok) ==
    LET c == current[1] IN
    /\ pc = "running"
    /\ current' = <<>>
    /\ pc' = "tools"
    /\ log' = Append(log, [call |-> c, ok |-> ok])
    /\ successful_tools' = IF ok THEN successful_tools \cup {c.tool} ELSE successful_tools
    /\ unresolved_failures' = FailuresAfter(c, ok)
    /\ seen_calls' = SeenAfter(c, ok)
    /\ UNCHANGED <<turnVars, step, nudges, sir_started, emitted_this_step, replyVars,
                   todo, ending, shown, recorded, outcome>>

NextStep ==
    /\ pc = "tools"
    /\ todo = <<>>
    /\ pc' = "think"
    /\ UNCHANGED <<turnVars, step, gateVars, sir_started, emitted_this_step, replyVars,
                   todo, current, ending, shown, recorded, outcome, log>>

-----------------------------------------------------------------------------
(* The gates for a reply without tool calls, in the order of the code: each   *)
(* gate's guard is that it applies and no earlier one does.                   *)

(* Seeded fault: a successful search counts as research. *)
SearchMissing == {"web_search"} \ successful_tools

Unadmitted == unresolved_failures # {} /\ ~text.admits
Missing    == {"web_search", "web_fetch"} \ successful_tools

GateOf ==
    IF cut THEN "length"
    ELSE IF Unadmitted THEN "failure"
    ELSE IF inline_markup /\ nudges["inline"] = 0 THEN "inline"
    ELSE IF research_required /\ Missing # {} THEN "research"
    ELSE IF offered # {} /\ text.denial THEN "capability"
    ELSE IF text.refusal THEN "refusal"
    ELSE IF text.punt THEN "follow"
    ELSE "accept"

Limit(k) == CASE k = "failure" -> FailureNudges
              [] k = "inline"  -> 1
              [] OTHER         -> NudgeLimit

VerdictOf(k) == CASE k = "failure"    -> "unverified"
                  [] k = "research"   -> "unresearched"
                  [] k = "capability" -> "denied"
                  [] k = "refusal"    -> "refused"
                  [] OTHER            -> "promised"

(* Seeded fault: no response_reset before the model is asked again. *)
NotRetracted == shown

(* yield response_reset when this step put something on screen *)
Retracted == IF emitted_this_step THEN <<>> ELSE shown

(* The cut-off reply is dropped; the model is asked to continue. *)
LengthCut ==
    /\ pc = "judge"
    /\ GateOf = "length"
    /\ pc' = "think"
    /\ shown' = Retracted
    /\ sir_started' = FALSE
    /\ UNCHANGED <<turnVars, step, gateVars, emitted_this_step, replyVars, todo, current,
                   ending, recorded, outcome, log>>

(* The reply is dropped and the model is told why, a bounded number of times. *)
Nudge(k) ==
    /\ pc = "judge"
    /\ GateOf = k
    /\ nudges[k] < Limit(k)
    /\ nudges' = [nudges EXCEPT ![k] = @ + 1]
    /\ pc' = "think"
    /\ shown' = Retracted
    /\ emitted_this_step' = (k = "failure" /\ emitted_this_step)
    /\ sir_started' = (k # "failure" /\ ~emitted_this_step /\ sir_started)
    /\ UNCHANGED <<turnVars, step, seen_calls, successful_tools, unresolved_failures,
                   replyVars, todo, current, ending, recorded, outcome, log>>

(* Seeded fault: every verdict is stored here, and again by Finish. *)
StoredAnyway(v) == Append(recorded, v)

(* The refusal and step-limit messages are stored before their token is       *)
(* yielded, every other verdict after it (Finish).                            *)
StoredAtDelivery(v) ==
    IF v \in {"refused", "limited"} THEN Append(recorded, v) ELSE recorded

Deliver(v, screen) ==
    /\ pc' = "closing"
    /\ ending' = v
    /\ shown' = screen
    /\ recorded' = StoredAtDelivery(v)
    /\ UNCHANGED <<turnVars, step, gateVars, sir_started, emitted_this_step, replyVars,
                   todo, current, outcome, log>>

(* The nudges of a gate are used up: the turn fails in the framework's words. *)
GiveUp(k) ==
    /\ pc = "judge"
    /\ GateOf = k
    /\ k # "inline"
    /\ nudges[k] = Limit(k)
    /\ Deliver(VerdictOf(k), Append(Retracted, Message))

Accept ==
    /\ pc = "judge"
    /\ GateOf = "accept"
    /\ IF text.body = "some"
       THEN Deliver("answer", Append(shown, Close))
       ELSE Deliver("no_answer", Append(shown, Message))

(* Seeded fault: the limit is noticed one step too late. *)
StepLimitLate ==
    /\ pc = "think"
    /\ step > MaxSteps
    /\ Deliver("limited", <<Message>>)

(* The for loop is exhausted. *)
StepLimit ==
    /\ pc = "think"
    /\ step = MaxSteps
    /\ Deliver("limited", <<Message>>)

Finish ==
    /\ pc = "closing"
    /\ pc' = "done"
    /\ outcome' = ending
    /\ recorded' = IF ending \in {"refused", "limited"} THEN recorded
                   ELSE Append(recorded, ending)
    /\ UNCHANGED <<turnVars, step, gateVars, sir_started, emitted_this_step, replyVars,
                   todo, current, ending, shown, log>>

(* The client went away: the generator is closed where it is suspended. *)
Cancel ==
    /\ pc # "done"
    /\ pc' = "done"
    /\ outcome' = "cancelled"
    /\ UNCHANGED <<turnVars, step, gateVars, sir_started, emitted_this_step, replyVars,
                   todo, current, ending, shown, recorded, log>>

-----------------------------------------------------------------------------
Progress ==
    \/ Think
    \/ StreamText
    \/ StreamMarker
    \/ \E calls \in Replies, t \in Texts, length \in BOOLEAN : StreamEnd(calls, t, length)
    \/ StreamFails
    \/ RejectCall
    \/ StartCall
    \/ \E ok \in BOOLEAN : CallReturns(ok)
    \/ NextStep
    \/ LengthCut
    \/ \E k \in NudgeKind : Nudge(k)
    \/ \E k \in NudgeKind : GiveUp(k)
    \/ Accept
    \/ StepLimit
    \/ Finish

Next == Progress \/ Cancel

Spec == Init /\ [][Next]_vars

(* The generator is resumed as long as its client reads, and requests to      *)
(* Ollama and to providers and the built-in tools all carry timeouts. Tools   *)
(* of an MCP server are assumed to return; see McpSession for when they do.   *)
FairSpec == Spec /\ WF_vars(Progress)

-----------------------------------------------------------------------------
TypeOK ==
    /\ pc \in {"think", "stream", "judge", "tools", "running", "closing", "done"}
    /\ research_required \in BOOLEAN
    /\ offered \in SUBSET Tools
    /\ step \in 0..MaxSteps
    /\ nudges \in [NudgeKind -> Nat]
    /\ \A k \in NudgeKind : nudges[k] <= Limit(k)
    /\ seen_calls \in SUBSET Run
    /\ successful_tools \in SUBSET Tools
    /\ unresolved_failures \in SUBSET Tools
    /\ sir_started \in BOOLEAN
    /\ emitted_this_step \in BOOLEAN
    /\ inline_markup \in BOOLEAN
    /\ text \in TextClass
    /\ cut \in BOOLEAN
    /\ todo \in Seq(Call)
    /\ current \in Seq(Run)
    /\ pc = "running" => Len(current) = 1
    /\ ending \in {"running"} \cup Verdict
    /\ pc = "closing" => ending \in Verdict
    /\ shown \in Seq(Token)
    /\ recorded \in Seq(Verdict)
    /\ outcome \in Outcome
    /\ log \in Seq(Entry)

(* Research is an evidence-bearing task: an answer stored for a research or   *)
(* private turn was preceded, in this turn, by a search and by a fetched      *)
(* source that both really returned successfully (agent.py, research gate).   *)
Evidence(tool) == \E i \in DOMAIN log : log[i].ok /\ log[i].call.tool = tool

ResearchIsEvidenced ==
    research_required /\ (\E i \in DOMAIN recorded : recorded[i] \in {"answer", "no_answer"})
        => Evidence("web_search") /\ Evidence("web_fetch")

(* The same call never runs twice unless a state-changing call succeeded in   *)
(* between: the duplicate block neither lets a blind repeat through nor       *)
(* forgets across steps, whatever the model asks for (agent.py, seen_calls).  *)
ChangedBetween(i, j) == \E k \in i..(j - 1) : log[k].ok /\ log[k].call \in Changing

NoBlindRepeat ==
    \A i, j \in DOMAIN log : i < j /\ log[i].call = log[j].call => ChangedBetween(i, j)

(* An accepted answer owns up to every tool whose most recent run failed      *)
(* (agent.py, the unresolved-failure gate).                                   *)
LastRunFailed(tool) ==
    \E i \in DOMAIN log :
        /\ log[i].call.tool = tool
        /\ ~log[i].ok
        /\ \A j \in DOMAIN log : j > i => log[j].call.tool # tool

FailuresAreOwned ==
    (\E tool \in Tools : LastRunFailed(tool)) /\ ending \in {"answer", "no_answer"}
        => text.admits

(* A draft the framework rejected is never left on a client's screen beside   *)
(* the final message: after the verdict, draft text is there only if it is    *)
(* of the last step, whose reply was let through by every gate (agent.py,     *)
(* response_reset). Such a reply may come to nothing but address and          *)
(* flourishes: then the no-answer message stands below it (agent.py:958).     *)
NoRetractedDraft ==
    ending # "running" =>
        \A i \in DOMAIN shown :
            shown[i].kind = "draft" =>
                ending \in {"answer", "no_answer"} /\ shown[i].step = step

(* A finished turn left exactly one assistant message in the history and it   *)
(* is the reported verdict; a turn that raised left none; a cancelled one at  *)
(* most one (agent.py, add_message before every done event).                  *)
OneRecordPerTurn ==
    /\ Len(recorded) <= 1
    /\ outcome \in Verdict => recorded = <<outcome>>
    /\ outcome = "error" => recorded = <<>>

(* Every turn comes to an end however the model behaves. *)
TurnEnds == <>(pc = "done")
=============================================================================
