# KiloFrame: a verification project

KiloFrame is a local agent framework: a daemon owns the language-model routes, the tools,
the memory and the permission rules, and three clients (a full-screen terminal, a
line-mode terminal and a Telegram bridge) let an owner talk to it. A model proposes, the
framework disposes: what is interesting to verify is not what a model says but what the
framework lets happen whatever the model, the owner, the network and the timers do.

This directory holds TLA+ modules of the parts of the program that carry this control,
TLC configurations that check them on small instances, and proofs, checked by TLAPS, that
the safety properties hold for every value of the constants. All line numbers below are
those of `src/kiloframe/*.py` in the repository.

## 1. The system

| Component | State it keeps | Operations | Interacts through |
|---|---|---|---|
| Agent loop, `agent.py` | per turn: step, nudge counters, `seen_calls`, `successful_tools`, `unresolved_failures`, streaming flags | one generator per chat: model request, streaming, tool dispatch, reply gates | yields events to the client, calls `ToolRegistry.execute`, writes messages to memory |
| RPC server, `rpc.py` | open client tasks | one connection per command; `chat` is the long one | drives the agent's generator, asks for permission on the same socket, polls the socket for its end |
| Permission manager, `security.py` | `rules`: capability to allow or deny | `authorize` | a callback of the channel; the rules are shared by all chats |
| Tool registry, `tools.py` | - | `execute`: permission, handler, audit row | memory, MCP registry |
| MCP client, `mcp.py` | per server: process, lock, next id, tools | handshake, paged listing, `request`, `stop` | pipes of a subprocess; called by concurrent turns |
| Full-screen client, `tui_full.py` | queue, worker task, pending menu, permission future | typing, menus, Escape, `/cancel`, Ctrl-C; worker loop; chats | socket of the daemon |
| Line-mode client, `tui.py` | - | one exchange at a time | socket of the daemon; blocks in `input()` |
| Telegram bridge, `telegram.py` | offset, reply tasks, per-chat locks, approval waiters, routes and sessions per chat | poll loop, commands, replies, approvals, stop | Bot API; the agent's generator |
| Daemon, `daemon.py` | the tasks above | start, serve, stop in a fixed order | all of them |
| Runtime and Ollama client, `runtime.py`, `ollama.py` | `ollama.json`: servers in order, default, model and options of each | add, remove, choose, `ensure_ready`, `chat_stream` with one retry when memory is short | read again for every request; edited by commands of any client |
| Providers, `providers.py`, `provider_protocol.py` | `providers.json`: model of each provider, default; `_text_tool_models` in memory | configure, resolve, stream with one retry without native tools | resolved once per turn; edited by commands of any client |
| Telegram settings, `telegram.json` | token, allow-list | read by the poll loop; enrolment by `/start`; `telegram_config`, `set_telegram_token`, command line | three writers of one file, no lock |
| Memory, `memory.py` | SQLite: sessions, messages, facts, skills, audit | add, recall, prune, delete, audit | one connection under a lock; several calls per turn |
| Pure parts: `context.py`, `profiles.py`, command policy in `security.py`, name spaces in `mcp.py`, `net.py` | - | compaction, routing, classification | called by the above |
| Rendering, texts, diagnostics, installation | - | - | - |

What makes the parts that are modelled hard, and what makes each correct:

* **Agent loop.** A reply is streamed before it is judged; seven gates can send the model
  back, six paths can end a turn, and a client may leave at any suspension point.
  *Correct* means: no call is repeated blindly, no answer passes over a failed tool or
  lacks the evidence a research turn needs, nothing a gate rejected stays on screen,
  exactly the verdict is stored, and the turn ends.
* **Permission round trip.** Question and answer share a socket with two deadlines, a
  disconnect poll and whatever is left over in the buffer. *Correct* means: an action runs
  only on a yes meant for it (or a rule somebody granted), prompts are settled, a dead
  client's turn is ended, and the audit table agrees with what ran.
* **MCP session.** Concurrent callers, one lock, timeouts, cancellations and a process
  that answers late, speaks unasked, floods, or dies. *Correct* means: everybody gets his
  own result, the lock is never lost, every call and start ends.
* **Full-screen client.** Keystrokes race one worker; a cancellation is delivered wherever
  the worker happens to be. *Correct* means: only a yes typed at a prompt approves it, messages
  are asked in the order typed, what was cleared is not asked, what was queued is.
* **Telegram bridge.** One loop handles messages, commands and approvals of all chats;
  replies are tasks behind per-chat locks. *Correct* means: every update is handled once
  and in order, only the first press in the right chat decides, one reply per chat,
  `/cancel` is complete and returns.

* **Model routes.** The owner edits servers, models and providers between two steps of a
  turn, between two attempts of one request, and while a prompt waits for its chat's lock.
  *Correct* means: a prompt leaves the machine only because it was asked to, host and
  model belong together, a retry goes where the first attempt went, and a reply that
  broke off is no answer.
* **Telegram settings.** An enrolment in a thread, commands in the event loop and the
  command line rewrite one file that the poll loop reads; the daemon stops or is killed in
  between. *Correct* means: no edit is lost while writers follow one another (when they
  overlap one is, see `enrol`), nothing new is accepted from a removed chat after the next
  read of the file, a token change takes effect and skips no update.
* **Memory and conversations.** A turn makes several transactions; other turns write,
  pruning counts all chats together, a chat is deleted under the turn that runs in it.
  *Correct* means: a terminal does not list, continue or delete the chats of the Telegram
  bridge (the recall of `search_messages`, `memory.py:111-125`, does quote lines of other
  chats and is meant to), a chat has no hole, the current question survives, a better fact
  is not lost to a worse one.

`PROJECT.json` lists every component and, under `hazards`, what is hard to test, each at
its line, with the properties that are about it or the reason why there is none yet.

## 2. The modules

Each component module declares its constants with a named assumption, its variables,
`Init`, one action per handler or step, `Next`, `Spec`, the fairness the code justifies
(`FairSpec`) and its properties. `MC...` gives the constants values for TLC, `...Proofs`
holds the theorems. Operators marked "Seeded fault" are plausible bugs of the definition
they precede; each property is checked to be violated when one of them replaces it.

### AgentTurn (`agent.py`, `Agent.run`)

One chat turn. `pc` is where the generator is suspended: before a model request
(`think`), in the stream (`stream`), handling tool calls (`tools`), in a tool
(`running`), before the gates (`judge`), between the final token and `done`
(`closing`). The model is arbitrary: a reply is a list of tool calls, a *class* of text
(whether anything is left of it without the address, and which gate's expression it
matches) and whether it was cut off. `StreamText`, `StreamMarker` and `StreamEnd` are the
64-character guard, inline tool markup and the final flush (653-743); `RejectCall`,
`StartCall` and `CallReturns` are the dispatch (969-1041); `GateOf` gives the order of
the gates (751-957) and `Nudge`, `GiveUp`, `LengthCut` and `Accept` what they do;
`Finish` stores and reports; `Cancel` is the generator being closed by the RPC server.
`shown` is the screen of a client that honours `response_reset`, `recorded` the messages
stored, `log` a history of the tool runs.

### ChatPermission (`rpc.py`, `security.py`, `tools.py`)

Any number of chats on one table of rules. `AllowedByRule`, `DeniedByRule` and `Ask` are
the three ways out of `authorize`; `ReadAnswer` takes *the next line on the socket*
for the answer and compares its id (508-520); `Expire` is the daemon's 300 seconds,
which only clients without their own 280 seconds (`Patient`: `tui.py`) can see;
`NoticeEof` is the 250 ms poll, which does not see an end behind an unread line;
`ActionEnds` and `AuditRow` are the audit rows of `execute`. An MCP tool of a remote
chat is refused, and the refusal of an MCP tool leaves no row, as in the code.

### McpSession (`mcp.py`, with `daemon.py`'s stop)

One server. `waiters` is the asyncio lock with its queue, `stdin` and `stdout` are the
pipes with their capacities, `Send` and `Drained` split `_send`'s write from its
`drain()`, `ReadLine` is one round of `await_response`, `Timeout` and `Cancel` may come
at any time. `BootRequest`, `Answered` and `Notified` are `start`: handshake,
notification, at most `MaxPages` pages. The server process (`CanWork`, `Server...`) is
external: it reads, answers in any order with any kind of line, speaks on its own, and
exits.

### TuiWorker (`tui_full.py`)

The worker task (`_worker_loop`, `_ask`, `_ask_permission`) and the keystrokes. A
cancellation is requested (`cancelling`) and takes effect at the worker's next step:
in a request (`RequestIsCancelled`), at a prompt, where it only denies
(`PromptIsCancelled`), or at `queue.get()`, where nothing catches it
(`WorkerIsCancelled`). `pending` is what the next line is taken for; prompts and menus
overwrite it as in the code. `said` is what was typed at each prompt, kept apart from the
`future` that lines, Escape, menus and deadlines set.

### TelegramBridge (`telegram.py`)

The poll task and one task per reply. `Take` moves the offset before the update is
handled; `HandleMessage`, `HandleCommand`, `HandlePress` and `HandleCancel` are the
branches; `SendFails` abandons the rest of a batch. Between the updates of one batch
nothing is awaited unless a handler sends something, so no reply task steps there
(`LoopIsFree`): a reply started by one update is cancelled by a `/cancel` of the same batch
before its first step (1090, 711-717). A reply goes through the look at the
lock, the "queued" notice, the lock's queue, the progress cards (`starting`, outside of
`_reply`'s `try`), the turn, approvals, and its three ends. `Stop`, `CancelAgain` and
`Closed` are `stop()` and `run`'s `finally`. Every chat is on the allow-list and every
update is a text or a button.

### Consent, an abstract specification, and its two implementations

`Consent` is what `authorize` promises, one state per prompt: it is asked, the owner says
one thing to it, it is granted once and only after a yes, or denied at any time.
`ChatPermission` (the daemon's end of a socket) and `TuiWorker` (the client's end) each
define `StateOf`, the state of a prompt in terms of their own variables, instantiate
`Consent` with it and state `KeepsConsent == Consent!Spec`. In `ChatPermission` a prompt
is a request of a chat that no rule decided: `verdict` says whether it was granted or
denied, and before that `said` what its owner said to it. In `TuiWorker` it is what was
typed at the prompt (`said`) while the worker waits there, and afterwards what was sent to
the daemon (`approved`): whatever else sets the future to yes is a grant without consent.
`TelegramBridge` has no such mapping: several presses may reach one prompt, and its
property `ApprovalIsPressed` says which of them counts.

### ModelConfig, ModelRequest, ModelRoutes (`ollama.py`, `runtime.py`, `providers.py`; `agent.py`, `telegram.py`, `rpc.py`)

Three layers, each extending the one before. `ModelConfig` holds the two registries and
one action per edit; the servers are a sequence because the first one left becomes the
default, and a provider has an address and a model, which `Configure` may change under the
same name. `ModelRequest` is one request in its stages: `OutOfMemory` retries once with a
smaller batch or on the CPU, `ToolsRefused` once with the tools as text, `Opened` notes the
provider and the model that took them so (`textTools`, which knows no address), and `LastLine`, `FinishReason`, `EndOfStream` and
`StreamFails` say when a reply is an answer (`docs/wiki/Ollama.md:66-67` has a
smaller batch "then once with CPU-only placement"; one request tries only one of the two,
`ollama.py:428-447`, and the next starts from the configured options again). `ModelRoutes`
adds the turns (`Begin` resolves a provider once, `Send` reads the local server for every
step), the Telegram chats (`ChatSends` waits for the lock, `ReplyBegins` reads the route
when it has it, as `_reply` does; `/local`, `/cloud`, `/models`, `/model` and their
buttons) and the selection of a local model, whose look at the host is a thread (`LookAt`,
`Looked`).

### MemoryStore, Conversations (`memory.py`, `agent.py`; `telegram.py`, `tui_full.py`)

`MemoryStore` has the tables of sessions, messages and facts with the pruning at the end
of each insertion: messages by their AUTOINCREMENT id, and of the facts' access times only
what pruning reads, which of two facts of the same importance was accessed `older` (a
recall may access several in the same clock tick). It also has the transactions of a turn: `Begin` (row and question), `Read`
(history within the budget, recall), `Remember`, `Answer`, `Abandon`, and `Delete`.
`Conversations` extends it with who uses which session: the bridge's `_sessions` and
`_fresh`, a terminal's `session_id`, which it learns from the turn's first event
(`untold`), and the list of chats it was shown last (`listing`), from which it opens and
deletes. `Ensured` is `INSERT OR IGNORE`: a row deleted under a turn comes back as a
terminal's when the turn's answer is stored, which does no harm because only terminals'
chats can be deleted.

### TelegramSettings (`telegram.py`, `rpc.py`, `cli.py`)

The file with its inodes and temporary names, three writers that read, open, write and
replace in separate steps (the command line writes in place), the poll loop with its copy
of token and allow-list, offset and batch, and `StopDaemon`, `Crash` and `Boot`. Telegram
is external: it drops what is below the offset. `accepted` is the update that passed the
look at the allow-list last; what the reply does that it starts is `TelegramBridge`'s,
which takes token and list as fixed.

### How the modules meet

`AgentTurn`'s `StartCall` to `CallReturns` is one request of `ChatPermission` (or of
`TelegramBridge`'s `Ask` to `Answered`), and, for an MCP tool, one `Call` of
`McpSession`. `ChatPermission`'s clients are abstract: `TuiWorker` is the full-screen
one in detail, and `Consent` is what both ends of that socket implement.
`ChatPermission`'s `NoticeEof` and `TelegramBridge`'s cancellations are `AgentTurn`'s and
`McpSession`'s `Cancel`. `AgentTurn`'s step from `think` to `stream` is one request of
`ModelRoutes`, and its first and last messages are `MemoryStore`'s `Begin` and `Answer`.
Composed are `ModelConfig`, `ModelRequest` and `ModelRoutes` by extension, `MemoryStore`
and `Conversations` likewise, and `Consent` by refinement; the others are checked
separately.

## 3. The runs

| Run | Instance | What it shows |
|---|---|---|
| `turn` | 3 tools, 1 argument and a malformed one, 6 text classes, at most one tool call per reply, 4 steps, the code's nudge limits 2 and 3 | `NoBlindRepeat`, `FailuresAreOwned`, `ResearchIsEvidenced`, `NoRetractedDraft`, `OneRecordPerTurn`; under fairness `TurnEnds` |
| `permission` | a full-screen and a line-mode chat (local or remote), 3 capabilities, one denied by policy, 2 requests each | `OnlyApprovedRuns`, `AnswersReachTheirPrompt`, `AuditOfSettledCalls`, the refinement `KeepsConsent`; under fairness `PromptIsSettled`, `DisconnectEndsTurn` |
| `mcp` | 2 callers with 2 calls, 2 pages, an output pipe of 2 lines, one unsolicited line, input pipe never full | `OwnResults`, `LockIsOwned`; under fairness `CallsSettle`, `StartSettles` |
| `tui` | 3 messages, 2 prompts, 1 menu | the refinement `KeepsConsent`, `AskedInOrder`; under fairness `PromptEnds` |
| `telegram` | 2 chats, 3 updates, 2 prompts | `HandledInOrder`, `ApprovalIsPressed`, `OneReplyPerChat`, `CancelIsComplete`; under fairness `CancelReturns` |
| `routes` | 2 server names, 2 hosts, 2 models, 2 providers (one with two addresses, one with its own protocol), one chat, one terminal, one console; starting without servers or with two; 3 prompts and edits, 2 steps per turn | `DefaultIsAServer`, `CloudOnlyAsAsked`, `AnswersAreComplete`, `RememberedWasRefused`, `ModelOfItsServer`, `RecoveryStaysPut`, `ChatSelectsWhereItLooked` |
| `memory` | one chat, one terminal, 3 sessions, small messages and one above the budget, 4 messages of which 2 are kept, 3 facts of which 2 are kept | `ChatsStayApart`, `FreshIsUsed`, `NoHoles`, `OnlyBetterReplaces`, `TaskSurvives` |
| `settings` | one chat, 2 tokens, 2 edits, 2 updates, one stop or kill | `EditsAddUp`, `NothingIsSkipped`, `OnlyAdmittedChats`; under fairness `EditsTakeEffect` |

Why the bounds are enough for the interesting cases. `turn`: four steps are enough for
every gate to use up its nudges and give up (three nudges and the verdict), for a call
to be repeated with and without a change in between, and for the step limit; several
calls in one reply are covered by the proofs, which do not bound them. `permission`: two
requests per chat let the stale answer to the first meet the second; two chats, one of
them remote, let a remembered yes cross over. `mcp`: two callers with two calls let a
cancelled or expired call's answer arrive during another's; two pages reach the page
bound. `tui`: three messages leave one in the queue when another is asked and a third
typed after `/cancel`; two prompts let an old answer meet a new prompt. `telegram`: three
updates are a message, a second one or a press or another chat's message, and a
`/cancel`; four updates with one prompt were checked as well and showed nothing new.
`routes`: a prompt and two edits, or two prompts and one edit, between any two steps: a
server removed and another made the default under a request, a provider given another
model between two attempts, a default moved while a host is looked at. `memory`: the
fourth message overflows a store of two twice, the third fact one of two; two free
sessions are a `/new` of each client. `settings`: two tokens go to and fro with two
edits; a stop or kill falls between any two steps of an enrolment and an edit.

The type invariants of all modules are proved (section 5) and therefore not in the runs;
they, and the inductive invariants, were evaluated on these instances first.

`routes` and `settings` check for deadlock: an owner can always give another command
there, or the bridge polls again. The other runs turn the check off, because the modelled
system may stop: a finished turn, closed connections, a stopped session, a closed
application, an idle bridge, a store whose bound of messages is used up.

### Runs that are violated: where text and code disagree

| Run | Property | What the repository says | What the run shows |
|---|---|---|---|
| `mcp_hang` | `CallsSettle` | `mcp.py:15-16` "A server that hangs must not hang KiloFrame, so every request has a timeout" | `drain()` is awaited under the lock but outside of the timeout; with a full pipe, a server that waits for its own output to be read and a client that waits for its input to be taken wait for each other for ever |
| `tui_worker` | `EveryMessageIsAsked` | `tui_full.py:704-706` "'some messages never responded'. Serialising fixes that." | `/cancel` or Ctrl-C while the worker is between requests ends the worker for good |
| `telegram_typing` | `TypingMeansWorking` | `telegram.py:354-355` "refresh it until the answer is ready" | `/cancel`, fetched by a later `getUpdates` while the progress cards are sent, leaves the typing task running |
| `enrol` | `EditsSurviveEnrolment` | `telegram.py:84` "Persist an explicit /start opt-in without losing concurrent config edits" | the enrolment's thread reads the file, an edit through the daemon completes, and the enrolment puts back what it had read |

The liveness counterexamples are found under a specification with fairness:
`mcp_hang` even assumes a server that reads and answers whenever it can, `tui_worker` a
daemon that ends every request.

### Known limits of the properties

Where the code is known not to do more, a property says exactly what it does:

* `AuditOfSettledCalls` covers every call but one that is cancelled while it runs: that
  one leaves no row (`tools.py:226-252`), although
  `docs/wiki/Security-and-Privacy.md:47` says that every tool call is recorded.
* `OneRecordPerTurn` speaks of how often a turn is recorded. The text that is stored need
  not be the text that was streamed when a reply held tool markup (`agent.py:955-957`).
* `OwnResults` is checked for a server whose own requests have ids far from ours, and
  proved for as long as our requests have not reached one of them (`ServerIdsAreFar`, which
  is always so for a server that makes none, or that does not number them). A server's
  request with a number of ours is taken for the answer (`mcp.py:186`).
* `CloudOnlyAsAsked` speaks of the route a turn has read. A Telegram prompt that waits
  for its chat's lock reads the route when it gets the lock (`telegram.py:493`).
* `NoRetractedDraft` lets a draft of the last step stay whose reply every gate let
  through. A streamed reply that is nothing but address and flourishes is such a one: the
  no-answer message then follows it without a reset (`agent.py:684`, `958-964`).
* `FreshIsUsed` names the one way but a fresh turn in which the mark of `/new` goes: an
  event of a reply of the session before, still under way, takes it away
  (`telegram.py:524`, `729-733`), and the first turn of the new session then recalls
  memories although `/new` said that they are set aside.
* `RememberedWasRefused` speaks of provider and model, which is what the code remembers
  (`providers.py:455`, `500-504`). When `configure` or `configure_custom` has moved the
  provider to another address, native tools stay withheld from an endpoint that never
  refused them.
* `OnlyAdmittedChats` speaks of what is accepted. Replies accepted before their chat was
  removed wait behind its lock, start and answer after any number of later reads of the
  list (`telegram.py:393`, `1090`).
* `ChatSelectsWhereItLooked` covers the bridge, which names the server it looked at. The
  RPC command `ollama_select_model` does not, and records the model for whichever server
  is the default by then (`rpc.py:188-191`). Likewise the button of a cloud model applies
  to the chat's provider of that moment, which may not be the list's
  (`telegram.py:661-675`).
* `EditsAddUp` and `OnlyAdmittedChats` hold as long as two writers have not been at work
  at once; `enrol` shows what happens otherwise.

## 4. Fairness

* `AgentTurn`: weak fairness of everything but `Cancel`. The generator is resumed as long
  as its client reads; requests to a model and the built-in tools have timeouts. That an
  MCP tool returns is an assumption here; `McpSession` says when it is true.
* `ChatPermission`: the handler reads what is there, the 300-second and 280-second
  deadlines are timers and the poll repeats. Nothing is assumed of the model, of the
  action, or of an owner in front of `tui.py`; hence `DisconnectEndsTurn` is stated
  for the clients whose answer cannot be left unread in the socket.
* `McpSession`: tasks that can go on do, and the request timeout is a timer. Nothing is
  assumed of the server, except in `GoodServerSpec`, used by `mcp_hang`. In `mcp` the
  input pipe holds every line (`PipeSpace = 9`), so that `drain()` returns while the
  process lives; `mcp_hang` is the case in which it does not.
* `TuiWorker`: the worker runs when it can, and the prompt's deadline is a timer. That a
  request ends is assumed only by `GoodDaemonSpec`.
* `TelegramBridge`: `/cancel`'s `gather` and the ends of cancelled replies; taking down
  the cards is bounded by timeouts of a second. Nothing is assumed of models and owners.
* `TelegramSettings`: the poll loop goes on, its waits and polls being bounded, and each
  writer finishes what it has begun. Nothing is assumed of the owner, of the users, or of
  whoever stops and starts the daemon.
* `ModelRoutes` and `Conversations` state safety only and assume no fairness.

## 5. What is proved

Every theorem holds for all constants that satisfy the modules' named assumptions
(`ConstantsAssumption`, `ConfigAssumption`, `MemoryAssumption` and so on, each weaker than what the code guarantees, and evaluated by TLC in every run). The
pattern is the same throughout: a type lemma where types are needed, an inductive invariant that is stronger
than the property, one proof step per action, and a temporal step.

| Module | Theorem | Inductive invariant and why it is needed |
|---|---|---|
| `AgentTurnProofs` | `TypeCorrect` | - |
| | `OneRecord` | `PhaseInv`: what `ending`, `outcome` and `recorded` are at each `pc`; the property alone does not know that a refusal is stored before its token and an answer after |
| | `NoBlindRepeats` | `SeenInv`: a call is in `seen_calls` since its last run unless a change succeeded later |
| | `ResearchEvidence`, `FailuresOwned` | `ToolInv`, the bookkeeping sets say what `log` says, and `AcceptInv`, the gates were passed and nothing they read changes afterwards |
| | `RejectedDraftsAreRetracted` | `DraftInv`: draft text on screen is of the current step, `emitted_this_step` knows of it, and past the gates it belongs to an answer or to a reply without one |
| `ChatPermissionProofs` | `TypeCorrect`, `ApprovedRuns`, `AnswersReach`, `AuditSettled` | `IInv`: an answer in the socket says what the owner said to the prompt it names, an allow rule was granted, and a client with its own deadline has at most one prompt or answer under way, for the current request |
| | `ImplementsConsent` | `PromptsInOrder` and `AskedIsOpen`: the request that a chat asks about is its last one, the owner's to decide, and undecided. Each action touches one request, and the state of that request makes one of `Consent`'s moves or none |
| `McpSessionProofs` | `TypeCorrect`, `LockOwned` | the lock's queue has no duplicates and holds exactly the tasks inside `request` |
| | `ResultsAreOwn` | ids are drawn once, in order; a line with an id below those of the server's own requests answers that id, and nobody waits for an id that was not drawn. `ServerIdsAreFar => OwnResults` is what is invariant: without its hypothesis the property is false |
| `TuiWorkerProofs` | `TypeCorrect`, `ApprovalsAreTyped`, `MessagesInOrder`, `ImplementsConsent` | `FutureIsTyped`: a future that is "yes" was typed at the last prompt, which neither Escape, menus, deadlines nor cancellations make it; `QueueInOrder`: the queue is the messages from the first unsettled one to the last typed, without a gap; `PromptsInOrder`: what was approved was shown, and the prompt on the screen is undecided |
| `TelegramBridgeProofs` | `TypeCorrect`, `UpdatesInOrder`, `RepliesTakeTurns`, `ApprovalsArePressed`, `CancelEndsAll` | the batch continues at the offset; who is inside `_reply` is first in its lock's queue; the answer noted for a prompt is the first press of its chat; while `/cancel` or the end of the bridge waits, every reply is over or among those waited for, and what is over stays over |
| `ModelRoutesProofs` | `CloudAsAsked`, `AnswersComplete`, `TextToolsRemembered`, `RecoveryStays` | `Resolves`: a turn has the route that it asked for, and a local one has none; `Follows`: a request belongs to a turn that waits for it and goes where that turn asked. `Earned`: a second attempt on a cloud endpoint was refused there for its tools. Nothing is needed of the registries, so whatever the owner edits is covered |
| | `TypeCorrect`, `DefaultServer`, `ModelOfServer`, `ChatSelectsThere` | `RInv`. Of the file of servers, `FileOK`: names are distinct and the default names a server, which each edit keeps by itself; removing needs distinct names, for removing by name must not take the new default along. Of the rest: a provider a chat has chosen stays configured (`CloudOK`), a turn that goes on has a step left, a request under way has a route, prompts that wait were counted, a selection under way has its model and, for a chat, its server's name (`SelectOK`). Only `Send` opens a request (`Opens`), and it reads the model of the default server in that step |
| `ConversationsProofs` | `ChatsApart`, `FreshIsForItsTurn` | `Made`: ids in use were made, so a new one is nobody's; `ChatsRows`: the row of a chat's session is a Telegram one, and there while its turn runs; `Apart` of turns and lists too; `FreshIsNew`: a reply under way in a chat with the mark is of a session before |
| | `TypeCorrect`, `NoHolesStay`, `TaskStays` | `StoreInv`: a message that a chat's history has and the store has lost is at least `MessageLimit` ids behind. Pruning takes at most as many messages as are too many, and of two it takes the older: a count (`NewestKept`) says that the newest `MessageLimit` ids are never taken, even when chats were deleted in between. So the question of a turn is still there, and it is the newest of its chat, which `Kept` keeps whatever its size |
| | `OnlyBetterStays` | `FactsInv`: while a fact is gone the store is full and holds nothing that matters less. Cardinality alone is not inductive: the next fact may push out one of those that replaced the first |
| `TelegramSettingsProofs` | `TypeCorrect`, `NoEditIsLost` | `FInv`: two names never lead to one inode, so a rename never takes another's file; and while no two writers were at work at once, a writer under way has read what is wanted, its temporary file holds nothing else, and the file itself says what is wanted except between the command line's `open` and `write` |
| | `NoUpdateIsSkipped` | `PInv`: what a bot's server has confirmed, and what is below the offset of a loop that polls this bot, was dealt with; the batch continues where that ends, and the update of an enrolment under way is its first. A change of token starts again at the new bot's first update, a restart at what the server has not confirmed |
| | `OnlyAdmitted` | `AInv`: the thread of an enrolment works for the chat of the update its bridge waits with, a thread left over by a stopped bridge belongs to nobody, and the loop's copy of the allow-list was in the file since it was read |

The safety invariants and action properties of the passing runs are all stated by a
theorem. Two models were given another form for it, which allows at least the same behaviours: the tables of
`MemoryStore` are functions and sets instead of sequences, because the prover's library has
no facts about `SelectSeq` that do not rest on an induction over data, and pruning is a
count instead of a suffix; and a batch of updates is a function of its length.

Only model-checked are the liveness properties (`TurnEnds`, `PromptIsSettled`,
`DisconnectEndsTurn`, `CallsSettle`, `StartSettles`, `PromptEnds`, `CancelReturns`,
`EditsTakeEffect`), which need fairness and ENABLED and are beyond the prover, and the runs
that are violated. Nothing is proved about the value of the sum `Total` over a set of
messages, which would be an induction: `TaskStays` needs only that a single message fits.

## 6. What is not modelled

* Contents: the text of prompts, messages, tool results, cards and menus, and the
  regular expressions over them; they are abstracted to what the control distinguishes.
* Transport: HTTP to models, providers and Telegram (a request answers or fails), and
  SQLite (a statement is atomic).
* `AgentTurn` takes the turn's profile and offered tools as inputs; it also leaves the
  route to `ModelRoutes` and the store to `MemoryStore`. `McpSession` leaves out several
  servers, tool names and the escalation from closing a pipe to killing a process.
* `ModelRoutes` takes `ollama.json` and `providers.json` as the program writes them (every
  entry enabled, valid and with a key) and their rewriting as atomic; a file edited by
  hand, disabled providers and private URLs are left out, and so are warm-up, pulling and
  deleting models, and selection in the command line's menus. A request of a turn offers
  tools; reduced requests without tools behave as the ones without a second attempt.
* `MemoryStore` leaves out skills, settings, the search itself (which facts match is
  arbitrary), and the audit table (its rows are in `ChatPermission`).
* `TelegramSettings` abstracts commands and replies to "accepted": what they do is in
  `TelegramBridge`. A file the owner writes by hand, wrong permissions and a full disk are
  left out.
* Context compaction, profiles, the classification of commands and paths, names of MCP
  tools, private networking: pure functions over text, without transitions.
* The handlers of the built-in tools, integrations, skills, the reference bank: files,
  processes and HTTP, behind `execute`.
* Rendering, texts, diagnostics, the line-mode client's printing and installation: no
  state worth a model.

## 7. Plan

Done, in this order: the agent's turn, the permission round trip, the MCP session, the
full-screen client and the Telegram bridge, each with its runs and theorems; the abstract
`Consent` and its two refinements, checked and proved; the model routes in three layers;
memory and conversations; the Telegram settings with stops and kills. Next:

1. `DaemonLifecycle` (`daemon.py`, `rpc.py:45-55`, `mcp.py:215-236`): start and stop
   composed of the modules above, including a stop during a server's start.
2. Pure algorithms as operators against a reference definition: `CommandRisk`
   (`security.py`'s `assess`), `McpNames` (name spaces with `__`), `InlineCalls`
   (recovery of tool calls from text), `Compaction` (`context.py`).
3. Proofs: that what `Kept` keeps is a suffix of the chat's history within the budget, and
   under which weaker condition than `~overlapped` an edit survives an enrolment (the two
   must not have read the same file).
