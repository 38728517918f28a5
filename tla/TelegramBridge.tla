---------------------------- MODULE TelegramBridge ----------------------------
(***************************************************************************)
(* The Telegram bridge (telegram.py, TelegramBridge.run, _start_reply,     *)
(* _reply, _request_approval, _resolve_approval, stop; the cancel command).*)
(*                                                                         *)
(* One poll loop fetches updates and handles them one after the other; a   *)
(* message becomes a reply task of its own, and the replies of one chat    *)
(* take turns on a lock.  A reply may ask its chat to approve an action:   *)
(* the button's press comes back as another update, through the same loop. *)
(* /cancel cancels every reply of its chat and the loop waits for them;    *)
(* the daemon's stop cancels the replies and the loop.                     *)
(*                                                                         *)
(* Every chat here is on the allow-list, and every update is a text or a   *)
(* button.  An update is its position in "sent", a reply the update that   *)
(* started it, a prompt its position in "prompts".                         *)
(***************************************************************************)
EXTENDS Naturals, Sequences, SequencesExt

CONSTANTS
    Chats,
    MaxUpdates,  (* updates sent to the bot, and            *)
    MaxPrompts   (* approval prompts: bounds of the model   *)

ASSUME ConstantsAssumption ==
    /\ MaxUpdates \in Nat
    /\ MaxPrompts \in Nat

VARIABLES
    poll,       (* where the poll task is suspended                            *)
    offset,     (* the next update id to ask for                               *)
    batch,      (* updates fetched and not handled                             *)
    sent,       (* every update Telegram has received                          *)
    handled,    (* history: updates in the order they were handled             *)
    awaited,    (* the replies gather() waits for                              *)
    reply,      (* per update: where its reply task is suspended               *)
    cancelled,  (* replies that are cancelled and have not run since           *)
    queue,      (* per chat: its lock's holder, then the waiters               *)
    typing,     (* replies whose _keep_typing task runs                        *)
    prompts,
    ended       (* history, per chat: the last /cancel that was completed      *)

updateVars == <<offset, batch, handled>>
replyVars  == <<reply, cancelled, queue, typing>>
vars == <<poll, updateVars, sent, awaited, replyVars, prompts, ended>>

Ids      == 1..MaxUpdates
Update   == [chat : Chats, kind : {"message", "command", "cancel", "yes", "no"}, prompt : Nat]
Prompt   == [reply : Ids, answer : {"open", "yes", "no"},
             result : {"waiting", "granted", "refused"}]
InReply  == {"starting", "running", "asking", "answering", "reporting", "cleanup"}
Where    == {"none", "new", "noticing", "queued", "done"} \cup InReply

Init ==
    /\ poll = "polling"
    /\ offset = 1
    /\ batch = <<>>
    /\ sent = <<>>
    /\ handled = <<>>
    /\ awaited = {}
    /\ reply = [r \in Ids |-> "none"]
    /\ cancelled = {}
    /\ queue = [c \in Chats |-> <<>>]
    /\ typing = {}
    /\ prompts = <<>>
    /\ ended = [c \in Chats |-> 0]

-----------------------------------------------------------------------------
(* The owner sends a text or presses a button of a prompt, in time or not. *)
UserSends(u) ==
    /\ Len(sent) < MaxUpdates
    /\ IF u.kind \in {"yes", "no"} THEN u.prompt \in 1..Len(prompts) ELSE u.prompt = 0
    /\ sent' = Append(sent, u)
    /\ UNCHANGED <<poll, updateVars, awaited, replyVars, prompts, ended>>

(* getUpdates; one that fails is repeated and changes nothing. *)
Fetch ==
    /\ poll = "polling"
    /\ offset <= Len(sent)
    /\ poll' = "handling"
    /\ batch' = [i \in 1..(Len(sent) + 1 - offset) |-> offset + i - 1]
    /\ UNCHANGED <<offset, handled, sent, awaited, replyVars, prompts, ended>>

BatchDone ==
    /\ poll = "handling"
    /\ batch = <<>>
    /\ poll' = "polling"
    /\ UNCHANGED <<updateVars, sent, awaited, replyVars, prompts, ended>>

(* Seeded fault: the offset moves past the whole batch at once.               *)
PastBatch(id) == Len(sent) + 1

(* max(self.offset, update_id + 1), before the update is handled *)
NextOffset(id) == IF id + 1 > offset THEN id + 1 ELSE offset

(* The next update is taken, and what it is decides the rest. *)
Take(kinds) ==
    /\ poll = "handling"
    /\ batch # <<>>
    /\ sent[Head(batch)].kind \in kinds
    /\ offset' = NextOffset(Head(batch))
    /\ handled' = Append(handled, Head(batch))
    /\ batch' = Tail(batch)

(* A message's task is created and takes its first step only when the loop is  *)
(* next suspended, after the updates that follow without an await.             *)
HandleMessage ==
    /\ Take({"message"})
    /\ reply' = [reply EXCEPT ![Head(batch)] = "new"]
    /\ UNCHANGED <<poll, sent, awaited, cancelled, queue, typing, prompts, ended>>

(* A command does its work and sends its result before the loop goes on. *)
HandleCommand ==
    /\ Take({"command"})
    /\ poll' = "sending"
    /\ UNCHANGED <<sent, awaited, replyVars, prompts, ended>>

(* Seeded fault: a decided prompt can be decided again. *)
Registered(n) == reply[prompts[n].reply] = "asking" /\ prompts[n].result = "waiting"

(* The waiter is registered and its future is not done. *)
Pending(n) ==
    /\ reply[prompts[n].reply] = "asking"
    /\ prompts[n].result = "waiting"
    /\ prompts[n].answer = "open"

(* The waiter's key holds the chat that got the prompt. *)
HandlePress ==
    /\ Take({"yes", "no"})
    /\ LET u == sent[Head(batch)] IN
        prompts' = IF Pending(u.prompt) /\ sent[prompts[u.prompt].reply].chat = u.chat
                   THEN [prompts EXCEPT ![u.prompt].answer = u.kind] ELSE prompts
    /\ poll' = "acknowledging"
    /\ UNCHANGED <<sent, awaited, replyVars, ended>>

(* Seeded fault: only the reply that holds the lock is cancelled. *)
ActiveOnly(c) ==
    {r \in 1..Len(sent) : sent[r].chat = c /\ reply[r] \in InReply}

(* tasks of the chat that are not done *)
LiveOf(c) ==
    {r \in 1..Len(sent) : sent[r].chat = c /\ reply[r] \notin {"none", "done"}}

HandleCancel ==
    /\ Take({"cancel"})
    /\ awaited' = LiveOf(sent[Head(batch)].chat)
    /\ cancelled' = cancelled \cup awaited'
    /\ poll' = "cancelling"
    /\ UNCHANGED <<sent, reply, queue, typing, prompts, ended>>

(* gather() returns when all of them are done. *)
CancelDone ==
    /\ poll = "cancelling"
    /\ \A r \in awaited : reply[r] = "done"
    /\ poll' = "sending"
    /\ LET id == handled[Len(handled)] IN ended' = [ended EXCEPT ![sent[id].chat] = id]
    /\ UNCHANGED <<updateVars, sent, awaited, replyVars, prompts>>

(* The result of a command, or the acknowledgement of a press. *)
SendEnds ==
    /\ poll \in {"sending", "acknowledging"}
    /\ poll' = "handling"
    /\ UNCHANGED <<updateVars, sent, awaited, replyVars, prompts, ended>>

(* A result that cannot be sent ends the handling of the batch. *)
SendFails ==
    /\ poll = "sending"
    /\ poll' = "polling"
    /\ batch' = <<>>
    /\ UNCHANGED <<offset, handled, sent, awaited, replyVars, prompts, ended>>

-----------------------------------------------------------------------------
(* A reply task.  A step of it is taken only while it is not being cancelled: *)
(* the cancellation is what it meets first.                                   *)
Chat(r) == sent[r].chat

(* The poll task is suspended: it has the event loop for itself while it goes *)
(* through a batch, until an update makes it send something or wait.          *)
LoopIsFree ==
    /\ poll # "handling"
    /\ poll = "cancelling" => awaited # {}

Runs(r, where) == LoopIsFree /\ reply[r] = where /\ r \notin cancelled
Goes(r, where) == reply' = [reply EXCEPT ![r] = where]

(* lock.locked(): between a release and the next holder's turn it is free. *)
Locked(c) == queue[c] # <<>> /\ reply[Head(queue[c])] # "queued"

(* async with lock: a lock nobody wants is taken at once.  With the lock,     *)
(* typing starts and the progress cards are sent.                             *)
Enter(r) ==
    /\ queue' = [queue EXCEPT ![Chat(r)] = Append(@, r)]
    /\ IF queue[Chat(r)] = <<>>
       THEN Goes(r, "starting") /\ typing' = typing \cup {r}
       ELSE Goes(r, "queued") /\ UNCHANGED typing

(* A reply that finds the lock taken says so first, and queues after that. *)
Begin(r) ==
    /\ Runs(r, "new")
    /\ IF Locked(Chat(r))
       THEN Goes(r, "noticing") /\ UNCHANGED <<queue, typing>>
       ELSE Enter(r)
    /\ UNCHANGED <<poll, updateVars, sent, awaited, cancelled, prompts, ended>>

Noticed(r) ==
    /\ Runs(r, "noticing")
    /\ Enter(r)
    /\ UNCHANGED <<poll, updateVars, sent, awaited, cancelled, prompts, ended>>

(* Seeded fault: every reply has a lock of its own. *)
OwnLock(r) == TRUE

HasTurn(r) == queue[Chat(r)] # <<>> /\ Head(queue[Chat(r)]) = r

(* The lock was released to the first of those that wait for it. *)
Acquire(r) ==
    /\ Runs(r, "queued")
    /\ HasTurn(r)
    /\ Goes(r, "starting")
    /\ typing' = typing \cup {r}
    /\ UNCHANGED <<poll, updateVars, sent, awaited, cancelled, queue, prompts, ended>>

StartRun(r) ==
    /\ Runs(r, "starting")
    /\ Goes(r, "running")
    /\ UNCHANGED <<poll, updateVars, sent, awaited, cancelled, queue, typing, prompts, ended>>

Ask(r) ==
    /\ Runs(r, "running")
    /\ Len(prompts) < MaxPrompts
    /\ prompts' = Append(prompts, [reply |-> r, answer |-> "open", result |-> "waiting"])
    /\ Goes(r, "asking")
    /\ UNCHANGED <<poll, updateVars, sent, awaited, cancelled, queue, typing, ended>>

(* The prompt that a reply waits for is its latest one. *)
AskedBy(r, n) == prompts[n].reply = r /\ prompts[n].result = "waiting"

Decide(r, result) ==
    \E n \in DOMAIN prompts :
        /\ AskedBy(r, n)
        /\ prompts' = [prompts EXCEPT ![n].result = result]

Answered(r) ==
    /\ Runs(r, "asking")
    /\ \E n \in DOMAIN prompts : AskedBy(r, n) /\ prompts[n].answer # "open"
         /\ prompts' = [prompts EXCEPT ![n].result =
                IF prompts[n].answer = "yes" THEN "granted" ELSE "refused"]
    /\ Goes(r, "running")
    /\ UNCHANGED <<poll, updateVars, sent, awaited, cancelled, queue, typing, ended>>

(* The prompt cannot be sent, or 280 seconds are over. *)
Unanswered(r) ==
    /\ Runs(r, "asking")
    /\ Decide(r, "refused")
    /\ Goes(r, "running")
    /\ UNCHANGED <<poll, updateVars, sent, awaited, cancelled, queue, typing, ended>>

(* The turn is over: typing stops, then the answer is sent. *)
RunEnds(r) ==
    /\ Runs(r, "running")
    /\ Goes(r, "answering")
    /\ typing' = typing \ {r}
    /\ UNCHANGED <<poll, updateVars, sent, awaited, cancelled, queue, prompts, ended>>

(* The turn raises: the error is reported while typing goes on. *)
RunFails(r) ==
    /\ Runs(r, "running")
    /\ Goes(r, "reporting")
    /\ UNCHANGED <<poll, updateVars, sent, awaited, cancelled, queue, typing, prompts, ended>>

Without(q, r) ==
    IF \E i \in DOMAIN q : q[i] = r
    THEN RemoveAt(q, CHOOSE i \in DOMAIN q : q[i] = r)
    ELSE q

(* The task ends and leaves the lock or its place in the lock's queue. *)
Leave(r) ==
    /\ Goes(r, "done")
    /\ queue' = [queue EXCEPT ![Chat(r)] = Without(@, r)]

(* The answer, the error or the end of the cards is sent, or cannot be sent. *)
ReplyEnds(r) ==
    /\ LoopIsFree
    /\ reply[r] \in {"answering", "reporting", "cleanup"}
    /\ r \notin cancelled
    /\ Leave(r)
    /\ typing' = typing \ {r}
    /\ UNCHANGED <<poll, updateVars, sent, awaited, cancelled, prompts, ended>>

(* Seeded fault: a cancelled prompt only counts as refused. *)
StillRunning(r) == Goes(r, IF reply[r] = "asking" THEN "running" ELSE "cleanup")

CleansUp(r) == Goes(r, "cleanup")

(* CancelledError in the turn or at a prompt: the cards are taken down first. *)
TurnIsCancelled(r) ==
    /\ LoopIsFree
    /\ r \in cancelled
    /\ reply[r] \in {"running", "asking"}
    /\ cancelled' = cancelled \ {r}
    /\ CleansUp(r)
    /\ IF reply[r] = "asking" THEN Decide(r, "refused") ELSE UNCHANGED prompts
    /\ UNCHANGED <<poll, updateVars, sent, awaited, queue, typing, ended>>

(* Anywhere else it ends the task; _reply's try block, whose end stops the    *)
(* typing task, begins only after the progress cards.                         *)
TaskIsCancelled(r) ==
    /\ LoopIsFree
    /\ r \in cancelled
    /\ reply[r] \notin {"running", "asking"}
    /\ cancelled' = cancelled \ {r}
    /\ IF reply[r] = "done" THEN UNCHANGED <<reply, queue>> ELSE Leave(r)
    /\ typing' = IF reply[r] = "starting" THEN typing ELSE typing \ {r}
    /\ UNCHANGED <<poll, updateVars, sent, awaited, prompts, ended>>

-----------------------------------------------------------------------------
Live == {r \in Ids : reply[r] \notin {"none", "done"}}

(* TelegramBridge.stop and the cancellation of the poll task by the daemon. *)
Stop ==
    /\ LoopIsFree
    /\ poll \notin {"stopping", "closing", "closed"}
    /\ poll' = "stopping"
    /\ cancelled' = cancelled \cup Live
    /\ UNCHANGED <<updateVars, sent, awaited, reply, queue, typing, prompts, ended>>

(* The poll task's finally: it cancels once more what is not done yet. *)
CancelAgain ==
    /\ poll = "stopping"
    /\ poll' = "closing"
    /\ awaited' = Live
    /\ cancelled' = cancelled \cup Live
    /\ UNCHANGED <<updateVars, sent, reply, queue, typing, prompts, ended>>

Closed ==
    /\ poll = "closing"
    /\ \A r \in awaited : reply[r] = "done"
    /\ poll' = "closed"
    /\ UNCHANGED <<updateVars, sent, awaited, replyVars, prompts, ended>>

Poll ==
    \/ Fetch \/ BatchDone
    \/ HandleMessage \/ HandleCommand \/ HandlePress \/ HandleCancel
    \/ CancelDone \/ SendEnds \/ SendFails
    \/ CancelAgain \/ Closed

Reply(r) ==
    \/ Begin(r) \/ Noticed(r) \/ Acquire(r) \/ StartRun(r)
    \/ Ask(r) \/ Answered(r) \/ Unanswered(r)
    \/ RunEnds(r) \/ RunFails(r) \/ ReplyEnds(r)
    \/ TurnIsCancelled(r) \/ TaskIsCancelled(r)

Next ==
    \/ \E u \in [chat : Chats, kind : {"message", "command", "cancel", "yes", "no"},
                 prompt : 0..MaxPrompts] : UserSends(u)
    \/ Poll
    \/ \E r \in 1..Len(sent) : Reply(r)
    \/ Stop

Spec == Init /\ [][Next]_vars

(* The event loop runs what is ready, and taking down the cards is bounded by *)
(* timeouts of a second each; of the model and of the owner nothing is assumed. *)
Fairness ==
    /\ WF_vars(CancelDone)
    /\ \A r \in Ids :
        /\ WF_vars(r <= Len(sent) /\ ReplyEnds(r))
        /\ WF_vars(r <= Len(sent) /\ TurnIsCancelled(r))
        /\ WF_vars(r <= Len(sent) /\ TaskIsCancelled(r))

FairSpec == Spec /\ Fairness

-----------------------------------------------------------------------------
TypeOK ==
    /\ poll \in {"polling", "handling", "sending", "acknowledging", "cancelling",
                 "stopping", "closing", "closed"}
    /\ offset \in 1..(MaxUpdates + 1)
    /\ batch \in Seq(Ids)
    /\ sent \in Seq(Update)
    /\ Len(sent) <= MaxUpdates
    /\ handled \in Seq(Ids)
    /\ awaited \in SUBSET Ids
    /\ reply \in [Ids -> Where]
    /\ cancelled \in SUBSET Ids
    /\ queue \in [Chats -> Seq(Ids)]
    /\ typing \in SUBSET Ids
    /\ prompts \in Seq(Prompt)
    /\ ended \in [Chats -> 0..MaxUpdates]

(* Within one life of the bridge every update is handled exactly once and in   *)
(* order, also when a command's result cannot be sent and the rest of the      *)
(* batch has to be fetched again (telegram.py run, self.offset).               *)
HandledInOrder ==
    /\ handled = [i \in 1..(offset - 1) |-> i]
    /\ \A i \in DOMAIN batch : batch[i] = offset + i - 1

(* An action goes on only if the first press its prompt received while it      *)
(* waited was the Approve of the very chat that got the prompt: a second       *)
(* press, a press in another chat, a cancellation and the deadline never       *)
(* approve (telegram.py _request_approval, _resolve_approval).                 *)
Presses(n, kind) ==
    {i \in 1..(offset - 1) : /\ sent[i].kind = kind /\ sent[i].prompt = n
                             /\ sent[i].chat = sent[prompts[n].reply].chat}

ApprovedFirst(n) == \E i \in Presses(n, "yes") : \A j \in Presses(n, "no") : i < j

ApprovalIsPressed ==
    \A n \in DOMAIN prompts : prompts[n].result = "granted" => ApprovedFirst(n)

(* Two messages of one chat are never worked on at the same time (telegram.py  *)
(* _start_reply: "Replies are serialised per chat so two questions cannot      *)
(* interleave in the same conversation").                                      *)
OneReplyPerChat ==
    \A r, s \in 1..Len(sent) :
        r # s /\ reply[r] \in InReply /\ reply[s] \in InReply => sent[r].chat # sent[s].chat

(* When /cancel reports and when the bridge has closed, nothing that came      *)
(* before still works or waits for its turn (telegram.py, the cancel command   *)
(* and the end of run).                                                        *)
CancelIsComplete ==
    /\ \A c \in Chats : \A r \in 1..ended[c] :
           sent[r].chat = c => reply[r] \in {"none", "done"}
    /\ poll = "closed" => \A r \in Ids : reply[r] \in {"none", "done"}

(* Waiting for the cancelled replies never holds the poll loop up for ever,    *)
(* whatever they were doing (telegram.py, gather in the cancel command).       *)
CancelReturns == poll = "cancelling" ~> poll # "cancelling"

(* The typing indicator is refreshed for a reply that is being worked on, and  *)
(* for no other, as long as the bridge is not being stopped                    *)
(* (telegram.py:354-355, "a reply here can take minutes, so refresh it until   *)
(* the answer is ready").                                                      *)
TypingMeansWorking ==
    poll \notin {"stopping", "closing", "closed"} => \A r \in typing : reply[r] # "done"
=============================================================================
