------------------------------ MODULE TuiWorker ------------------------------
(***************************************************************************)
(* The full-screen client's request queue (tui_full.py: _worker_loop,      *)
(* _enqueue, _accept, _cancel_pending, _ask, _ask_permission and the       *)
(* /cancel, Escape and Ctrl-C handlers).                                   *)
(*                                                                         *)
(* Keystrokes and one worker task share the queue, the menu that the next  *)
(* line of input is taken for, and the future an approval prompt waits on. *)
(* A cancellation is requested by a keystroke and takes effect when the    *)
(* worker runs next, wherever it then is: the request under way, an        *)
(* approval prompt, or the wait for the next message.                      *)
(***************************************************************************)
EXTENDS Naturals, Sequences

CONSTANTS
    MaxMessages,   (* lines typed for the model,                               *)
    MaxPrompts,    (* approval prompts, and                                    *)
    MaxMenus       (* menus: bounds of the model only                          *)

ASSUME ConstantsAssumption ==
    /\ MaxMessages \in Nat
    /\ MaxPrompts \in Nat
    /\ MaxMenus \in Nat

VARIABLES
    app,         (* the full-screen application runs                           *)
    worker,      (* where the worker task is suspended                         *)
    active,      (* _active is set: it is the worker task, and stays so        *)
    cancelling,  (* the task is cancelled and has not run since                *)
    queue,       (* messages are numbered in the order they are typed          *)
    typed,       (* messages typed                                             *)
    current,     (* the message being asked, or 0                              *)
    pending,     (* what the next line of input is taken for                   *)
    menus,       (* menus opened                                               *)
    prompts,     (* approval prompts shown: the last one is number prompts     *)
    future,      (* of the last prompt: its result if it has one               *)
    said,        (* history: what the owner typed at each prompt               *)
    approved,    (* history: prompts for which the daemon was told to go on    *)
    asked,       (* history: the message asked last                            *)
    cleared      (* history: messages typed when the queue was last cleared    *)

queueVars  == <<queue, typed, current, asked>>
promptVars == <<prompts, future, said, approved>>
vars == <<app, worker, active, cancelling, queueVars, pending, menus, promptVars, cleared>>

Init ==
    /\ app = "open"
    /\ worker = "idle"
    /\ active = FALSE
    /\ cancelling = FALSE
    /\ queue = <<>>
    /\ typed = 0
    /\ current = 0
    /\ pending = "nothing"
    /\ menus = 0
    /\ prompts = 0
    /\ future = "none"
    /\ said = [p \in 1..MaxPrompts |-> "nothing"]
    /\ approved = {}
    /\ asked = 0
    /\ cleared = 0

-----------------------------------------------------------------------------
(* The worker.  A step of it is taken only while it is not being cancelled:   *)
(* the cancellation is what it meets first.                                   *)
Runs(where) == worker = where /\ ~cancelling

(* queue.get() with a message there returns it at once, and _ask connects and *)
(* sends the request; else the worker is suspended until one is put.          *)
GetMessage ==
    IF queue = <<>>
    THEN worker' = "idle" /\ current' = 0 /\ UNCHANGED <<queue, asked>>
    ELSE worker' = "asking" /\ current' = Head(queue) /\ asked' = current' /\ queue' = Tail(queue)

TakeMessage ==
    /\ Runs("idle")
    /\ queue # <<>>
    /\ GetMessage
    /\ active' = TRUE
    /\ UNCHANGED <<app, cancelling, typed, pending, menus, promptVars, cleared>>

(* "done", the end of the stream, or an exception other than CancelledError. *)
RequestEnds ==
    /\ Runs("asking")
    /\ GetMessage
    /\ UNCHANGED <<app, active, cancelling, typed, pending, menus, promptVars, cleared>>

(* A permission event: the prompt takes over whatever menu was open. *)
ShowPrompt ==
    /\ Runs("asking")
    /\ prompts < MaxPrompts
    /\ worker' = "prompt"
    /\ prompts' = prompts + 1
    /\ future' = "open"
    /\ pending' = "permission"
    /\ UNCHANGED <<app, active, cancelling, queueVars, menus, said, approved, cleared>>

(* The permission_response is written and the request goes on. *)
Respond(answer) ==
    /\ worker' = "asking"
    /\ approved' = IF answer = "yes" THEN approved \cup {prompts} ELSE approved
    /\ UNCHANGED <<app, active, queueVars, pending, menus, prompts, said, cleared>>

Answered ==
    /\ Runs("prompt")
    /\ future \in {"yes", "no"}
    /\ Respond(future)
    /\ UNCHANGED <<cancelling, future>>

(* Seeded fault: the prompt has no deadline. *)
NoDeadline == FALSE

Deadline == Runs("prompt")

(* wait_for(future, 280) times out, also when the answer came just before:    *)
(* the future is done, and the prompt stays what the next line is taken for.  *)
PromptExpires ==
    /\ Deadline
    /\ Respond("no")
    /\ future' = IF future = "open" THEN "expired" ELSE future
    /\ UNCHANGED cancelling

(* CancelledError in _ask ends the request; the worker goes on. *)
RequestIsCancelled ==
    /\ cancelling
    /\ worker = "asking"
    /\ cancelling' = FALSE
    /\ GetMessage
    /\ UNCHANGED <<app, active, typed, pending, menus, promptVars, cleared>>

(* In _ask_permission it only denies the action.  (An answer that is already  *)
(* there counts on Python 3.11 and is dropped from 3.12 on.)                  *)
PromptIsCancelled ==
    /\ cancelling
    /\ worker = "prompt"
    /\ cancelling' = FALSE
    /\ \/ Respond("no")
       \/ future = "yes" /\ Respond("yes")
    /\ future' = IF future = "open" THEN "expired" ELSE future

(* At queue.get() nothing catches it: the task ends, and is not started again. *)
WorkerIsCancelled ==
    /\ cancelling
    /\ worker = "idle"
    /\ cancelling' = FALSE
    /\ worker' = "dead"
    /\ UNCHANGED <<app, active, queueVars, pending, menus, promptVars, cleared>>

Worker ==
    \/ TakeMessage
    \/ RequestEnds
    \/ ShowPrompt
    \/ Answered
    \/ PromptExpires
    \/ RequestIsCancelled
    \/ PromptIsCancelled
    \/ WorkerIsCancelled

-----------------------------------------------------------------------------
(* Keystrokes. *)

(* Seeded fault: the newest line is put before those that wait. *)
PutFirst(line) == <<line>> \o queue

Put(line) == Append(queue, line)

(* A line that is not a command and that no menu waits for: _enqueue. *)
TypeMessage ==
    /\ app = "open"
    /\ pending = "nothing"
    /\ typed < MaxMessages
    /\ typed' = typed + 1
    /\ queue' = Put(typed + 1)
    /\ UNCHANGED <<app, worker, active, cancelling, current, asked, pending, menus, promptVars, cleared>>

(* A line while a prompt is shown is the answer to it.  When the prompt has   *)
(* expired, or a menu took its place, the line goes to _resume_pending, which *)
(* has nothing to do with kind "permission".                                  *)
AnswerPending(say) ==
    /\ app = "open"
    /\ pending # "nothing"
    /\ pending' = "nothing"
    /\ future' = IF pending = "permission" /\ future = "open" THEN say ELSE future
    /\ said' = IF pending = "permission" THEN [said EXCEPT ![prompts] = say] ELSE said
    /\ UNCHANGED <<app, worker, active, cancelling, queueVars, menus, prompts, approved, cleared>>

(* A command that fetches something opens its menu when the answer arrives,   *)
(* over whatever is shown then.                                               *)
OpenMenu ==
    /\ app = "open"
    /\ menus < MaxMenus
    /\ menus' = menus + 1
    /\ pending' = "menu"
    /\ UNCHANGED <<app, worker, active, cancelling, queueVars, promptVars, cleared>>

(* Seeded fault: giving up a menu answers the prompt under it with yes. *)
GivenUpAsYes == IF future = "open" THEN "yes" ELSE future

(* _cancel_pending: an open prompt is denied, even under another menu. *)
GivenUp == IF future = "open" THEN "no" ELSE future

(* Escape, or an empty line. *)
Escape ==
    /\ app = "open"
    /\ pending # "nothing"
    /\ pending' = "nothing"
    /\ future' = GivenUp
    /\ UNCHANGED <<app, worker, active, cancelling, queueVars, menus, prompts, said,
                   approved, cleared>>

WorkerAlive == active /\ worker # "dead"

(* /cancel gives up a menu, empties the queue and cancels the worker task. *)
CancelCommand ==
    /\ app = "open"
    /\ queue' = <<>>
    /\ cleared' = typed
    /\ cancelling' = (cancelling \/ WorkerAlive)
    /\ IF pending # "nothing"
       THEN pending' = "nothing" /\ future' = GivenUp
       ELSE UNCHANGED <<pending, future>>
    /\ UNCHANGED <<app, worker, active, typed, current, asked, menus, prompts, said,
                   approved>>

(* Ctrl-C cancels the worker task while there is one, and else leaves. *)
ControlC ==
    /\ app = "open"
    /\ IF WorkerAlive
       THEN cancelling' = TRUE /\ UNCHANGED app
       ELSE app' = "closed" /\ UNCHANGED cancelling
    /\ UNCHANGED <<worker, active, queueVars, pending, menus, promptVars, cleared>>

Owner ==
    \/ TypeMessage
    \/ \E say \in {"yes", "no"} : AnswerPending(say)
    \/ OpenMenu
    \/ Escape
    \/ CancelCommand
    \/ ControlC

Next == Worker \/ Owner

Spec == Init /\ [][Next]_vars

(* The event loop runs the worker when it can go on, and the deadline is a    *)
(* timer; that a request ends is up to the daemon and its model.              *)
Fairness ==
    /\ WF_vars(TakeMessage)
    /\ WF_vars(Answered)
    /\ WF_vars(PromptExpires)
    /\ WF_vars(RequestIsCancelled)
    /\ WF_vars(PromptIsCancelled)
    /\ WF_vars(WorkerIsCancelled)

FairSpec == Spec /\ Fairness

(* ... and here it does. *)
GoodDaemonSpec == FairSpec /\ WF_vars(RequestEnds)

-----------------------------------------------------------------------------
TypeOK ==
    /\ app \in {"open", "closed"}
    /\ worker \in {"idle", "asking", "prompt", "dead"}
    /\ active \in BOOLEAN
    /\ cancelling \in BOOLEAN
    /\ queue \in Seq(1..MaxMessages)
    /\ typed \in 0..MaxMessages
    /\ current \in 0..MaxMessages
    /\ current # 0 <=> worker \in {"asking", "prompt"}
    /\ pending \in {"nothing", "permission", "menu"}
    /\ menus \in 0..MaxMenus
    /\ prompts \in 0..MaxPrompts
    /\ future \in {"none", "open", "yes", "no", "expired"}
    /\ future = "none" <=> prompts = 0
    /\ said \in [1..MaxPrompts -> {"nothing", "yes", "no"}]
    /\ approved \in SUBSET (1..MaxPrompts)
    /\ asked \in 0..MaxMessages
    /\ cleared \in 0..MaxMessages

(* The daemon is told to go on with an action only when the owner's yes was    *)
(* typed at that prompt: no other menu's line, no answer to an earlier prompt, *)
(* no deadline and no cancellation turns into consent (tui_full.py _accept,    *)
(* _cancel_pending, _ask_permission).                                          *)
ApprovalIsTyped == \A p \in approved : said[p] = "yes"

(* A prompt is decided once, and granted only after the owner typed a yes at   *)
(* it, whatever else sets the future that carries the answer: lines, menus,    *)
(* Escape, deadlines and cancellations may cross, and the client implements    *)
(* Consent (tui_full.py _ask_permission, _accept, _cancel_pending).            *)
StateOf(p) ==
    IF p > prompts THEN "unasked"
    ELSE IF p = prompts /\ worker = "prompt"
         THEN IF said[p] = "nothing" THEN "open" ELSE said[p]
    ELSE IF p \in approved THEN "granted" ELSE "denied"

Consent ==
    INSTANCE Consent WITH Prompts <- 1..MaxPrompts,
        state <- [p \in 1..MaxPrompts |-> StateOf(p)]

KeepsConsent == Consent!Spec

(* Messages are asked in the order they were typed and none is passed over:    *)
(* the next one is the first typed after the last one asked and after the last *)
(* /cancel, so that a cleared message is never asked and one typed after it    *)
(* is not lost with it (tui_full.py, _enqueue, _worker_loop and /cancel).      *)
LastSettled == IF asked > cleared THEN asked ELSE cleared

AskedInOrder ==
    [][current' # current /\ current' # 0 => current' = LastSettled + 1]_vars

(* A prompt nobody answers, or whose place a menu took, does not hold the      *)
(* queue up for ever (tui_full.py, "a walked-away prompt fails safe").         *)
PromptEnds == worker = "prompt" ~> worker # "prompt"

(* A message that was queued is asked or cleared (tui_full.py:704-706 "'some   *)
(* messages never responded'. Serialising fixes that.").                       *)
EveryMessageIsAsked ==
    \A m \in 1..MaxMessages :
        (\E i \in DOMAIN queue : queue[i] = m)
            ~> (current = m \/ m <= cleared \/ app = "closed")
=============================================================================
