--------------------------- MODULE TuiWorkerProofs ---------------------------
(* Proofs about TuiWorker, for any number of messages, prompts and menus. *)
EXTENDS TuiWorker, TLAPS

(* The queue holds the numbers after the message settled last, up to the last  *)
(* one typed, each once and in order.                                          *)
QueueInOrder ==
    /\ LastSettled + Len(queue) = typed
    /\ \A i \in DOMAIN queue : queue[i] = LastSettled + i

(* An open future's prompt has not been answered, a yes in the future was      *)
(* typed at its prompt, and no other value of it leads to an approval.         *)
FutureIsTyped ==
    /\ \A p \in 1..MaxPrompts : p > prompts => said[p] = "nothing"
    /\ future = "open" => said[prompts] = "nothing"
    /\ future = "yes" => said[prompts] = "yes"
    /\ pending = "permission" => future \in {"open", "expired"}
    /\ prompts \in approved => future = "yes"
    /\ \A p \in approved : p <= prompts

IInv == TypeOK /\ QueueInOrder /\ FutureIsTyped /\ ApprovalIsTyped

USE ConstantsAssumption DEF ConstantsAssumption

LEMMA InitIInv == Init => IInv
  <1>1. Init => TypeOK
    <2>1. <<>> \in Seq(1..MaxMessages)
      OBVIOUS
    <2>2. 0 \in 0..MaxMessages /\ 0 \in 0..MaxMenus /\ 0 \in 0..MaxPrompts
      OBVIOUS
    <2> QED BY <2>1, <2>2 DEF Init, TypeOK
  <1>2. Init => QueueInOrder
    BY DEF Init, QueueInOrder, LastSettled
  <1>3. Init => FutureIsTyped /\ ApprovalIsTyped
    BY DEF Init, FutureIsTyped, ApprovalIsTyped
  <1> QED BY <1>1, <1>2, <1>3 DEF IInv

(* Taking the next message takes the first one, and keeps the rest in order. *)
LEMMA GetMessageKeeps ==
    ASSUME IInv, GetMessage, UNCHANGED <<typed, cleared>>
    PROVE  /\ queue' \in Seq(1..MaxMessages)
           /\ current' \in 0..MaxMessages
           /\ asked' \in 0..MaxMessages
           /\ current' # 0 <=> worker' \in {"asking", "prompt"}
           /\ worker' \in {"idle", "asking", "prompt", "dead"}
           /\ QueueInOrder'
           /\ current' # 0 => current' = LastSettled + 1
  <1>1. CASE queue = <<>>
    BY <1>1 DEF IInv, TypeOK, QueueInOrder, LastSettled, GetMessage
  <1>2. CASE queue # <<>>
    <2>1. /\ Len(queue) \in Nat \ {0}
          /\ queue \in Seq(1..MaxMessages)
          /\ 1 \in DOMAIN queue
          /\ asked \in Nat /\ cleared \in Nat /\ typed \in Nat
      BY <1>2 DEF IInv, TypeOK
    <2>2. /\ Tail(queue) \in Seq(1..MaxMessages)
          /\ Len(Tail(queue)) = Len(queue) - 1
          /\ Head(queue) = queue[1]
          /\ queue[1] \in 1..MaxMessages
      BY <1>2, <2>1
    <2>3. \A i \in DOMAIN Tail(queue) :
             i \in Nat /\ i + 1 \in DOMAIN queue /\ Tail(queue)[i] = queue[i + 1]
      BY <1>2, <2>1
    <2>4. /\ queue' = Tail(queue) /\ current' = queue[1] /\ asked' = queue[1]
          /\ worker' = "asking"
      BY <1>2, <2>2 DEF GetMessage
    <2>5. queue[1] = LastSettled + 1 /\ LastSettled \in Nat
      BY <2>1 DEF IInv, QueueInOrder, LastSettled
    <2>6. LastSettled' = LastSettled + 1
      BY <2>1, <2>4, <2>5 DEF LastSettled
    <2>7. \A i \in DOMAIN queue' : queue'[i] = LastSettled' + i
      <3> SUFFICES ASSUME NEW i \in DOMAIN queue' PROVE queue'[i] = LastSettled' + i
        OBVIOUS
      <3>1. i \in Nat /\ i + 1 \in DOMAIN queue /\ queue'[i] = queue[i + 1]
        BY <2>3, <2>4
      <3>2. queue[i + 1] = LastSettled + (i + 1)
        BY <3>1 DEF IInv, QueueInOrder
      <3> QED BY <2>5, <2>6, <3>1, <3>2
    <2>8. LastSettled' + Len(queue') = typed'
      <3>1. LastSettled + Len(queue) = typed
        BY DEF IInv, QueueInOrder
      <3> QED BY <2>1, <2>2, <2>4, <2>5, <2>6, <3>1
    <2>9. QueueInOrder'
      BY <2>7, <2>8 DEF QueueInOrder
    <2> QED BY <2>1, <2>2, <2>4, <2>5, <2>9
  <1> QED BY <1>1, <1>2

LEMMA NextIInv == IInv /\ [Next]_vars => IInv'
  <1> SUFFICES ASSUME IInv, [Next]_vars PROVE IInv'
    OBVIOUS
  <1> USE DEF queueVars, promptVars
  <1>1. CASE TakeMessage
    BY <1>1, GetMessageKeeps
    DEF TakeMessage, IInv, TypeOK, FutureIsTyped, ApprovalIsTyped
  <1>2. CASE RequestEnds
    BY <1>2, GetMessageKeeps
    DEF RequestEnds, IInv, TypeOK, FutureIsTyped, ApprovalIsTyped
  <1>3. CASE ShowPrompt
    BY <1>3
    DEF ShowPrompt, Runs, IInv, TypeOK, QueueInOrder, LastSettled, FutureIsTyped, ApprovalIsTyped
  <1>4. CASE Answered
    BY <1>4
    DEF Answered, Runs, Respond, IInv, TypeOK, QueueInOrder, LastSettled, FutureIsTyped, ApprovalIsTyped
  <1>5. CASE PromptExpires
    BY <1>5
    DEF PromptExpires, Deadline, Runs, Respond, IInv, TypeOK, QueueInOrder, LastSettled, FutureIsTyped, ApprovalIsTyped
  <1>6. CASE RequestIsCancelled
    BY <1>6, GetMessageKeeps
    DEF RequestIsCancelled, IInv, TypeOK, FutureIsTyped, ApprovalIsTyped
  <1>7. CASE PromptIsCancelled
    <2>1. /\ worker = "prompt" /\ worker' = "asking" /\ cancelling' = FALSE
          /\ UNCHANGED <<app, active, queueVars, pending, menus, prompts, said, cleared>>
          /\ future' = IF future = "open" THEN "expired" ELSE future
          /\ \/ approved' = approved
             \/ future = "yes" /\ approved' = approved \cup {prompts}
      BY <1>7 DEF PromptIsCancelled, Respond
    <2>2. QueueInOrder'
      BY <2>1 DEF IInv, QueueInOrder, LastSettled
    <2>3. CASE approved' = approved
      BY <2>1, <2>2, <2>3 DEF IInv, TypeOK, FutureIsTyped, ApprovalIsTyped
    <2>4. CASE future = "yes" /\ approved' = approved \cup {prompts}
      <3>1. prompts \in 1..MaxPrompts
        BY <2>4 DEF IInv, TypeOK
      <3>2. TypeOK'
        BY <2>1, <2>4, <3>1 DEF IInv, TypeOK
      <3>3. FutureIsTyped' /\ ApprovalIsTyped'
        BY <2>1, <2>4, <3>1 DEF IInv, TypeOK, FutureIsTyped, ApprovalIsTyped
      <3> QED BY <2>2, <3>2, <3>3 DEF IInv
    <2> QED BY <2>1, <2>3, <2>4
  <1>8. CASE WorkerIsCancelled
    BY <1>8
    DEF WorkerIsCancelled, IInv, TypeOK, QueueInOrder, LastSettled, FutureIsTyped, ApprovalIsTyped
  <1>9. CASE TypeMessage
    <2>1. /\ queue' = Append(queue, typed + 1) /\ typed' = typed + 1
          /\ LastSettled' = LastSettled /\ typed \in Nat /\ LastSettled \in Nat
          /\ queue \in Seq(1..MaxMessages) /\ typed + 1 \in 1..MaxMessages
          /\ LastSettled + Len(queue) = typed
      BY <1>9 DEF TypeMessage, Put, IInv, TypeOK, QueueInOrder, LastSettled
    <2>2. QueueInOrder'
      <3>1. ASSUME NEW i \in DOMAIN queue'
            PROVE  queue'[i] = LastSettled + i
        <4>1. CASE i \in DOMAIN queue
          BY <2>1, <4>1 DEF IInv, QueueInOrder
        <4>2. CASE i = Len(queue) + 1
          BY <2>1, <4>2
        <4> QED BY <2>1, <4>1, <4>2
      <3>2. Len(queue') = Len(queue) + 1
        BY <2>1
      <3> QED BY <2>1, <3>1, <3>2 DEF QueueInOrder
    <2>3. TypeOK'
      BY <1>9, <2>1 DEF TypeMessage, IInv, TypeOK
    <2> QED BY <1>9, <2>2, <2>3 DEF TypeMessage, IInv, FutureIsTyped, ApprovalIsTyped
  <1>10. ASSUME NEW say \in {"yes", "no"}, AnswerPending(say) PROVE IInv'
    <2> /\ UNCHANGED <<app, worker, active, cancelling, queueVars, menus, prompts, approved,
                       cleared>>
        /\ pending' = "nothing"
      BY <1>10 DEF AnswerPending
    <2>1. CASE pending = "permission"
      <3>1. /\ future' = IF future = "open" THEN say ELSE future
            /\ said' = [said EXCEPT ![prompts] = say]
        BY <1>10, <2>1 DEF AnswerPending
      <3>2. future \in {"open", "expired"} /\ prompts \in 1..MaxPrompts
        BY <2>1 DEF IInv, TypeOK, FutureIsTyped
      <3>3. TypeOK'
        BY <3>1, <3>2 DEF IInv, TypeOK
      <3>4. FutureIsTyped'
        BY <3>1, <3>2 DEF IInv, TypeOK, FutureIsTyped
      <3>5. ApprovalIsTyped'
        BY <3>1, <3>2 DEF IInv, TypeOK, FutureIsTyped, ApprovalIsTyped
      <3> QED
        BY <3>3, <3>4, <3>5 DEF IInv, QueueInOrder, LastSettled
    <2>2. CASE pending # "permission"
      <3>1. UNCHANGED <<future, said>>
        BY <1>10, <2>2 DEF AnswerPending
      <3> QED
        BY <3>1 DEF IInv, TypeOK, QueueInOrder, LastSettled, FutureIsTyped, ApprovalIsTyped
    <2> QED BY <2>1, <2>2
  <1>11. CASE OpenMenu
    BY <1>11 DEF OpenMenu, IInv, TypeOK, QueueInOrder, LastSettled, FutureIsTyped, ApprovalIsTyped
  <1>12. CASE Escape
    BY <1>12 DEF Escape, GivenUp, IInv, TypeOK, QueueInOrder, LastSettled, FutureIsTyped, ApprovalIsTyped
  <1>13. CASE CancelCommand
    BY <1>13
    DEF CancelCommand, GivenUp, WorkerAlive, IInv, TypeOK, QueueInOrder, LastSettled, FutureIsTyped, ApprovalIsTyped
  <1>14. CASE ControlC
    BY <1>14
    DEF ControlC, WorkerAlive, IInv, TypeOK, QueueInOrder, LastSettled, FutureIsTyped, ApprovalIsTyped
  <1>15. CASE UNCHANGED vars
    BY <1>15 DEF vars, IInv, TypeOK, QueueInOrder, LastSettled, FutureIsTyped, ApprovalIsTyped
  <1> QED
    BY <1>1, <1>2, <1>3, <1>4, <1>5, <1>6, <1>7, <1>8, <1>9, <1>10, <1>11, <1>12, <1>13,
       <1>14, <1>15
    DEF Next, Worker, Owner

(* IInv is an invariant of the queue, whatever the daemon and the owner do. *)
LEMMA Inductive == Spec => []IInv
  <1>1. Init => IInv
    BY InitIInv
  <1>2. IInv /\ [Next]_vars => IInv'
    BY NextIInv
  <1> QED BY <1>1, <1>2, PTL DEF Spec

(* The variables keep their types, and a message is under way exactly while    *)
(* the worker is inside _ask (tui_full.py, _worker_loop).                      *)
THEOREM TypeCorrect == Spec => []TypeOK
  <1>1. IInv => TypeOK
    BY DEF IInv
  <1> QED BY <1>1, Inductive, PTL

(* No deadline, cancellation, other menu or answer to an earlier prompt is     *)
(* ever sent to the daemon as the owner's consent (tui_full.py, _accept,       *)
(* _cancel_pending, _ask_permission).                                          *)
THEOREM ApprovalsAreTyped == Spec => []ApprovalIsTyped
  <1>1. IInv => ApprovalIsTyped
    BY DEF IInv
  <1> QED BY <1>1, Inductive, PTL

(* Only the worker changes what is being asked, and it takes it from the queue. *)
LEMMA StepAsksNext ==
    IInv /\ [Next]_vars => (current' # current /\ current' # 0 => current' = LastSettled + 1)
  <1> SUFFICES ASSUME IInv, [Next]_vars, current' # current, current' # 0
               PROVE  current' = LastSettled + 1
    OBVIOUS
  <1> USE DEF queueVars, promptVars
  <1>1. CASE GetMessage /\ UNCHANGED <<typed, cleared>>
    BY <1>1, GetMessageKeeps
  <1>2. CASE UNCHANGED current
    BY <1>2
  <1> QED
    BY <1>1, <1>2
    DEF Next, Worker, Owner, vars, TakeMessage, RequestEnds, ShowPrompt, Answered, Respond,
        PromptExpires, RequestIsCancelled, PromptIsCancelled, WorkerIsCancelled, TypeMessage,
        AnswerPending, OpenMenu, Escape, CancelCommand, ControlC

(* The next message is always the first one typed after the last one asked and *)
(* the last /cancel: none is passed over, asked twice or asked out of turn     *)
(* (tui_full.py, _enqueue, _worker_loop and /cancel).                          *)
THEOREM MessagesInOrder == Spec => AskedInOrder
  <1>1. IInv /\ [Next]_vars
            => [current' # current /\ current' # 0 => current' = LastSettled + 1]_vars
    BY StepAsksNext
  <1> QED BY <1>1, Inductive, PTL DEF Spec, AskedInOrder

-----------------------------------------------------------------------------
(* The refinement of Consent. *)

States == [p \in 1..MaxPrompts |-> StateOf(p)]

(* What was approved was shown, and the prompt on the screen is not decided. *)
PromptsInOrder ==
    /\ approved \subseteq 1..prompts
    /\ worker = "prompt" =>
           prompts \notin approved /\ prompts > 0 /\ future \in {"open", "yes", "no"}

LEMMA InitPrompts == Init => PromptsInOrder
  BY DEF Init, PromptsInOrder

LEMMA NextPrompts == IInv /\ PromptsInOrder /\ [Next]_vars => PromptsInOrder'
  <1> SUFFICES ASSUME TypeOK, PromptsInOrder, [Next]_vars PROVE PromptsInOrder'
    BY DEF IInv
  <1> USE DEF PromptsInOrder, TypeOK, queueVars, promptVars
  <1>1. CASE TakeMessage \/ RequestEnds \/ RequestIsCancelled
    BY <1>1 DEF TakeMessage, RequestEnds, RequestIsCancelled, GetMessage
  <1>2. CASE ShowPrompt
    BY <1>2 DEF ShowPrompt, Runs
  <1>3. CASE Answered \/ PromptExpires \/ PromptIsCancelled
    <2>1. /\ worker = "prompt" /\ worker' = "asking" /\ prompts' = prompts
          /\ approved' = approved \/ approved' = approved \cup {prompts}
      BY <1>3 DEF Answered, PromptExpires, PromptIsCancelled, Respond, Deadline, Runs
    <2>2. prompts \in 1..prompts
      BY <2>1
    <2>3. approved' \subseteq 1..prompts'
      <3>1. CASE approved' = approved
        BY <2>1, <3>1
      <3>2. CASE approved' = approved \cup {prompts}
        BY <2>1, <2>2, <3>2
      <3> QED BY <2>1, <3>1, <3>2
    <2> QED BY <2>1, <2>3
  <1>4. CASE WorkerIsCancelled \/ TypeMessage \/ OpenMenu \/ ControlC
    BY <1>4 DEF WorkerIsCancelled, TypeMessage, OpenMenu, ControlC
  <1>5. ASSUME NEW say \in {"yes", "no"}, AnswerPending(say) PROVE PromptsInOrder'
    BY <1>5 DEF AnswerPending
  <1>6. CASE Escape \/ CancelCommand
    BY <1>6 DEF Escape, CancelCommand, GivenUp
  <1>7. CASE UNCHANGED vars
    BY <1>7 DEF vars
  <1> QED BY <1>1, <1>2, <1>3, <1>4, <1>5, <1>6, <1>7 DEF Next, Worker, Owner

(* A step that changes the state of one prompt. *)
LEMMA OneChanges ==
    ASSUME NEW p \in 1..MaxPrompts, NEW v, StateOf(p)' = v,
           \A q \in 1..MaxPrompts : q # p => StateOf(q)' = StateOf(q)
    PROVE  States' = [States EXCEPT ![p] = v]
  BY DEF States

LEMMA NoneChanges ==
    ASSUME UNCHANGED <<prompts, approved, said>>,
           worker' = worker \/ {worker, worker'} \cap {"prompt"} = {}
    PROVE  States' = States
  BY DEF States, StateOf

(* What the owner said at the prompt on the screen, and what becomes of it. *)
LEMMA RespondDecides ==
    ASSUME IInv, PromptsInOrder, worker = "prompt", NEW answer, Respond(answer),
           answer = "yes" => future = "yes"
    PROVE  Consent!Next
  <1> USE DEF IInv, TypeOK, PromptsInOrder, Respond, StateOf
  <1>1. prompts \in 1..MaxPrompts /\ prompts' = prompts /\ worker' = "asking"
    OBVIOUS
  <1>2. \A q \in 1..MaxPrompts : q # prompts => StateOf(q)' = StateOf(q)
    OBVIOUS
  <1>3. States[prompts] \in {"open", "yes", "no"} /\ (said[prompts] = "yes" => States[prompts] = "yes")
    BY <1>1 DEF States
  <1>4. CASE answer = "yes"
    <2>1. StateOf(prompts)' = "granted"
      BY <1>4
    <2>2. States' = [States EXCEPT ![prompts] = "granted"]
      BY <1>1, <1>2, <2>1, OneChanges
    <2>3. said[prompts] = "yes"
      BY <1>4 DEF FutureIsTyped
    <2> QED BY <1>1, <1>3, <2>2, <2>3 DEF Consent!Next, Consent!Grant, Consent!Becomes, States
  <1>5. CASE answer # "yes"
    <2>1. StateOf(prompts)' = "denied"
      BY <1>5
    <2>2. States' = [States EXCEPT ![prompts] = "denied"]
      BY <1>1, <1>2, <2>1, OneChanges
    <2> QED BY <1>1, <1>3, <2>2 DEF Consent!Next, Consent!Deny, Consent!Becomes, States
  <1> QED BY <1>4, <1>5

(* A line typed while the prompt is on the screen and nothing has replaced it *)
(* is what the owner says at it; every other line says nothing.               *)
LEMMA LineSays ==
    ASSUME IInv, PromptsInOrder, NEW say \in {"yes", "no"}, AnswerPending(say)
    PROVE  Consent!Next \/ UNCHANGED States
  <1> USE DEF IInv, TypeOK, PromptsInOrder
  <1>1. /\ UNCHANGED <<worker, prompts, approved>>
        /\ said' = IF pending = "permission" THEN [said EXCEPT ![prompts] = say] ELSE said
    BY DEF AnswerPending
  <1>2. CASE pending # "permission"
    BY <1>1, <1>2, NoneChanges
  <1>3. CASE worker # "prompt"
    BY <1>1, <1>3 DEF States, StateOf
  <1>4. CASE pending = "permission" /\ worker = "prompt"
    <2>1. prompts \in 1..MaxPrompts /\ said[prompts] = "nothing"
      BY <1>4 DEF FutureIsTyped
    <2>2. said' = [said EXCEPT ![prompts] = say]
      BY <1>1, <1>4
    <2>3. said'[prompts] = say /\ \A q \in 1..MaxPrompts : q # prompts => said'[q] = said[q]
      BY <2>1, <2>2
    <2>4. StateOf(prompts) = "open" /\ StateOf(prompts)' = say
      BY <1>1, <1>4, <2>1, <2>3 DEF StateOf
    <2>5. \A q \in 1..MaxPrompts : q # prompts => StateOf(q)' = StateOf(q)
      BY <1>1, <2>3 DEF StateOf
    <2>6. States' = [States EXCEPT ![prompts] = say]
      BY <1>1, <2>1, <2>4, <2>5, OneChanges
    <2>7. States[prompts] = "open"
      BY <2>1, <2>4 DEF States
    <2> QED BY <2>1, <2>6, <2>7 DEF Consent!Next, Consent!Say, Consent!Becomes, States
  <1> QED BY <1>2, <1>3, <1>4

LEMMA StepRefines ==
    IInv /\ PromptsInOrder /\ [Next]_vars => Consent!Next \/ UNCHANGED States
  <1> SUFFICES ASSUME IInv, PromptsInOrder, [Next]_vars
               PROVE  Consent!Next \/ UNCHANGED States
    OBVIOUS
  <1> USE DEF queueVars, promptVars
  <1>1. CASE TakeMessage \/ RequestEnds \/ RequestIsCancelled
    BY <1>1, NoneChanges DEF TakeMessage, RequestEnds, RequestIsCancelled, GetMessage, Runs
  <1>2. CASE ShowPrompt
    <2> USE DEF IInv, TypeOK, PromptsInOrder, FutureIsTyped
    <2>1. PICK p \in Nat : p = prompts + 1
      OBVIOUS
    <2>2. /\ p \in 1..MaxPrompts /\ prompts' = p /\ worker' = "prompt"
          /\ worker = "asking" /\ approved' = approved
          /\ said' = said /\ said[p] = "nothing"
      BY <1>2, <2>1 DEF ShowPrompt, Runs
    <2>3. StateOf(p) = "unasked" /\ StateOf(p)' = "open"
      BY <2>1, <2>2 DEF StateOf
    <2>4. ASSUME NEW q \in 1..MaxPrompts, q # p PROVE StateOf(q)' = StateOf(q)
      <3>1. CASE q > prompts
        BY <2>1, <2>2, <2>4, <3>1 DEF StateOf
      <3>2. CASE q <= prompts
        BY <2>1, <2>2, <2>4, <3>2 DEF StateOf
      <3> QED BY <3>1, <3>2
    <2>5. States' = [States EXCEPT ![p] = "open"]
      BY <2>2, <2>3, <2>4, OneChanges
    <2>6. States[p] = "unasked"
      BY <2>2, <2>3 DEF States
    <2> QED BY <2>2, <2>5, <2>6 DEF Consent!Next, Consent!Ask, Consent!Becomes, States
  <1>3. CASE Answered
    BY <1>3, RespondDecides DEF Answered, Runs
  <1>4. CASE PromptExpires
    BY <1>4, RespondDecides DEF PromptExpires, Deadline, Runs
  <1>5. CASE PromptIsCancelled
    BY <1>5, RespondDecides DEF PromptIsCancelled
  <1>6. CASE WorkerIsCancelled \/ TypeMessage \/ OpenMenu \/ ControlC
    BY <1>6, NoneChanges DEF WorkerIsCancelled, TypeMessage, OpenMenu, ControlC
  <1>7. ASSUME NEW say \in {"yes", "no"}, AnswerPending(say)
        PROVE  Consent!Next \/ UNCHANGED States
    BY <1>7, LineSays
  <1>8. CASE Escape \/ CancelCommand
    BY <1>8, NoneChanges DEF Escape, CancelCommand
  <1>9. CASE UNCHANGED vars
    BY <1>9, NoneChanges DEF vars
  <1> QED BY <1>1, <1>2, <1>3, <1>4, <1>5, <1>6, <1>7, <1>8, <1>9 DEF Next, Worker, Owner

(* The client implements Consent, for any number of prompts, menus and lines:  *)
(* a prompt is decided once, and granted only after a yes typed at it          *)
(* (tui_full.py, _ask_permission, _accept, _cancel_pending).                   *)
THEOREM ImplementsConsent == Spec => KeepsConsent
  <1>1. Init => Consent!Init
    BY DEF Init, Consent!Init, StateOf
  <1>2. Init => PromptsInOrder
    BY InitPrompts
  <1>3. IInv /\ PromptsInOrder /\ [Next]_vars => PromptsInOrder'
    BY NextPrompts
  <1>4. IInv /\ PromptsInOrder /\ [Next]_vars
            => [Consent!Next]_([p \in 1..MaxPrompts |-> StateOf(p)])
    BY StepRefines DEF States
  <1> QED BY <1>1, <1>2, <1>3, <1>4, Inductive, PTL DEF Spec, KeepsConsent, Consent!Spec
=============================================================================
