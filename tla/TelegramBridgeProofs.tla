------------------------ MODULE TelegramBridgeProofs ------------------------
(* Proofs about TelegramBridge, for any number of chats, updates and prompts. *)
EXTENDS TelegramBridge, SequenceTheorems, TLAPS

USE ConstantsAssumption DEF ConstantsAssumption

-----------------------------------------------------------------------------
(* The inductive invariant. *)

(* What the poll loop knows of comes from updates that were sent; replies come *)
(* from updates that were handled, and a press from a prompt that was shown.   *)
Bounded ==
    /\ offset + Len(batch) <= Len(sent) + 1
    /\ \A r \in Ids : reply[r] # "none" => r < offset
    /\ \A r \in cancelled : reply[r] # "none"
    /\ \A n \in DOMAIN prompts : reply[prompts[n].reply] # "none"
    /\ \A i \in DOMAIN sent : sent[i].kind \in {"yes", "no"} => sent[i].prompt \in DOMAIN prompts
    /\ poll = "cancelling" => offset > 1

(* Whoever is past the lock is first in its chat's queue. *)
LockIsFirst ==
    \A r \in 1..Len(sent) :
        reply[r] \in InReply => queue[Chat(r)] # <<>> /\ Head(queue[Chat(r)]) = r

(* A reply waits for one prompt at a time and only while it is asking; a press *)
(* counts from the moment the prompt is shown.                                 *)
PromptsAreCurrent ==
    /\ \A n \in DOMAIN prompts :
           prompts[n].result = "waiting" => reply[prompts[n].reply] = "asking"
    /\ \A m, n \in DOMAIN prompts :
           /\ prompts[m].result = "waiting" /\ prompts[n].result = "waiting"
           /\ prompts[m].reply = prompts[n].reply
           => m = n

Unpressed(n) == Presses(n, "yes") = {} /\ Presses(n, "no") = {}

AnswersAreFirst ==
    \A n \in DOMAIN prompts :
        /\ prompts[n].answer = "yes" => ApprovedFirst(n)
        /\ prompts[n].result = "granted" => prompts[n].answer = "yes"
        /\ prompts[n].result = "waiting" /\ prompts[n].answer = "open" => Unpressed(n)

IInv == TypeOK /\ HandledInOrder /\ Bounded

-----------------------------------------------------------------------------
LEMMA WithoutProperties ==
    ASSUME NEW q \in Seq(Ids), NEW r
    PROVE  /\ Without(q, r) \in Seq(Ids)
           /\ q # <<>> /\ Head(q) # r => Without(q, r) # <<>> /\ Head(Without(q, r)) = Head(q)
  <1>1. CASE ~ \E i \in DOMAIN q : q[i] = r
    BY <1>1 DEF Without
  <1>2. CASE \E i \in DOMAIN q : q[i] = r
    <2> DEFINE k     == CHOOSE i \in DOMAIN q : q[i] = r
               front == SubSeq(q, 1, k - 1)
               back  == SubSeq(q, k + 1, Len(q))
    <2>1. k \in DOMAIN q /\ q[k] = r
      BY <1>2
    <2>2. k \in 1..Len(q) /\ Len(q) \in Nat
      BY <2>1
    <2>3. Without(q, r) = front \o back
      BY <1>2 DEF Without, RemoveAt
    <2> HIDE DEF k
    <2>4. /\ front \in Seq(Ids)
          /\ Len(front) = k - 1
          /\ \A i \in 1..(k - 1) : front[i] = q[i]
      BY <2>2
    <2>5. back \in Seq(Ids)
      BY <2>2
    <2> HIDE DEF front, back
    <2>6. /\ front \o back \in Seq(Ids)
          /\ Len(front \o back) = Len(front) + Len(back)
          /\ \A i \in 1..(Len(front) + Len(back)) :
                 (front \o back)[i] = IF i <= Len(front) THEN front[i] ELSE back[i - Len(front)]
      BY <2>4, <2>5, ConcatProperties
    <2>7. ASSUME q # <<>>, Head(q) # r
          PROVE  front \o back # <<>> /\ Head(front \o back) = Head(q)
      <3>1. Head(q) = q[1]
        BY <2>7
      <3>2. k > 1
        BY <2>1, <2>2, <2>7, <3>1
      <3>3. Len(back) \in Nat /\ Len(front) >= 1 /\ Len(front) \in Nat
        BY <2>2, <2>4, <2>5, <3>2
      <3>4. (front \o back)[1] = front[1] /\ front[1] = q[1]
        BY <2>2, <2>4, <2>6, <3>2, <3>3
      <3>5. Len(front \o back) >= 1
        BY <2>6, <3>3
      <3> QED BY <2>6, <3>1, <3>4, <3>5
    <2> QED BY <2>3, <2>6, <2>7
  <1> QED BY <1>1, <1>2

-----------------------------------------------------------------------------
(* The poll loop's place in the updates. *)
LEMMA InitIInv == Init => IInv
  BY DEF Init, IInv, TypeOK, HandledInOrder, Bounded, Update, Prompt, Where, InReply, Ids

(* The update that is taken is the one at the offset. *)
LEMMA TakeTakesNext ==
    ASSUME IInv, NEW kinds, Take(kinds)
    PROVE  /\ Head(batch) = offset
           /\ offset \in 1..Len(sent)
           /\ offset' = offset + 1
           /\ handled' = Append(handled, offset)
           /\ batch' = Tail(batch)
           /\ sent[offset].kind \in kinds
           /\ poll = "handling"
           /\ offset \in Ids
  <1>1. batch \in Seq(Ids) /\ batch # <<>> /\ Len(batch) \in Nat /\ Len(batch) >= 1
    BY DEF IInv, TypeOK, Take
  <1>2. Head(batch) = offset
    BY <1>1 DEF IInv, HandledInOrder, TypeOK
  <1>3. Len(sent) \in Nat /\ Len(sent) <= MaxUpdates
    BY DEF IInv, TypeOK
  <1>4. offset \in 1..Len(sent) /\ offset \in Ids
    BY <1>1, <1>3 DEF IInv, TypeOK, Bounded, Ids
  <1> QED BY <1>1, <1>2, <1>4 DEF Take, NextOffset

LEMMA TakeKeepsPlace ==
    ASSUME IInv, NEW kinds, Take(kinds), UNCHANGED sent
    PROVE  /\ offset' \in 1..(MaxUpdates + 1)
           /\ batch' \in Seq(Ids)
           /\ handled' \in Seq(Ids)
           /\ HandledInOrder'
           /\ offset' + Len(batch') <= Len(sent') + 1
  <1>0. /\ offset' = offset + 1 /\ handled' = Append(handled, offset)
        /\ batch' = Tail(batch) /\ offset \in Ids
    BY TakeTakesNext
  <1>1. batch \in Seq(Ids) /\ batch # <<>> /\ handled \in Seq(Ids) /\ offset \in Nat /\ offset >= 1
    BY DEF IInv, TypeOK, Take
  <1>2. offset' \in 1..(MaxUpdates + 1)
    BY <1>0, <1>1 DEF IInv, TypeOK, Ids
  <1>3. batch' \in Seq(Ids) /\ Len(batch') = Len(batch) - 1 /\ Len(batch) \in Nat
    BY <1>0, <1>1
  <1>4. handled' \in Seq(Ids)
    BY <1>0, <1>1
  <1>5. handled' = [i \in 1..(offset' - 1) |-> i]
    <2>1. handled = [i \in 1..(offset - 1) |-> i]
      BY DEF IInv, HandledInOrder
    <2>2. Len(handled) = offset - 1
      BY <1>1, <2>1
    <2>3. /\ Len(handled') = offset
          /\ \A i \in 1..offset : handled'[i] = IF i = offset THEN offset ELSE handled[i]
      BY <1>0, <1>1, <2>2, AppendProperties
    <2>4. \A i \in 1..offset : handled'[i] = i
      <3> SUFFICES ASSUME NEW i \in 1..offset PROVE handled'[i] = i
        OBVIOUS
      <3>1. CASE i = offset
        BY <2>3, <3>1
      <3>2. CASE i # offset
        <4>1. i \in 1..(offset - 1)
          BY <1>1, <3>2
        <4> QED BY <2>1, <2>3, <3>2, <4>1
      <3> QED BY <3>1, <3>2
    <2>5. handled' = [i \in 1..Len(handled') |-> handled'[i]]
      BY <1>4
    <2>6. offset' - 1 = offset
      BY <1>0, <1>1
    <2> QED BY <2>3, <2>4, <2>5, <2>6
  <1>6. ASSUME NEW i \in DOMAIN batch' PROVE batch'[i] = offset' + i - 1
    <2>1. i \in 1..(Len(batch) - 1) /\ i + 1 \in DOMAIN batch
      BY <1>1, <1>3
    <2>2. batch'[i] = batch[i + 1]
      BY <1>0, <1>1, <2>1
    <2>3. batch[i + 1] = offset + (i + 1) - 1
      BY <2>1 DEF IInv, HandledInOrder
    <2>4. offset' + i - 1 = offset + (i + 1) - 1
      BY <1>0, <1>1, <2>1
    <2> QED BY <2>2, <2>3, <2>4
  <1>7. offset' + Len(batch') <= Len(sent') + 1
    BY <1>0, <1>1, <1>3 DEF IInv, Bounded
  <1> QED BY <1>2, <1>3, <1>4, <1>5, <1>6, <1>7 DEF HandledInOrder

(* What the owner sends only adds to what can be fetched. *)
LEMMA SendsKeepIInv ==
    ASSUME IInv, NEW u \in Update, UserSends(u)
    PROVE  IInv'
  <1>1. /\ sent' \in Seq(Update)
        /\ Len(sent') = Len(sent) + 1
        /\ \A i \in 1..Len(sent) : sent'[i] = sent[i]
        /\ sent'[Len(sent) + 1] = u
        /\ Len(sent) \in Nat
    BY AppendProperties DEF IInv, TypeOK, UserSends
  <1>2. TypeOK'
    BY <1>1 DEF IInv, TypeOK, UserSends, updateVars, replyVars
  <1>3. HandledInOrder'
    BY DEF IInv, HandledInOrder, UserSends, updateVars
  <1>4. Bounded'
    <2>1. \A i \in DOMAIN sent' : sent'[i].kind \in {"yes", "no"} => sent'[i].prompt \in DOMAIN prompts
      <3> SUFFICES ASSUME NEW i \in DOMAIN sent', sent'[i].kind \in {"yes", "no"}
                   PROVE  sent'[i].prompt \in DOMAIN prompts
        OBVIOUS
      <3>1. i \in 1..Len(sent) \/ i = Len(sent) + 1
        BY <1>1
      <3>2. CASE i \in 1..Len(sent)
        <4>1. i \in DOMAIN sent
          BY <3>2 DEF IInv, TypeOK
        <4> QED BY <1>1, <3>2, <4>1 DEF IInv, Bounded
      <3>3. CASE i = Len(sent) + 1
        BY <1>1, <3>3 DEF IInv, TypeOK, UserSends
      <3> QED BY <3>1, <3>2, <3>3
    <2>2. offset + Len(batch) <= Len(sent') + 1
      BY <1>1 DEF IInv, TypeOK, Bounded
    <2> QED BY <2>1, <2>2 DEF IInv, Bounded, UserSends, updateVars, replyVars
  <1> QED BY <1>2, <1>3, <1>4 DEF IInv

(* Changing one prompt changes nothing else of the sequence. *)
LEMMA PromptChanges ==
    ASSUME TypeOK, NEW n \in DOMAIN prompts, NEW p \in Prompt
    PROVE  LET changed == [prompts EXCEPT ![n] = p]
           IN  /\ changed \in Seq(Prompt)
               /\ DOMAIN changed = DOMAIN prompts
               /\ changed[n] = p
               /\ \A m \in DOMAIN prompts : m # n => changed[m] = prompts[m]
  BY DEF TypeOK

LEMMA PromptHasReply ==
    ASSUME TypeOK, NEW n \in DOMAIN prompts
    PROVE  prompts[n] \in Prompt /\ prompts[n].reply \in Ids
  <1>1. prompts[n] \in Prompt
    BY DEF TypeOK
  <1> QED BY <1>1 DEF Prompt

LEMMA PollKeepsIInv ==
    ASSUME IInv, Poll
    PROVE  IInv'
  <1> USE DEF updateVars, replyVars, Ids
  <1>0. TypeOK /\ HandledInOrder /\ Bounded
    BY DEF IInv
  <1>1. ASSUME Fetch PROVE IInv'
    <2>1. /\ offset \in Nat /\ Len(sent) \in Nat /\ offset >= 1 /\ offset <= Len(sent)
          /\ Len(sent) <= MaxUpdates
      BY <1>0, <1>1 DEF Fetch, TypeOK
    <2>2. batch' \in Seq(Ids) /\ Len(batch') = Len(sent) + 1 - offset
      BY <1>1, <2>1 DEF Fetch
    <2>3. \A i \in DOMAIN batch' : batch'[i] = offset + i - 1
      BY <1>1, <2>1 DEF Fetch
    <2>4. TypeOK'
      BY <1>0, <1>1, <2>2 DEF Fetch, TypeOK
    <2>5. HandledInOrder'
      BY <1>0, <1>1, <2>3 DEF Fetch, HandledInOrder
    <2>6. Bounded'
      BY <1>0, <1>1, <2>1, <2>2 DEF Fetch, Bounded
    <2> QED BY <2>4, <2>5, <2>6 DEF IInv
  <1>2. ASSUME BatchDone PROVE IInv'
    BY <1>0, <1>2 DEF BatchDone, IInv, TypeOK, HandledInOrder, Bounded
  <1>3. ASSUME HandleMessage PROVE IInv'
    <2>1. UNCHANGED sent /\ Take({"message"})
      BY <1>3 DEF HandleMessage
    <2>2. /\ Head(batch) = offset /\ offset \in Ids /\ offset' = offset + 1
      BY <2>1, TakeTakesNext
    <2>3. /\ offset' \in 1..(MaxUpdates + 1) /\ batch' \in Seq(Ids) /\ handled' \in Seq(Ids)
          /\ HandledInOrder' /\ offset' + Len(batch') <= Len(sent') + 1
      BY <2>1, TakeKeepsPlace
    <2>4. reply' = [reply EXCEPT ![offset] = "new"] /\ offset \in Nat
      <3>1. reply' = [reply EXCEPT ![Head(batch)] = "new"]
        BY <1>3 DEF HandleMessage
      <3>2. offset \in Nat
        BY <2>2
      <3>3. Head(batch) = offset
        BY <2>2
      <3>4. reply' = [reply EXCEPT ![offset] = "new"]
        BY <3>1, <3>3, Zenon
      <3> QED BY <3>2, <3>4
    <2>5. TypeOK'
      BY <1>0, <1>3, <2>3, <2>4 DEF HandleMessage, TypeOK, Where
    <2>6. Bounded'
      <3>1. \A r \in Ids : reply'[r] # "none" => r < offset'
        BY <1>0, <2>2, <2>4 DEF TypeOK, Bounded
      <3>2. \A n \in DOMAIN prompts' : reply'[prompts'[n].reply] # "none"
        BY <1>0, <1>3, <2>2, <2>4 DEF HandleMessage, TypeOK, Bounded, Prompt
      <3>3. \A r \in cancelled' : reply'[r] # "none"
        BY <1>0, <1>3, <2>2, <2>4 DEF HandleMessage, TypeOK, Bounded
      <3> QED BY <1>0, <1>3, <2>2, <2>3, <3>1, <3>2, <3>3 DEF HandleMessage, TypeOK, Bounded
    <2> QED BY <2>3, <2>5, <2>6 DEF IInv
  <1>4. ASSUME HandleCommand PROVE IInv'
    <2>1. UNCHANGED sent /\ Take({"command"})
      BY <1>4 DEF HandleCommand
    <2>2. offset' = offset + 1 /\ offset \in Ids
      BY <2>1, TakeTakesNext
    <2>3. /\ offset' \in 1..(MaxUpdates + 1) /\ batch' \in Seq(Ids) /\ handled' \in Seq(Ids)
          /\ HandledInOrder' /\ offset' + Len(batch') <= Len(sent') + 1
      BY <2>1, TakeKeepsPlace
    <2>4. TypeOK'
      BY <1>0, <1>4, <2>3 DEF HandleCommand, TypeOK
    <2>5. Bounded'
      <3>1. UNCHANGED <<sent, reply, cancelled, prompts>> /\ poll' = "sending"
        BY <1>4 DEF HandleCommand
      <3>2. \A r \in Ids : reply'[r] # "none" => r < offset'
        BY <1>0, <2>2, <3>1 DEF TypeOK, Bounded
      <3> QED BY <1>0, <2>3, <3>1, <3>2 DEF Bounded
    <2> QED BY <2>3, <2>4, <2>5 DEF IInv
  <1>5. ASSUME HandlePress PROVE IInv'
    <2>1. UNCHANGED sent /\ Take({"yes", "no"})
      BY <1>5 DEF HandlePress
    <2>2. offset' = offset + 1 /\ offset \in Ids /\ Head(batch) = offset
          /\ sent[offset].kind \in {"yes", "no"}
      BY <2>1, TakeTakesNext
    <2>3. /\ offset' \in 1..(MaxUpdates + 1) /\ batch' \in Seq(Ids) /\ handled' \in Seq(Ids)
          /\ HandledInOrder' /\ offset' + Len(batch') <= Len(sent') + 1
      BY <2>1, TakeKeepsPlace
    <2> DEFINE u == sent[offset]
    <2>4. \/ prompts' = prompts
          \/ prompts' = [prompts EXCEPT ![u.prompt].answer = u.kind]
      BY <1>5, <2>2 DEF HandlePress
    <2>5. /\ prompts' \in Seq(Prompt)
          /\ DOMAIN prompts' = DOMAIN prompts
          /\ \A n \in DOMAIN prompts : prompts'[n].reply = prompts[n].reply
      <3>1. u.prompt \in DOMAIN prompts
        BY <1>0, <2>1, <2>2, TakeTakesNext DEF Bounded, TypeOK
      <3> DEFINE p == [prompts[u.prompt] EXCEPT !.answer = u.kind]
      <3>2. p \in Prompt /\ p.reply = prompts[u.prompt].reply
        <4>1. prompts[u.prompt] \in Prompt
          BY <1>0, <3>1 DEF TypeOK
        <4>2. u.kind \in {"yes", "no"}
          BY <2>2
        <4> HIDE DEF u
        <4> QED BY <4>1, <4>2 DEF Prompt
      <3>3. prompts' = prompts \/ prompts' = [prompts EXCEPT ![u.prompt] = p]
        BY <2>4
      <3> HIDE DEF p, u
      <3>4. CASE prompts' = prompts
        BY <1>0, <3>4 DEF TypeOK
      <3>5. CASE prompts' = [prompts EXCEPT ![u.prompt] = p]
        BY <1>0, <3>1, <3>2, <3>5, PromptChanges
      <3> QED BY <3>3, <3>4, <3>5
    <2>6. TypeOK'
      BY <1>0, <1>5, <2>3, <2>5 DEF HandlePress, TypeOK
    <2>7. Bounded'
      <3>1. UNCHANGED <<sent, reply, cancelled>> /\ poll' = "acknowledging"
        BY <1>5 DEF HandlePress
      <3>2. offset \in Nat
        BY <2>2
      <3>3. \A r \in Ids : reply'[r] # "none" => r < offset'
        BY <1>0, <2>2, <3>1, <3>2 DEF TypeOK, Bounded
      <3>4. \A n \in DOMAIN prompts' : reply'[prompts'[n].reply] # "none"
        BY <1>0, <2>5, <3>1 DEF Bounded
      <3>5. \A i \in DOMAIN sent' :
                sent'[i].kind \in {"yes", "no"} => sent'[i].prompt \in DOMAIN prompts'
        BY <1>0, <2>5, <3>1 DEF Bounded
      <3> QED BY <1>0, <2>3, <3>1, <3>3, <3>4, <3>5 DEF Bounded
    <2> QED BY <2>3, <2>6, <2>7 DEF IInv
  <1>6. ASSUME HandleCancel PROVE IInv'
    <2>1. UNCHANGED sent /\ Take({"cancel"})
      BY <1>6 DEF HandleCancel
    <2>2. offset' = offset + 1 /\ offset \in Ids
      BY <2>1, TakeTakesNext
    <2>3. /\ offset' \in 1..(MaxUpdates + 1) /\ batch' \in Seq(Ids) /\ handled' \in Seq(Ids)
          /\ HandledInOrder' /\ offset' + Len(batch') <= Len(sent') + 1
      BY <2>1, TakeKeepsPlace
    <2>4. awaited' \in SUBSET Ids
      BY <1>0, <1>6 DEF HandleCancel, LiveOf, TypeOK
    <2>5. TypeOK'
      BY <1>0, <1>6, <2>3, <2>4 DEF HandleCancel, TypeOK
    <2>6. Bounded'
      BY <1>0, <1>6, <2>2, <2>3 DEF HandleCancel, LiveOf, TypeOK, Bounded
    <2> QED BY <2>3, <2>5, <2>6 DEF IInv
  <1>7. ASSUME CancelDone PROVE IInv'
    <2>1. offset \in Nat /\ offset > 1 /\ handled = [i \in 1..(offset - 1) |-> i]
      BY <1>0, <1>7 DEF CancelDone, TypeOK, Bounded, HandledInOrder
    <2>2. handled[Len(handled)] \in Ids
      BY <1>0, <2>1 DEF TypeOK
    <2> DEFINE id == handled[Len(handled)]
    <2>3. ended' \in [Chats -> 0..MaxUpdates]
      <3>1. ended' = [ended EXCEPT ![sent[id].chat] = id]
        BY <1>7 DEF CancelDone
      <3>2. id \in 0..MaxUpdates
        BY <2>2
      <3> HIDE DEF id
      <3> QED BY <1>0, <3>1, <3>2 DEF TypeOK
    <2>4. TypeOK'
      BY <1>0, <1>7, <2>3 DEF CancelDone, TypeOK
    <2> QED BY <1>0, <1>7, <2>4 DEF CancelDone, IInv, HandledInOrder, Bounded
  <1>8. ASSUME SendEnds PROVE IInv'
    BY <1>0, <1>8 DEF SendEnds, IInv, TypeOK, HandledInOrder, Bounded
  <1>9. ASSUME SendFails PROVE IInv'
    <2>1. batch' \in Seq(Ids) /\ Len(batch') = 0 /\ DOMAIN batch' = {}
      BY <1>9 DEF SendFails
    <2>2. offset <= Len(sent) + 1
      BY <1>0 DEF TypeOK, Bounded
    <2> QED BY <1>0, <1>9, <2>1, <2>2 DEF SendFails, IInv, TypeOK, HandledInOrder, Bounded
  <1>10. ASSUME CancelAgain PROVE IInv'
    BY <1>0, <1>10 DEF CancelAgain, Live, IInv, TypeOK, HandledInOrder, Bounded
  <1>11. ASSUME Closed PROVE IInv'
    BY <1>0, <1>11 DEF Closed, IInv, TypeOK, HandledInOrder, Bounded
  <1> QED BY <1>1, <1>2, <1>3, <1>4, <1>5, <1>6, <1>7, <1>8, <1>9, <1>10, <1>11 DEF Poll

LEMMA StopKeepsIInv ==
    ASSUME IInv, Stop
    PROVE  IInv'
  BY DEF IInv, Stop, Live, TypeOK, HandledInOrder, Bounded, updateVars, replyVars

-----------------------------------------------------------------------------
(* A reply task: what its steps can change. *)
LEMMA ReplyMoves ==
    ASSUME IInv, NEW r \in 1..Len(sent), Reply(r)
    PROVE  /\ UNCHANGED <<poll, updateVars, sent, awaited, ended>>
           /\ r \in Ids
           /\ reply[r] # "none"
           /\ \E w \in Where \ {"none"} : reply' = [reply EXCEPT ![r] = w]
           /\ cancelled' \subseteq cancelled
           /\ typing' \in SUBSET Ids
           /\ queue' \in [Chats -> Seq(Ids)]
           /\ Chat(r) \in Chats
  <1>0. TypeOK /\ Bounded
    BY DEF IInv
  <1>1. r \in Ids /\ Chat(r) \in Chats
    <2>1. Len(sent) \in Nat /\ Len(sent) <= MaxUpdates /\ sent[r] \in Update
      BY <1>0 DEF TypeOK
    <2> QED BY <2>1 DEF Ids, Chat, Update
  <1>2. UNCHANGED <<poll, updateVars, sent, awaited, ended>>
    BY DEF Reply, Begin, Noticed, Enter, Acquire, StartRun, Ask, Answered, Unanswered, RunEnds,
           RunFails, ReplyEnds, TurnIsCancelled, TaskIsCancelled
  <1>3. reply[r] # "none"
    BY <1>0 DEF Bounded, Reply, Runs, Begin, Noticed, Enter, Acquire, StartRun, Ask, Answered,
                Unanswered, RunEnds, RunFails, ReplyEnds, TurnIsCancelled, TaskIsCancelled
  <1>4. \E w \in Where \ {"none"} : reply' = [reply EXCEPT ![r] = w]
    <2>1. CASE UNCHANGED reply
      <3>1. reply[r] \in Where \ {"none"} /\ reply' = [reply EXCEPT ![r] = reply[r]]
        BY <1>0, <1>1, <1>3, <2>1 DEF TypeOK
      <3> QED BY <3>1
    <2>2. CASE \E w \in Where \ {"none"} : Goes(r, w)
      BY <2>2 DEF Goes
    <2>3. UNCHANGED reply \/ \E w \in Where \ {"none"} : Goes(r, w)
      BY DEF Reply, Begin, Noticed, Enter, Acquire, StartRun, Ask, Answered, Unanswered, RunEnds,
             RunFails, ReplyEnds, TurnIsCancelled, TaskIsCancelled, Leave, CleansUp, Where, InReply
    <2> QED BY <2>1, <2>2, <2>3
  <1>5. cancelled' \subseteq cancelled
    BY DEF Reply, Begin, Noticed, Enter, Acquire, StartRun, Ask, Answered, Unanswered, RunEnds,
           RunFails, ReplyEnds, TurnIsCancelled, TaskIsCancelled
  <1>6. typing' \in SUBSET Ids
    BY <1>0, <1>1 DEF TypeOK, Reply, Begin, Noticed, Enter, Acquire, StartRun, Ask, Answered,
           Unanswered, RunEnds, RunFails, ReplyEnds, TurnIsCancelled, TaskIsCancelled
  <1>7. queue' \in [Chats -> Seq(Ids)]
    <2>1. CASE UNCHANGED queue
      BY <1>0, <2>1 DEF TypeOK
    <2>2. CASE queue' = [queue EXCEPT ![Chat(r)] = Append(queue[Chat(r)], r)]
      BY <1>0, <1>1, <2>2 DEF TypeOK
    <2>3. CASE queue' = [queue EXCEPT ![Chat(r)] = Without(queue[Chat(r)], r)]
      <3>1. Without(queue[Chat(r)], r) \in Seq(Ids)
        BY <1>0, <1>1, WithoutProperties DEF TypeOK
      <3> QED BY <1>0, <1>1, <2>3, <3>1 DEF TypeOK
    <2>4. \/ UNCHANGED queue
          \/ queue' = [queue EXCEPT ![Chat(r)] = Append(queue[Chat(r)], r)]
          \/ queue' = [queue EXCEPT ![Chat(r)] = Without(queue[Chat(r)], r)]
      BY DEF Reply, Begin, Noticed, Enter, Acquire, StartRun, Ask, Answered, Unanswered, RunEnds,
             RunFails, ReplyEnds, TurnIsCancelled, TaskIsCancelled, Leave
    <2> QED BY <2>1, <2>2, <2>3, <2>4
  <1> QED BY <1>1, <1>2, <1>3, <1>4, <1>5, <1>6, <1>7

(* Prompts are added at the end by Ask, and decided one at a time. *)
LEMMA PromptsMove ==
    ASSUME TypeOK, NEW r \in Ids, Reply(r)
    PROVE  \/ UNCHANGED prompts /\ reply[r] # "asking"
           \/ /\ reply[r] = "running" /\ Goes(r, "asking")
              /\ prompts' = Append(prompts, [reply |-> r, answer |-> "open", result |-> "waiting"])
           \/ \E n \in DOMAIN prompts :
                 /\ reply[r] = "asking"
                 /\ AskedBy(r, n)
                 /\ \E v \in {"granted", "refused"} :
                       /\ v = "granted" => prompts[n].answer = "yes"
                       /\ prompts' = [prompts EXCEPT ![n] = [@ EXCEPT !.result = v]]
  <1>1. CASE Ask(r)
    BY <1>1 DEF Ask, Runs
  <1>2. CASE Answered(r)
    <2>1. PICK n \in DOMAIN prompts :
            /\ AskedBy(r, n) /\ prompts[n].answer # "open"
            /\ prompts' = [prompts EXCEPT ![n].result =
                   IF prompts[n].answer = "yes" THEN "granted" ELSE "refused"]
      BY <1>2 DEF Answered
    <2>2. reply[r] = "asking"
      BY <1>2 DEF Answered, Runs
    <2> QED BY <2>1, <2>2
  <1>3. CASE Unanswered(r)
    BY <1>3 DEF Unanswered, Decide, Runs
  <1>4. CASE TurnIsCancelled(r)
    BY <1>4 DEF TurnIsCancelled, Decide
  <1>5. CASE ~(Ask(r) \/ Answered(r) \/ Unanswered(r) \/ TurnIsCancelled(r))
    BY <1>5 DEF Reply, Begin, Noticed, Enter, Acquire, StartRun, RunEnds, RunFails, ReplyEnds,
                TaskIsCancelled, Runs
  <1> QED BY <1>1, <1>2, <1>3, <1>4, <1>5

LEMMA ReplyKeepsIInv ==
    ASSUME IInv, NEW r \in 1..Len(sent), Reply(r)
    PROVE  IInv'
  <1>0. TypeOK /\ HandledInOrder /\ Bounded
    BY DEF IInv
  <1>1. /\ UNCHANGED <<poll, offset, batch, handled, sent, awaited, ended>>
        /\ r \in Ids
        /\ reply[r] # "none"
        /\ cancelled' \subseteq cancelled
        /\ typing' \in SUBSET Ids
        /\ queue' \in [Chats -> Seq(Ids)]
    BY ReplyMoves DEF updateVars
  <1>2. PICK w \in Where \ {"none"} : reply' = [reply EXCEPT ![r] = w]
    BY ReplyMoves
  <1>3. /\ reply' \in [Ids -> Where]
        /\ \A s \in Ids : reply'[s] = "none" <=> reply[s] = "none"
    BY <1>0, <1>1, <1>2 DEF TypeOK
  <1>4. /\ prompts' \in Seq(Prompt)
        /\ DOMAIN prompts \subseteq DOMAIN prompts'
        /\ \A n \in DOMAIN prompts' : reply'[prompts'[n].reply] # "none"
    <2>1. CASE UNCHANGED prompts
      <3>1. \A n \in DOMAIN prompts : prompts[n].reply \in Ids
        BY <1>0, PromptHasReply
      <3> QED BY <1>0, <1>3, <2>1, <3>1 DEF TypeOK, Bounded
    <2> DEFINE p == [reply |-> r, answer |-> "open", result |-> "waiting"]
    <2>2. CASE prompts' = Append(prompts, p)
      <3>1. p \in Prompt /\ p.reply = r
        BY <1>1 DEF Prompt
      <3> HIDE DEF p
      <3>2. /\ prompts' \in Seq(Prompt) /\ Len(prompts') = Len(prompts) + 1
            /\ Len(prompts) \in Nat
            /\ \A n \in 1..Len(prompts) : prompts'[n] = prompts[n]
            /\ prompts'[Len(prompts) + 1] = p
        BY <1>0, <2>2, <3>1, AppendProperties DEF TypeOK
      <3>3. ASSUME NEW n \in DOMAIN prompts' PROVE reply'[prompts'[n].reply] # "none"
        <4>1. CASE n \in 1..Len(prompts)
          <5>1. prompts'[n] = prompts[n] /\ prompts[n].reply \in Ids
            BY <1>0, <3>2, <4>1, PromptHasReply DEF TypeOK
          <5> QED BY <1>0, <1>3, <4>1, <5>1 DEF TypeOK, Bounded
        <4>2. CASE n = Len(prompts) + 1
          BY <1>1, <1>3, <3>1, <3>2, <4>2
        <4> QED BY <3>2, <4>1, <4>2
      <3> QED BY <1>0, <3>2, <3>3 DEF TypeOK
    <2>3. ASSUME NEW n \in DOMAIN prompts, NEW v \in {"granted", "refused"},
                 prompts' = [prompts EXCEPT ![n] = [@ EXCEPT !.result = v]]
          PROVE  /\ prompts' \in Seq(Prompt)
                 /\ DOMAIN prompts \subseteq DOMAIN prompts'
                 /\ \A m \in DOMAIN prompts' : reply'[prompts'[m].reply] # "none"
      <3> DEFINE q == [prompts[n] EXCEPT !.result = v]
      <3>1. prompts[n] \in Prompt
        BY <1>0 DEF TypeOK
      <3>2. q \in Prompt /\ q.reply = prompts[n].reply /\ prompts' = [prompts EXCEPT ![n] = q]
        BY <2>3, <3>1 DEF Prompt
      <3> HIDE DEF q
      <3>3. /\ prompts' \in Seq(Prompt) /\ DOMAIN prompts' = DOMAIN prompts
            /\ prompts'[n] = q
            /\ \A m \in DOMAIN prompts : m # n => prompts'[m] = prompts[m]
        BY <1>0, <3>2, PromptChanges
      <3>4. \A m \in DOMAIN prompts : prompts'[m].reply = prompts[m].reply
        BY <3>2, <3>3
      <3>5. \A m \in DOMAIN prompts : prompts[m].reply \in Ids
        BY <1>0, PromptHasReply
      <3> QED BY <1>0, <1>3, <3>3, <3>4, <3>5 DEF Bounded
    <2> QED BY <1>0, <1>1, <2>1, <2>2, <2>3, PromptsMove
  <1>5. TypeOK'
    BY <1>0, <1>1, <1>3, <1>4 DEF TypeOK
  <1>6. HandledInOrder'
    BY <1>0, <1>1 DEF HandledInOrder
  <1>7. Bounded'
    <2>1. \A s \in cancelled' : reply'[s] # "none"
      BY <1>0, <1>1, <1>3 DEF TypeOK, Bounded
    <2>2. \A i \in DOMAIN sent : sent[i].kind \in {"yes", "no"} => sent[i].prompt \in DOMAIN prompts'
      BY <1>0, <1>4 DEF Bounded
    <2> QED BY <1>0, <1>1, <1>3, <1>4, <2>1, <2>2 DEF Bounded
  <1> QED BY <1>5, <1>6, <1>7 DEF IInv

LEMMA StepKeepsIInv == IInv /\ [Next]_vars => IInv'
  <1> SUFFICES ASSUME IInv, [Next]_vars PROVE IInv'
    OBVIOUS
  <1>1. ASSUME NEW u \in [chat : Chats, kind : {"message", "command", "cancel", "yes", "no"},
                          prompt : 0..MaxPrompts], UserSends(u)
        PROVE  IInv'
    <2>1. u \in Update
      BY DEF Update
    <2> QED BY <1>1, <2>1, SendsKeepIInv
  <1>2. CASE UNCHANGED vars
    BY <1>2 DEF vars, updateVars, replyVars, IInv, TypeOK, HandledInOrder, Bounded
  <1> QED BY <1>1, <1>2, PollKeepsIInv, ReplyKeepsIInv, StopKeepsIInv DEF Next

(* Every variable of the bridge keeps its type: batch, offset, locks and cards *)
(* (telegram.py, TelegramBridge).                                              *)
THEOREM TypeCorrect == Spec => []TypeOK
  <1>1. IInv => TypeOK
    BY DEF IInv
  <1> QED BY <1>1, InitIInv, StepKeepsIInv, PTL DEF Spec

(* Every update is handled once and in order, whatever the chats send,         *)
(* whenever a command's result is lost and whatever is cancelled when          *)
(* (telegram.py, the offset of the poll loop).                                 *)
THEOREM UpdatesInOrder == Spec => []HandledInOrder
  <1>1. IInv => HandledInOrder
    BY DEF IInv
  <1> QED BY <1>1, InitIInv, StepKeepsIInv, PTL DEF Spec

-----------------------------------------------------------------------------
(* Mutual exclusion of the replies of a chat. *)
LEMMA ReplyKeepsLock ==
    ASSUME IInv, LockIsFirst, NEW r \in 1..Len(sent), Reply(r)
    PROVE  LockIsFirst'
  <1>0. TypeOK
    BY DEF IInv
  <1>1. UNCHANGED sent /\ r \in Ids /\ Chat(r) \in Chats
    BY ReplyMoves
  <1>2. /\ \A c \in Chats : queue[c] \in Seq(Ids)
        /\ queue \in [Chats -> Seq(Ids)]
        /\ reply \in [Ids -> Where]
        /\ 1..Len(sent) \subseteq Ids
        /\ \A s \in 1..Len(sent) : Chat(s) \in Chats /\ Chat(s)' = Chat(s)
    <2>1. \A s \in 1..Len(sent) : sent[s] \in Update
      BY <1>0 DEF TypeOK
    <2>2. \A s \in 1..Len(sent) : Chat(s) \in Chats /\ Chat(s)' = Chat(s)
      BY <1>1, <2>1 DEF Chat, Update
    <2>3. Len(sent) \in Nat /\ Len(sent) <= MaxUpdates
      BY <1>0 DEF TypeOK
    <2> QED BY <1>0, <2>2, <2>3 DEF TypeOK, Ids
  <1>3. \/ UNCHANGED queue
        \/ queue' = [queue EXCEPT ![Chat(r)] = Append(queue[Chat(r)], r)]
        \/ queue' = [queue EXCEPT ![Chat(r)] = Without(queue[Chat(r)], r)]
    BY DEF Reply, Begin, Noticed, Enter, Acquire, StartRun, Ask, Answered, Unanswered, RunEnds,
           RunFails, ReplyEnds, TurnIsCancelled, TaskIsCancelled, Leave
  <1>4. ASSUME NEW s \in 1..Len(sent), s # r, reply'[s] \in InReply
        PROVE  queue'[Chat(s)] # <<>> /\ Head(queue'[Chat(s)]) = s
    <2>1. reply'[s] = reply[s]
      BY <1>1, <1>2, <1>4, ReplyMoves
    <2>2. queue[Chat(s)] # <<>> /\ Head(queue[Chat(s)]) = s
      BY <1>4, <2>1 DEF LockIsFirst
    <2>3. CASE Chat(s) # Chat(r) \/ UNCHANGED queue
      BY <1>1, <1>2, <1>3, <2>2, <2>3
    <2>4. CASE Chat(s) = Chat(r) /\ queue' = [queue EXCEPT ![Chat(r)] = Append(queue[Chat(r)], r)]
      <3>1. queue'[Chat(s)] = Append(queue[Chat(s)], r)
        BY <1>1, <1>2, <2>4
      <3>2. queue[Chat(s)] \in Seq(Ids)
        BY <1>2
      <3> HIDE DEF Chat
      <3> QED BY <1>1, <2>2, <3>1, <3>2
    <2>5. CASE Chat(s) = Chat(r) /\ queue' = [queue EXCEPT ![Chat(r)] = Without(queue[Chat(r)], r)]
      <3>1. queue'[Chat(s)] = Without(queue[Chat(s)], r)
        BY <1>1, <1>2, <2>5
      <3>2. queue[Chat(s)] \in Seq(Ids)
        BY <1>2
      <3> QED BY <1>4, <2>2, <3>1, <3>2, WithoutProperties
    <2> QED BY <1>3, <2>3, <2>4, <2>5
  <1>5. ASSUME reply'[r] \in InReply
        PROVE  queue'[Chat(r)] # <<>> /\ Head(queue'[Chat(r)]) = r
    <2>1. CASE Acquire(r)
      BY <2>1 DEF Acquire, HasTurn
    <2>2. CASE queue[Chat(r)] = <<>> /\ Enter(r)
      <3>1. queue'[Chat(r)] = <<r>>
        BY <1>1, <1>2, <2>2 DEF Enter
      <3> QED BY <3>1
    <2>3. CASE ~Acquire(r) /\ ~(queue[Chat(r)] = <<>> /\ Enter(r))
      <3>1. reply[r] \in InReply /\ UNCHANGED queue
        BY <1>1, <1>2, <1>5, <2>3
           DEF Reply, Begin, Noticed, Enter, StartRun, Ask, Answered, Unanswered, RunEnds, RunFails,
               ReplyEnds, TurnIsCancelled, TaskIsCancelled, Leave, Goes, Runs, CleansUp, InReply
      <3> QED BY <1>1, <3>1 DEF LockIsFirst
    <2> QED BY <2>1, <2>2, <2>3
  <1> QED BY <1>1, <1>2, <1>4, <1>5 DEF LockIsFirst

LEMMA StepKeepsLock == IInv /\ LockIsFirst /\ [Next]_vars => LockIsFirst'
  <1> SUFFICES ASSUME IInv, LockIsFirst, [Next]_vars PROVE LockIsFirst'
    OBVIOUS
  <1>0. TypeOK /\ Bounded
    BY DEF IInv
  <1>1. CASE \E r \in 1..Len(sent) : Reply(r)
    BY <1>1, ReplyKeepsLock
  <1>2. CASE UNCHANGED <<reply, queue, sent>>
    BY <1>2 DEF LockIsFirst, Chat
  <1>3. CASE HandleMessage
    <2>1. UNCHANGED <<queue, sent>> /\ Take({"message"}) /\ reply' = [reply EXCEPT ![Head(batch)] = "new"]
      BY <1>3 DEF HandleMessage
    <2>2. \A s \in 1..Len(sent) : reply'[s] \in InReply => reply[s] \in InReply
      BY <1>0, <2>1 DEF TypeOK, Ids, InReply
    <2> QED BY <2>1, <2>2 DEF LockIsFirst, Chat
  <1>4. ASSUME NEW u \in Update, UserSends(u) PROVE LockIsFirst'
    <2>1. /\ Len(sent') = Len(sent) + 1
          /\ \A i \in 1..Len(sent) : sent'[i] = sent[i]
          /\ Len(sent) \in Nat
          /\ UNCHANGED <<reply, queue>>
      BY <1>0, <1>4, AppendProperties DEF TypeOK, UserSends, replyVars
    <2>2. Len(sent) + 1 <= MaxUpdates
      BY <1>0, <1>4, <2>1 DEF TypeOK, UserSends
    <2>3. reply[Len(sent) + 1] = "none"
      BY <1>0, <2>1, <2>2 DEF TypeOK, Bounded, Ids
    <2>4. \A s \in 1..Len(sent') : reply'[s] \in InReply => s \in 1..Len(sent)
      BY <2>1, <2>3 DEF InReply
    <2> QED BY <2>1, <2>4 DEF LockIsFirst, Chat
  <1>5. \/ \E r \in 1..Len(sent) : Reply(r)
        \/ UNCHANGED <<reply, queue, sent>>
        \/ HandleMessage
        \/ \E u \in Update : UserSends(u)
    BY DEF Next, vars, replyVars, updateVars, Update, Poll, Fetch, BatchDone, HandleCommand,
           HandlePress, HandleCancel, CancelDone, SendEnds, SendFails, CancelAgain, Closed, Stop
  <1> QED BY <1>1, <1>2, <1>3, <1>4, <1>5

(* The replies of one chat exclude each other. *)
THEOREM RepliesTakeTurns == Spec => []OneReplyPerChat
  <1>1. Init => LockIsFirst
    BY DEF Init, LockIsFirst, InReply, Ids
  <1>2. LockIsFirst => OneReplyPerChat
    BY DEF LockIsFirst, OneReplyPerChat, Chat
  <1> QED BY <1>1, <1>2, InitIInv, StepKeepsIInv, StepKeepsLock, PTL DEF Spec

-----------------------------------------------------------------------------
(* Approvals. *)

AInv == IInv /\ PromptsAreCurrent /\ AnswersAreFirst

(* The reply of a prompt comes from an update that was handled. *)
LEMMA PromptIsHandled ==
    ASSUME IInv, NEW n \in DOMAIN prompts
    PROVE  /\ prompts[n].reply \in Ids
           /\ prompts[n].reply < offset
           /\ prompts[n].reply \in DOMAIN sent
           /\ \A i \in 1..(offset - 1) : i \in DOMAIN sent
  <1>1. TypeOK /\ Bounded
    BY DEF IInv
  <1>2. prompts[n].reply \in Ids /\ prompts[n].reply < offset
    BY <1>1, PromptHasReply DEF Bounded
  <1>3. offset \in Nat /\ offset <= Len(sent) + 1 /\ Len(sent) \in Nat
    BY <1>1 DEF TypeOK, Bounded
  <1> QED BY <1>1, <1>2, <1>3 DEF TypeOK, Ids

(* What was pressed before stays so while the offset stands and a prompt keeps *)
(* its reply.                                                                  *)
LEMMA PressesStay ==
    ASSUME IInv, NEW n \in DOMAIN prompts, UNCHANGED offset,
           \A i \in DOMAIN sent : sent'[i] = sent[i],
           prompts'[n].reply = prompts[n].reply
    PROVE  \A k : Presses(n, k)' = Presses(n, k)
  BY PromptIsHandled DEF Presses

(* Handling an update other than the Approve or Deny of prompt n in its chat   *)
(* changes no press of it; the others are added at the offset.                 *)
LEMMA PressesGrow ==
    ASSUME IInv, NEW n \in DOMAIN prompts, UNCHANGED sent, offset' = offset + 1,
           prompts'[n].reply = prompts[n].reply
    PROVE  \A k : Presses(n, k)' = Presses(n, k) \cup
               (IF /\ sent[offset].kind = k /\ sent[offset].prompt = n
                   /\ sent[offset].chat = sent[prompts[n].reply].chat
                THEN {offset} ELSE {})
  <1>1. offset \in Nat /\ offset >= 1
    BY DEF IInv, TypeOK
  <1>2. 1..(offset' - 1) = 1..(offset - 1) \cup {offset}
    BY <1>1
  <1> QED BY <1>2 DEF Presses

LEMMA ApprovalStays ==
    ASSUME IInv, NEW n \in DOMAIN prompts, ApprovedFirst(n),
           \A k : \/ Presses(n, k)' = Presses(n, k)
                  \/ Presses(n, k)' = Presses(n, k) \cup {offset}
    PROVE  ApprovedFirst(n)'
  <1>1. PICK i \in Presses(n, "yes") : \A j \in Presses(n, "no") : i < j
    BY DEF ApprovedFirst
  <1>2. i \in Presses(n, "yes")' /\ i < offset
    <2>1. i \in 1..(offset - 1)
      BY DEF Presses
    <2>2. offset \in Nat
      BY DEF IInv, TypeOK
    <2> QED BY <2>1, <2>2
  <1>3. \A j \in Presses(n, "no")' : j \in Presses(n, "no") \/ j = offset
    OBVIOUS
  <1>4. \A j \in Presses(n, "no")' : i < j
    BY <1>1, <1>2, <1>3
  <1> QED BY <1>2, <1>4 DEF ApprovedFirst

LEMMA ReplyKeepsApprovals ==
    ASSUME AInv, NEW r \in 1..Len(sent), Reply(r)
    PROVE  PromptsAreCurrent' /\ AnswersAreFirst'
  <1>0. IInv /\ TypeOK /\ PromptsAreCurrent /\ AnswersAreFirst
    BY DEF AInv, IInv
  <1>1. UNCHANGED <<offset, sent>> /\ r \in Ids
    BY <1>0, ReplyMoves DEF updateVars
  <1>2. \A s \in Ids : s # r => reply'[s] = reply[s]
    BY <1>0, <1>1, ReplyMoves DEF TypeOK
  <1>3. CASE UNCHANGED prompts /\ reply[r] # "asking"
    <2>1. PromptsAreCurrent'
      BY <1>0, <1>2, <1>3, PromptHasReply DEF PromptsAreCurrent
    <2>2. \A n \in DOMAIN prompts : \A k : Presses(n, k)' = Presses(n, k)
      BY <1>0, <1>1, <1>3, PressesStay
    <2>3. AnswersAreFirst'
      BY <1>0, <1>3, <2>2 DEF AnswersAreFirst, ApprovedFirst, Unpressed
    <2> QED BY <2>1, <2>3
  <1>4. CASE /\ reply[r] = "running" /\ Goes(r, "asking")
             /\ prompts' = Append(prompts, [reply |-> r, answer |-> "open", result |-> "waiting"])
    <2> DEFINE p == [reply |-> r, answer |-> "open", result |-> "waiting"]
    <2>0. PICK last : last = Len(prompts) + 1
      OBVIOUS
    <2>1. p \in Prompt /\ p.reply = r /\ p.answer = "open" /\ p.result = "waiting"
      BY <1>1 DEF Prompt
    <2>2. prompts' = Append(prompts, p)
      BY <1>4
    <2> HIDE DEF p
    <2>3. /\ Len(prompts) \in Nat /\ prompts \in Seq(Prompt)
          /\ DOMAIN prompts = 1..Len(prompts)
          /\ DOMAIN prompts' = DOMAIN prompts \cup {last}
          /\ last \notin DOMAIN prompts
          /\ \A n \in DOMAIN prompts : prompts'[n] = prompts[n]
          /\ prompts'[last] = p
      BY <1>0, <2>0, <2>1, <2>2, AppendProperties DEF TypeOK
    <2>4. reply'[r] = "asking"
      BY <1>0, <1>1, <1>4 DEF Goes, TypeOK
    <2>5. \A n \in DOMAIN prompts : prompts[n].result = "waiting" => prompts[n].reply # r
      BY <1>0, <1>4 DEF PromptsAreCurrent
    <2>6. PromptsAreCurrent'
      BY <1>0, <1>2, <2>1, <2>3, <2>4, <2>5, PromptHasReply DEF PromptsAreCurrent
    <2>7. \A n \in DOMAIN prompts : \A k : Presses(n, k)' = Presses(n, k)
      BY <1>0, <1>1, <2>3, PressesStay
    <2>8. Presses(last, "yes")' = {} /\ Presses(last, "no")' = {}
      <3>1. \A i \in DOMAIN sent : sent[i].kind \in {"yes", "no"} => sent[i].prompt # last
        BY <1>0, <2>3 DEF IInv, Bounded
      <3>2. \A i \in 1..(offset - 1) : i \in DOMAIN sent
        <4>1. offset \in Nat /\ offset <= Len(sent) + 1 /\ Len(sent) \in Nat /\ sent \in Seq(Update)
          BY <1>0 DEF IInv, TypeOK, Bounded
        <4> QED BY <4>1
      <3> QED BY <1>1, <3>1, <3>2 DEF Presses
    <2>9. AnswersAreFirst'
      BY <1>0, <2>1, <2>3, <2>7, <2>8 DEF AnswersAreFirst, ApprovedFirst, Unpressed
    <2> QED BY <2>6, <2>9
  <1>5. ASSUME NEW n \in DOMAIN prompts, NEW v \in {"granted", "refused"},
               reply[r] = "asking", AskedBy(r, n),
               v = "granted" => prompts[n].answer = "yes",
               prompts' = [prompts EXCEPT ![n] = [@ EXCEPT !.result = v]]
        PROVE  PromptsAreCurrent' /\ AnswersAreFirst'
    <2> DEFINE q == [prompts[n] EXCEPT !.result = v]
    <2>1. /\ q \in Prompt /\ q.reply = prompts[n].reply /\ q.answer = prompts[n].answer
          /\ q.result = v /\ prompts' = [prompts EXCEPT ![n] = q]
      BY <1>0, <1>5, PromptHasReply DEF Prompt
    <2> HIDE DEF q
    <2>2. /\ DOMAIN prompts' = DOMAIN prompts
          /\ prompts'[n] = q
          /\ \A m \in DOMAIN prompts : m # n => prompts'[m] = prompts[m]
      BY <1>0, <2>1, PromptChanges
    <2>3. \A m \in DOMAIN prompts :
              prompts'[m].reply = prompts[m].reply /\ prompts'[m].answer = prompts[m].answer
      BY <2>1, <2>2
    <2>4. \A m \in DOMAIN prompts :
              prompts'[m].result = "waiting" => m # n /\ prompts[m].result = "waiting"
      BY <2>1, <2>2
    <2>5. \A m \in DOMAIN prompts : prompts'[m].result = "waiting" => prompts[m].reply # r
      BY <1>0, <1>5, <2>4 DEF PromptsAreCurrent, AskedBy
    <2>6. PromptsAreCurrent'
      BY <1>0, <1>2, <2>2, <2>3, <2>4, <2>5, PromptHasReply DEF PromptsAreCurrent
    <2>7. \A m \in DOMAIN prompts : \A k : Presses(m, k)' = Presses(m, k)
      BY <1>0, <1>1, <2>3, PressesStay
    <2>8. \A m \in DOMAIN prompts : prompts'[m].result = "granted" => prompts'[m].answer = "yes"
      BY <1>0, <1>5, <2>1, <2>2 DEF AnswersAreFirst
    <2>9. AnswersAreFirst'
      BY <1>0, <2>2, <2>3, <2>4, <2>7, <2>8 DEF AnswersAreFirst, ApprovedFirst, Unpressed
    <2> QED BY <2>6, <2>9
  <1> QED BY <1>0, <1>1, <1>3, <1>4, <1>5, PromptsMove

LEMMA PressKeepsApprovals ==
    ASSUME AInv, HandlePress
    PROVE  PromptsAreCurrent' /\ AnswersAreFirst'
  <1>0. IInv /\ TypeOK /\ PromptsAreCurrent /\ AnswersAreFirst
    BY DEF AInv, IInv
  <1>a. PICK u : u = sent[offset]
    OBVIOUS
  <1>b. PICK n : n = u.prompt
    OBVIOUS
  <1> DEFINE own == u.chat = sent[prompts[n].reply].chat
  <1>1. /\ UNCHANGED <<sent, reply>> /\ Take({"yes", "no"})
    BY DEF HandlePress, replyVars
  <1>2. /\ offset' = offset + 1 /\ Head(batch) = offset /\ u.kind \in {"yes", "no"}
        /\ offset \in 1..Len(sent)
    BY <1>0, <1>1, <1>a, TakeTakesNext
  <1>3. n \in DOMAIN prompts
    BY <1>0, <1>2, <1>a, <1>b DEF IInv, Bounded, TypeOK
  <1>4. prompts' = IF Pending(n) /\ own THEN [prompts EXCEPT ![n].answer = u.kind] ELSE prompts
    BY <1>2, <1>a, <1>b DEF HandlePress
  <1> DEFINE q == [prompts[n] EXCEPT !.answer = u.kind]
  <1>5. /\ q \in Prompt /\ q.reply = prompts[n].reply /\ q.result = prompts[n].result
        /\ q.answer = u.kind
        /\ prompts' = IF Pending(n) /\ own THEN [prompts EXCEPT ![n] = q] ELSE prompts
    <2>1. prompts[n] \in Prompt
      BY <1>0, <1>3, PromptHasReply
    <2> HIDE DEF own
    <2> QED BY <1>2, <1>3, <1>4, <2>1 DEF Prompt
  <1> HIDE DEF q
  <1>6. CASE Pending(n) /\ own
    <2>1. /\ DOMAIN prompts' = DOMAIN prompts
          /\ prompts'[n] = q
          /\ \A m \in DOMAIN prompts : m # n => prompts'[m] = prompts[m]
      BY <1>0, <1>3, <1>5, <1>6, PromptChanges
    <2>2. \A m \in DOMAIN prompts :
              prompts'[m].reply = prompts[m].reply /\ prompts'[m].result = prompts[m].result
      BY <1>5, <2>1
    <2>3. PromptsAreCurrent'
      BY <1>0, <1>1, <2>1, <2>2 DEF PromptsAreCurrent
    <2>4. \A m \in DOMAIN prompts : m # n =>
              Presses(m, "yes")' = Presses(m, "yes") /\ Presses(m, "no")' = Presses(m, "no")
      BY <1>0, <1>1, <1>2, <1>a, <1>b, <2>2, PressesGrow
    <2>5. \A k : Presses(n, k)' = Presses(n, k) \cup (IF u.kind = k THEN {offset} ELSE {})
      BY <1>0, <1>1, <1>2, <1>3, <1>6, <1>a, <1>b, <2>2, PressesGrow
    <2>6. Unpressed(n)
      BY <1>0, <1>3, <1>6 DEF Pending, AnswersAreFirst
    <2>7. u.kind = "yes" => ApprovedFirst(n)'
      BY <2>5, <2>6 DEF ApprovedFirst, Unpressed
    <2>8. prompts[n].result = "waiting"
      BY <1>6 DEF Pending
    <2>9. ASSUME NEW m \in DOMAIN prompts'
          PROVE  /\ prompts'[m].answer = "yes" => ApprovedFirst(m)'
                 /\ prompts'[m].result = "granted" => prompts'[m].answer = "yes"
                 /\ prompts'[m].result = "waiting" /\ prompts'[m].answer = "open" => Unpressed(m)'
      <3>1. CASE m = n
        BY <1>2, <1>3, <1>5, <2>1, <2>7, <2>8, <3>1
      <3>2. CASE m # n
        <4>1. ApprovedFirst(m) => ApprovedFirst(m)'
          BY <2>1, <2>4, <3>2 DEF ApprovedFirst
        <4>2. Unpressed(m) => Unpressed(m)'
          BY <2>1, <2>4, <3>2 DEF Unpressed
        <4> QED BY <1>0, <2>1, <3>2, <4>1, <4>2 DEF AnswersAreFirst
      <3> QED BY <3>1, <3>2
    <2>10. AnswersAreFirst'
      BY <2>9 DEF AnswersAreFirst
    <2> QED BY <2>3, <2>10
  <1>7. CASE ~(Pending(n) /\ own)
    <2>1. UNCHANGED prompts
      BY <1>5, <1>7
    <2>2. PromptsAreCurrent'
      BY <1>0, <1>1, <2>1 DEF PromptsAreCurrent
    <2>3. ASSUME NEW m \in DOMAIN prompts
          PROVE  /\ prompts[m].answer = "yes" => ApprovedFirst(m)'
                 /\ prompts[m].result = "waiting" /\ prompts[m].answer = "open" => Unpressed(m)'
      <3>1. \A k : Presses(m, k)' = Presses(m, k) \cup
               (IF u.kind = k /\ n = m /\ u.chat = sent[prompts[m].reply].chat
                THEN {offset} ELSE {})
        BY <1>0, <1>1, <1>2, <1>a, <1>b, <2>1, PressesGrow
      <3>2. \A k : Presses(m, k)' = Presses(m, k) \/ Presses(m, k)' = Presses(m, k) \cup {offset}
        BY <3>1
      <3>3. prompts[m].answer = "yes" => ApprovedFirst(m)'
        BY <1>0, <3>2, ApprovalStays DEF AnswersAreFirst
      <3>4. ASSUME prompts[m].result = "waiting", prompts[m].answer = "open"
            PROVE  Unpressed(m)'
        <4>1. Pending(m) /\ Unpressed(m)
          BY <1>0, <3>4 DEF Pending, PromptsAreCurrent, AnswersAreFirst
        <4>2. ~(n = m /\ u.chat = sent[prompts[m].reply].chat)
          BY <1>7, <4>1
        <4> QED BY <3>1, <4>1, <4>2 DEF Unpressed
      <3> QED BY <3>3, <3>4
    <2>4. AnswersAreFirst'
      BY <1>0, <2>1, <2>3 DEF AnswersAreFirst
    <2> QED BY <2>2, <2>4
  <1> QED BY <1>6, <1>7

(* Any other update that is taken changes no press that counts. *)
LEMMA TakeKeepsApprovals ==
    ASSUME AInv, Take({"message", "command", "cancel"}), UNCHANGED <<sent, prompts>>,
           \A r \in Ids : r # offset => reply'[r] = reply[r]
    PROVE  PromptsAreCurrent' /\ AnswersAreFirst'
  <1>0. IInv /\ PromptsAreCurrent /\ AnswersAreFirst
    BY DEF AInv
  <1>1. offset' = offset + 1 /\ sent[offset].kind \in {"message", "command", "cancel"}
    BY <1>0, TakeTakesNext
  <1>2. offset \in Nat
    BY <1>0 DEF IInv, TypeOK
  <1>3. \A n \in DOMAIN prompts : reply'[prompts[n].reply] = reply[prompts[n].reply]
    <2> SUFFICES ASSUME NEW n \in DOMAIN prompts
                 PROVE  reply'[prompts[n].reply] = reply[prompts[n].reply]
      OBVIOUS
    <2>1. prompts[n].reply \in Ids /\ prompts[n].reply < offset
      BY <1>0, PromptIsHandled
    <2>2. prompts[n].reply # offset
      BY <1>2, <2>1 DEF Ids
    <2> QED BY <2>1, <2>2
  <1>4. PromptsAreCurrent'
    BY <1>0, <1>3 DEF PromptsAreCurrent
  <1>5. \A n \in DOMAIN prompts :
            Presses(n, "yes")' = Presses(n, "yes") /\ Presses(n, "no")' = Presses(n, "no")
    BY <1>0, <1>1, PressesGrow
  <1>6. AnswersAreFirst'
    BY <1>0, <1>5 DEF AnswersAreFirst, ApprovedFirst, Unpressed
  <1> QED BY <1>4, <1>6

(* Steps that touch neither the offset nor the prompts and their replies. *)
LEMMA OthersKeepApprovals ==
    ASSUME AInv, UNCHANGED <<offset, prompts, reply>>,
           \A i \in DOMAIN sent : sent'[i] = sent[i]
    PROVE  PromptsAreCurrent' /\ AnswersAreFirst'
  <1>0. IInv /\ PromptsAreCurrent /\ AnswersAreFirst
    BY DEF AInv
  <1>1. \A n \in DOMAIN prompts : \A k : Presses(n, k)' = Presses(n, k)
    BY <1>0, PressesStay
  <1>2. AnswersAreFirst'
    BY <1>0, <1>1 DEF AnswersAreFirst, ApprovedFirst, Unpressed
  <1> QED BY <1>0, <1>2 DEF PromptsAreCurrent

LEMMA StepKeepsApprovals == AInv /\ [Next]_vars => PromptsAreCurrent' /\ AnswersAreFirst'
  <1> SUFFICES ASSUME AInv, [Next]_vars PROVE PromptsAreCurrent' /\ AnswersAreFirst'
    OBVIOUS
  <1>0. IInv /\ TypeOK
    BY DEF AInv, IInv
  <1>1. CASE \E r \in 1..Len(sent) : Reply(r)
    BY <1>1, ReplyKeepsApprovals
  <1>2. CASE HandlePress
    BY <1>2, PressKeepsApprovals
  <1>3. CASE HandleMessage \/ HandleCommand \/ HandleCancel
    <2>1. /\ Take({"message", "command", "cancel"})
          /\ UNCHANGED <<sent, prompts>>
          /\ reply' = [reply EXCEPT ![Head(batch)] = "new"] \/ UNCHANGED reply
      BY <1>3 DEF HandleMessage, HandleCommand, HandleCancel, Take, replyVars
    <2>2. Head(batch) = offset
      BY <1>0, <2>1, TakeTakesNext
    <2>3. \A r \in Ids : r # offset => reply'[r] = reply[r]
      BY <1>0, <2>1, <2>2 DEF TypeOK
    <2> QED BY <2>1, <2>3, TakeKeepsApprovals
  <1>4. ASSUME NEW u \in Update, UserSends(u)
        PROVE  PromptsAreCurrent' /\ AnswersAreFirst'
    <2>1. UNCHANGED <<offset, prompts, reply>> /\ sent' = Append(sent, u)
      BY <1>4 DEF UserSends, updateVars, replyVars
    <2>2. \A i \in DOMAIN sent : sent'[i] = sent[i]
      BY <1>0, <2>1, AppendProperties DEF TypeOK
    <2> QED BY <2>1, <2>2, OthersKeepApprovals
  <1>5. CASE UNCHANGED <<offset, prompts, reply, sent>>
    BY <1>5, OthersKeepApprovals
  <1>6. \/ \E r \in 1..Len(sent) : Reply(r)
        \/ HandlePress
        \/ HandleMessage \/ HandleCommand \/ HandleCancel
        \/ \E u \in Update : UserSends(u)
        \/ UNCHANGED <<offset, prompts, reply, sent>>
    BY DEF Next, vars, replyVars, updateVars, Update, Poll, Fetch, BatchDone, CancelDone,
           SendEnds, SendFails, CancelAgain, Closed, Stop
  <1> QED BY <1>1, <1>2, <1>3, <1>4, <1>5, <1>6

(* Only the first press in the right chat, made while the prompt waits, counts. *)
THEOREM ApprovalsArePressed == Spec => []ApprovalIsPressed
  <1>1. Init => AInv
    BY InitIInv DEF Init, AInv, PromptsAreCurrent, AnswersAreFirst
  <1>2. AInv /\ [Next]_vars => AInv'
    BY StepKeepsIInv, StepKeepsApprovals DEF AInv
  <1>3. AInv => ApprovalIsPressed
    BY DEF AInv, AnswersAreFirst, ApprovalIsPressed
  <1> QED BY <1>1, <1>2, <1>3, PTL DEF Spec

-----------------------------------------------------------------------------
(* /cancel and the end of the bridge. *)

Over(r) == reply[r] \in {"none", "done"}

(* What a completed /cancel has ended stays so; what one under way, or the     *)
(* end of the bridge, has to end is waited for.                               *)
EndedStaysOver ==
    \A c \in Chats : /\ ended[c] < offset
                     /\ \A r \in 1..ended[c] : sent[r].chat = c => Over(r)

CancelWaits ==
    poll = "cancelling" =>
        \A r \in 1..(offset - 1) : sent[r].chat = sent[offset - 1].chat => Over(r) \/ r \in awaited

CloseWaits ==
    /\ poll = "closing" => \A r \in Ids : Over(r) \/ r \in awaited
    /\ poll = "closed" => \A r \in Ids : Over(r)

CInv == EndedStaysOver /\ CancelWaits /\ CloseWaits

LEMMA ReplyStaysOver ==
    ASSUME IInv, NEW r \in 1..Len(sent), Reply(r), NEW s \in Ids, Over(s)
    PROVE  Over(s)'
  <1>1. /\ r \in Ids /\ reply[r] # "none"
        /\ \E w \in Where \ {"none"} : reply' = [reply EXCEPT ![r] = w]
    BY ReplyMoves
  <1>2. reply \in [Ids -> Where]
    BY DEF IInv, TypeOK
  <1>3. CASE s # r
    BY <1>1, <1>2, <1>3 DEF Over
  <1>4. CASE s = r
    <2>1. reply[r] = "done"
      BY <1>1, <1>4 DEF Over
    <2>2. TaskIsCancelled(r)
      BY <2>1 DEF Reply, Begin, Noticed, Acquire, StartRun, Ask, Answered, Unanswered, RunEnds,
                  RunFails, ReplyEnds, TurnIsCancelled, Runs
    <2>3. UNCHANGED reply
      BY <2>1, <2>2 DEF TaskIsCancelled
    <2> QED BY <1>4, <2>3 DEF Over
  <1> QED BY <1>3, <1>4

LEMMA ReplyKeepsCancel ==
    ASSUME IInv, CInv, NEW r \in 1..Len(sent), Reply(r)
    PROVE  CInv'
  <1>1. UNCHANGED <<poll, offset, sent, awaited, ended>>
    BY ReplyMoves DEF updateVars
  <1>2. \A s \in Ids : Over(s) => Over(s)'
    BY ReplyStaysOver
  <1>3. /\ offset \in 1..(MaxUpdates + 1) /\ ended \in [Chats -> 0..MaxUpdates]
    BY DEF IInv, TypeOK
  <1>4. EndedStaysOver'
    <2>1. \A c \in Chats : \A s \in 1..ended[c] : s \in Ids
      BY <1>3 DEF Ids
    <2> QED BY <1>1, <1>2, <2>1 DEF CInv, EndedStaysOver
  <1>5. CancelWaits'
    <2>1. \A s \in 1..(offset - 1) : s \in Ids
      BY <1>3 DEF Ids
    <2> QED BY <1>1, <1>2, <2>1 DEF CInv, CancelWaits
  <1>6. CloseWaits'
    BY <1>1, <1>2 DEF CInv, CloseWaits
  <1> QED BY <1>4, <1>5, <1>6 DEF CInv

LEMMA SendsKeepCancel ==
    ASSUME IInv, CInv, NEW u \in Update, UserSends(u)
    PROVE  CInv'
  <1>1. /\ sent \in Seq(Update) /\ Len(sent) \in Nat
        /\ offset \in Nat /\ offset >= 1 /\ batch \in Seq(Ids) /\ Len(batch) \in Nat
        /\ ended \in [Chats -> 0..MaxUpdates]
    BY DEF IInv, TypeOK
  <1>2. \A i \in 1..Len(sent) : sent'[i] = sent[i]
    BY <1>1, AppendProperties DEF UserSends
  <1>3. \A i \in 1..(offset - 1) : i \in 1..Len(sent)
    BY <1>1 DEF IInv, Bounded
  <1>4. UNCHANGED <<poll, offset, awaited, reply, ended>>
    BY DEF UserSends, updateVars, replyVars
  <1>5. EndedStaysOver'
    <2>1. \A c \in Chats : \A r \in 1..ended[c] : r \in 1..(offset - 1)
      BY <1>1 DEF CInv, EndedStaysOver
    <2> QED BY <1>2, <1>3, <1>4, <2>1 DEF CInv, EndedStaysOver, Over
  <1>6. CancelWaits'
    <2> SUFFICES ASSUME poll = "cancelling", NEW r \in 1..(offset - 1),
                        sent'[r].chat = sent'[offset - 1].chat
                 PROVE  Over(r) \/ r \in awaited
      BY <1>4 DEF CancelWaits, Over
    <2>1. offset - 1 \in 1..(offset - 1)
      BY <1>1
    <2> QED BY <1>2, <1>3, <2>1 DEF CInv, CancelWaits
  <1>7. CloseWaits'
    BY <1>4 DEF CInv, CloseWaits, Over
  <1> QED BY <1>5, <1>6, <1>7 DEF CInv

LEMMA PollKeepsCancel ==
    ASSUME IInv, CInv, Poll
    PROVE  CInv'
  <1>0. /\ sent \in Seq(Update) /\ Len(sent) \in Nat /\ Len(sent) <= MaxUpdates
        /\ offset \in 1..(MaxUpdates + 1) /\ ended \in [Chats -> 0..MaxUpdates]
        /\ reply \in [Ids -> Where]
    BY DEF IInv, TypeOK
  <1>1. UNCHANGED sent
    BY DEF Poll, Fetch, BatchDone, HandleMessage, HandleCommand, HandlePress, HandleCancel,
           CancelDone, SendEnds, SendFails, CancelAgain, Closed
  <1>2. CASE HandleMessage
    <2>1. /\ Head(batch) = offset /\ offset' = offset + 1 /\ offset \in Ids
          /\ poll = "handling"
      BY <1>2, TakeTakesNext DEF HandleMessage
    <2>2. /\ reply' = [reply EXCEPT ![offset] = "new"]
          /\ UNCHANGED <<poll, ended>>
      BY <1>2, <2>1 DEF HandleMessage
    <2>3. \A c \in Chats : \A r \in 1..ended[c] : r \in Ids /\ r # offset
      BY <1>0 DEF CInv, EndedStaysOver, Ids
    <2>4. EndedStaysOver'
      <3>1. \A c \in Chats : ended'[c] < offset'
        BY <1>0, <2>1, <2>2 DEF CInv, EndedStaysOver
      <3> QED BY <1>0, <1>1, <2>2, <2>3, <3>1 DEF CInv, EndedStaysOver, Over
    <2> QED BY <2>1, <2>2, <2>4 DEF CInv, CancelWaits, CloseWaits
  <1>3. CASE HandleCancel
    <2>1. /\ Head(batch) = offset /\ offset' = offset + 1 /\ offset \in 1..Len(sent)
      BY <1>3, TakeTakesNext DEF HandleCancel
    <2>2. /\ awaited' = LiveOf(sent[offset].chat) /\ poll' = "cancelling"
          /\ UNCHANGED <<reply, ended>>
      BY <1>3, <2>1 DEF HandleCancel
    <2>3. EndedStaysOver'
      BY <1>0, <1>1, <2>1, <2>2 DEF CInv, EndedStaysOver, Over
    <2>4. CancelWaits'
      <3>1. offset' - 1 = offset /\ \A r \in 1..offset : r \in 1..Len(sent)
        BY <1>0, <2>1
      <3> QED BY <1>1, <2>2, <3>1 DEF CancelWaits, LiveOf, Over
    <2> QED BY <2>2, <2>3, <2>4 DEF CInv, CloseWaits
  <1>4. CASE CancelDone
    <2>1. /\ poll = "cancelling" /\ poll' = "sending"
          /\ \A r \in awaited : reply[r] = "done"
          /\ UNCHANGED <<offset, reply>>
      BY <1>4 DEF CancelDone, updateVars, replyVars
    <2>2. offset > 1
      BY <2>1 DEF IInv, Bounded
    <2>3. handled[Len(handled)] = offset - 1
      <3>1. handled = [i \in 1..(offset - 1) |-> i] /\ handled \in Seq(Ids)
        BY DEF IInv, HandledInOrder, TypeOK
      <3>2. Len(handled) = offset - 1
        BY <1>0, <2>2, <3>1
      <3> QED BY <1>0, <2>2, <3>1, <3>2
    <2>4. ended' = [ended EXCEPT ![sent[offset - 1].chat] = offset - 1]
      BY <1>4, <2>3 DEF CancelDone
    <2>5. \A r \in 1..(offset - 1) : sent[r].chat = sent[offset - 1].chat => Over(r)
      BY <2>1 DEF CInv, CancelWaits, Over
    <2>6. EndedStaysOver'
      <3> SUFFICES ASSUME NEW c \in Chats
                   PROVE  /\ ended'[c] < offset
                          /\ \A r \in 1..ended'[c] : sent[r].chat = c => Over(r)
        BY <1>1, <2>1 DEF EndedStaysOver, Over
      <3>1. CASE c = sent[offset - 1].chat
        <4>1. ended'[c] = offset - 1
          BY <1>0, <2>4, <3>1
        <4> QED BY <1>0, <2>5, <3>1, <4>1
      <3>2. CASE c # sent[offset - 1].chat
        <4>1. ended'[c] = ended[c]
          BY <1>0, <2>4, <3>2
        <4> QED BY <4>1 DEF CInv, EndedStaysOver
      <3> QED BY <3>1, <3>2
    <2> QED BY <2>1, <2>6 DEF CInv, CancelWaits, CloseWaits
  <1>5. CASE CancelAgain
    <2>1. /\ awaited' = Live /\ poll' = "closing" /\ UNCHANGED <<reply, ended, offset>>
      BY <1>5 DEF CancelAgain, updateVars
    <2>2. EndedStaysOver'
      BY <1>1, <2>1 DEF CInv, EndedStaysOver, Over
    <2>3. CloseWaits'
      BY <2>1 DEF CloseWaits, Live, Over
    <2> QED BY <2>1, <2>2, <2>3 DEF CInv, CancelWaits
  <1>6. CASE Closed
    <2>1. /\ poll = "closing" /\ poll' = "closed" /\ UNCHANGED <<reply, ended, offset>>
          /\ \A r \in awaited : reply[r] = "done"
      BY <1>6 DEF Closed, updateVars, replyVars
    <2>2. EndedStaysOver'
      BY <1>1, <2>1 DEF CInv, EndedStaysOver, Over
    <2>3. CloseWaits'
      BY <2>1 DEF CInv, CloseWaits, Over
    <2> QED BY <2>1, <2>2, <2>3 DEF CInv, CancelWaits
  <1>7. CASE Fetch \/ BatchDone \/ HandleCommand \/ HandlePress \/ SendEnds \/ SendFails
    <2>1. /\ UNCHANGED <<reply, ended>>
          /\ poll' \notin {"cancelling", "closing", "closed"}
      BY <1>7 DEF Fetch, BatchDone, HandleCommand, HandlePress, SendEnds, SendFails, replyVars
    <2>2. offset' \in Nat /\ offset' >= offset
      <3>1. CASE UNCHANGED offset
        BY <1>0, <3>1
      <3>2. CASE \E kinds : Take(kinds)
        BY <1>0, <3>2, TakeTakesNext
      <3> QED BY <1>7, <3>1, <3>2
          DEF Fetch, BatchDone, HandleCommand, HandlePress, SendEnds, SendFails, updateVars
    <2>3. EndedStaysOver'
      BY <1>0, <1>1, <2>1, <2>2 DEF CInv, EndedStaysOver, Over
    <2> QED BY <2>1, <2>3 DEF CInv, CancelWaits, CloseWaits
  <1> QED BY <1>2, <1>3, <1>4, <1>5, <1>6, <1>7 DEF Poll

LEMMA StepKeepsCancel == IInv /\ CInv /\ [Next]_vars => CInv'
  <1> SUFFICES ASSUME IInv, CInv, [Next]_vars PROVE CInv'
    OBVIOUS
  <1>1. ASSUME NEW u \in [chat : Chats, kind : {"message", "command", "cancel", "yes", "no"},
                          prompt : 0..MaxPrompts], UserSends(u)
        PROVE  CInv'
    <2>1. u \in Update
      BY DEF Update
    <2> QED BY <1>1, <2>1, SendsKeepCancel
  <1>2. CASE Stop
    BY <1>2 DEF Stop, updateVars, CInv, EndedStaysOver, CancelWaits, CloseWaits, Over
  <1>3. CASE UNCHANGED vars
    BY <1>3 DEF vars, updateVars, replyVars, CInv, EndedStaysOver, CancelWaits, CloseWaits, Over
  <1> QED BY <1>1, <1>2, <1>3, ReplyKeepsCancel, PollKeepsCancel DEF Next

(* A /cancel that has reported, and a bridge that has closed, leave no reply   *)
(* of before at work or waiting for the lock, wherever it was caught           *)
(* (telegram.py, the cancel command and the end of run).                       *)
THEOREM CancelEndsAll == Spec => []CancelIsComplete
  <1>1. Init => CInv
    BY DEF Init, CInv, EndedStaysOver, CancelWaits, CloseWaits, Over
  <1>2. CInv => CancelIsComplete
    BY DEF CInv, EndedStaysOver, CloseWaits, Over, CancelIsComplete
  <1> QED BY <1>1, <1>2, InitIInv, StepKeepsIInv, StepKeepsCancel, PTL DEF Spec
=============================================================================
