-------------------------- MODULE McpSessionProofs --------------------------
(* Proofs about McpSession, for any number of chats, calls and pages. *)
EXTENDS McpSession, SequenceTheorems, TLAPS

USE ConstantsAssumption DEF ConstantsAssumption

-----------------------------------------------------------------------------
(* The inductive invariant. *)

(* The startup task is in request() only while the server starts, and there is *)
(* room for one more page then.                                                *)
BootIsBounded ==
    /\ task[registry] # "idle" => phase \in {"handshake", "listing"}
    /\ phase \in {"handshake", "notifying", "listing"} => pages < MaxPages

(* A line either answers the request whose id it carries or is the server's own. *)
LinesAreTruthful ==
    \A i \in DOMAIN stdout :
        \/ stdout[i].id = stdout[i].answers
        \/ stdout[i].id \in ServerIds \cup {0}

(* A request that was sent has a real id. *)
SentHasId == \A t \in Tasks : task[t] \in {"sending", "reading"} => mine[t] # 0

IInv == TypeOK /\ LockIsOwned /\ BootIsBounded /\ LinesAreTruthful /\ SentHasId

-----------------------------------------------------------------------------
(* The lock. *)

(* Removing one place of a sequence keeps the order of the others. *)
LEMMA RemoveAtProperties ==
    ASSUME NEW S, NEW s \in Seq(S), NEW k \in 1..Len(s)
    PROVE  /\ RemoveAt(s, k) \in Seq(S)
           /\ Len(RemoveAt(s, k)) = Len(s) - 1
           /\ \A i \in 1..(Len(s) - 1) :
                  RemoveAt(s, k)[i] = IF i < k THEN s[i] ELSE s[i + 1]
  <1> DEFINE front == SubSeq(s, 1, k - 1)
             back  == SubSeq(s, k + 1, Len(s))
  <1>1. /\ front \in Seq(S)
        /\ Len(front) = k - 1
        /\ \A i \in 1..(k - 1) : front[i] = s[i]
    OBVIOUS
  <1>2. /\ back \in Seq(S)
        /\ Len(back) = Len(s) - k
        /\ \A i \in 1..(Len(s) - k) : back[i] = s[k + i]
    OBVIOUS
  <1>0. Len(s) \in Nat /\ k \in Nat /\ k <= Len(s) /\ k >= 1
    OBVIOUS
  <1>3. RemoveAt(s, k) = front \o back
    BY DEF RemoveAt
  <1> HIDE DEF front, back
  <1>4. /\ front \o back \in Seq(S)
        /\ Len(front \o back) = Len(front) + Len(back)
        /\ \A i \in 1..(Len(front) + Len(back)) :
               (front \o back)[i] = IF i <= Len(front) THEN front[i] ELSE back[i - Len(front)]
    BY <1>1, <1>2, ConcatProperties
  <1>5. Len(front) + Len(back) = Len(s) - 1
    BY <1>0, <1>1, <1>2
  <1>6. ASSUME NEW i \in 1..(Len(s) - 1)
        PROVE  (front \o back)[i] = IF i < k THEN s[i] ELSE s[i + 1]
    <2>1. CASE i < k
      <3>1. i \in 1..(k - 1) /\ i <= Len(front)
        BY <1>0, <1>1, <2>1
      <3>2. (front \o back)[i] = front[i]
        BY <1>4, <1>5, <3>1
      <3> QED BY <1>1, <2>1, <3>1, <3>2
    <2>2. CASE ~(i < k)
      <3>1. ~(i <= Len(front)) /\ i - Len(front) \in 1..(Len(s) - k)
        BY <1>0, <1>1, <2>2
      <3>2. (front \o back)[i] = back[i - Len(front)]
        BY <1>4, <1>5, <3>1
      <3>3. k + (i - Len(front)) = i + 1
        BY <1>0, <1>1
      <3> QED BY <1>2, <2>2, <3>1, <3>2, <3>3
    <2> QED BY <2>1, <2>2
  <1>7. Len(front \o back) = Len(s) - 1
    BY <1>4, <1>5
  <1> QED BY <1>3, <1>4, <1>6, <1>7

(* A task that joins the queue was outside request(). *)
LEMMA QueueKeepsLock ==
    ASSUME TypeOK, LockIsOwned, NEW t \in Tasks, task[t] = "idle", Queue(t)
    PROVE  /\ LockIsOwned'
           /\ waiters' \in Seq(Tasks)
           /\ task' \in [Tasks -> {"idle", "waiting", "sending", "reading"}]
  <1>1. /\ waiters' = Append(waiters, t)
        /\ waiters \in Seq(Tasks)
        /\ task' = [task EXCEPT ![t] = "waiting"]
        /\ task \in [Tasks -> {"idle", "waiting", "sending", "reading"}]
    BY DEF Queue, TypeOK
  <1>2. /\ waiters' \in Seq(Tasks)
        /\ Len(waiters') = Len(waiters) + 1
        /\ DOMAIN waiters' = 1..(Len(waiters) + 1)
        /\ \A i \in DOMAIN waiters : waiters'[i] = waiters[i] /\ waiters[i] \in Tasks
        /\ waiters'[Len(waiters) + 1] = t
        /\ Len(waiters) \in Nat
        /\ DOMAIN waiters = 1..Len(waiters)
    BY <1>1
  <1>3. \A i \in DOMAIN waiters : waiters[i] # t
    BY DEF LockIsOwned
  <1>4. ASSUME NEW i \in DOMAIN waiters'
        PROVE  task'[waiters'[i]] # "idle" /\ (i > 1 => task'[waiters'[i]] = "waiting")
    <2>1. CASE i \in DOMAIN waiters
      BY <1>1, <1>2, <1>3, <2>1 DEF LockIsOwned
    <2>2. CASE i = Len(waiters) + 1
      BY <1>1, <1>2, <2>2
    <2> QED BY <1>2, <2>1, <2>2
  <1>5. ASSUME NEW i \in DOMAIN waiters', NEW j \in DOMAIN waiters', waiters'[i] = waiters'[j]
        PROVE  i = j
    BY <1>2, <1>3, <1>5 DEF LockIsOwned
  <1>6. ASSUME NEW u \in Tasks, task'[u] # "idle"
        PROVE  \E i \in DOMAIN waiters' : waiters'[i] = u
    <2>1. CASE u = t
      BY <1>2, <2>1
    <2>2. CASE u # t
      <3>1. PICK i \in DOMAIN waiters : waiters[i] = u
        BY <1>1, <1>6, <2>2 DEF LockIsOwned
      <3> QED BY <1>2, <3>1
    <2> QED BY <2>1, <2>2
  <1> QED BY <1>1, <1>2, <1>4, <1>5, <1>6 DEF LockIsOwned

(* Leaving request(), from wherever, hands the lock on. *)
LEMMA ReturnKeepsLock ==
    ASSUME TypeOK, LockIsOwned, NEW t \in Tasks, Return(t)
    PROVE  /\ LockIsOwned'
           /\ waiters' \in Seq(Tasks)
           /\ task' \in [Tasks -> {"idle", "waiting", "sending", "reading"}]
  <1>1. /\ task' = [task EXCEPT ![t] = "idle"]
        /\ waiters' = WithoutMe(t)
        /\ waiters \in Seq(Tasks)
        /\ task \in [Tasks -> {"idle", "waiting", "sending", "reading"}]
        /\ Len(waiters) \in Nat
        /\ DOMAIN waiters = 1..Len(waiters)
    BY DEF Return, TypeOK
  <1>2. CASE ~\E i \in DOMAIN waiters : waiters[i] = t
    <2>1. waiters' = waiters
      BY <1>1, <1>2 DEF WithoutMe
    <2>2. \A u \in Tasks : u # t => task'[u] = task[u]
      BY <1>1
    <2>3. task'[t] = "idle"
      BY <1>1
    <2>4. \A i \in DOMAIN waiters : waiters[i] \in Tasks /\ waiters[i] # t
      BY <1>1, <1>2
    <2> QED BY <1>1, <2>1, <2>2, <2>3, <2>4 DEF LockIsOwned
  <1>3. CASE \E i \in DOMAIN waiters : waiters[i] = t
    <2> DEFINE k == CHOOSE i \in DOMAIN waiters : waiters[i] = t
    <2>1. k \in 1..Len(waiters) /\ waiters[k] = t
      BY <1>1, <1>3
    <2>2. waiters' = RemoveAt(waiters, k)
      BY <1>1, <1>3 DEF WithoutMe
    <2> HIDE DEF k
    <2>3. /\ waiters' \in Seq(Tasks)
          /\ Len(waiters') = Len(waiters) - 1
          /\ \A i \in 1..(Len(waiters) - 1) :
                 waiters'[i] = IF i < k THEN waiters[i] ELSE waiters[i + 1]
      <3>1. k \in 1..Len(waiters) /\ waiters \in Seq(Tasks)
        BY <1>1, <2>1
      <3> QED BY <2>2, <3>1, RemoveAtProperties
    <2>4. DOMAIN waiters' = 1..(Len(waiters) - 1)
      BY <1>1, <2>3
    <2>5. \A i \in DOMAIN waiters : i # k => waiters[i] # t
      BY <1>1, <2>1 DEF LockIsOwned
    <2>6. \A i \in DOMAIN waiters : waiters[i] \in Tasks
      BY <1>1
    <2>7. ASSUME NEW i \in DOMAIN waiters'
          PROVE  task'[waiters'[i]] # "idle" /\ (i > 1 => task'[waiters'[i]] = "waiting")
      <3>1. CASE i < k
        BY <1>1, <2>1, <2>3, <2>4, <2>5, <2>6, <3>1 DEF LockIsOwned
      <3>2. CASE i >= k
        <4>1. /\ i + 1 \in DOMAIN waiters
              /\ i + 1 # k
              /\ i + 1 > 1
              /\ waiters'[i] = waiters[i + 1]
          BY <1>1, <2>1, <2>3, <2>4, <3>2
        <4>2. waiters[i + 1] # t /\ task[waiters[i + 1]] = "waiting"
          BY <2>5, <4>1 DEF LockIsOwned
        <4> QED BY <1>1, <2>6, <4>1, <4>2
      <3> QED BY <2>1, <2>4, <3>1, <3>2
    <2>8. ASSUME NEW i \in DOMAIN waiters', NEW j \in DOMAIN waiters', waiters'[i] = waiters'[j]
          PROVE  i = j
      <3> DEFINE At(n) == IF n < k THEN n ELSE n + 1
      <3>1. \A n \in DOMAIN waiters' : At(n) \in DOMAIN waiters /\ waiters'[n] = waiters[At(n)]
        BY <1>1, <2>1, <2>3, <2>4
      <3>2. At(i) = At(j)
        BY <2>8, <3>1 DEF LockIsOwned
      <3> QED BY <2>1, <2>4, <3>2
    <2>9. ASSUME NEW u \in Tasks, task'[u] # "idle"
          PROVE  \E i \in DOMAIN waiters' : waiters'[i] = u
      <3>1. u # t /\ task[u] # "idle"
        BY <1>1, <2>9
      <3>2. PICK i \in DOMAIN waiters : waiters[i] = u
        BY <3>1 DEF LockIsOwned
      <3>3. i # k
        BY <2>1, <3>1, <3>2
      <3>4. CASE i < k
        <4>1. i \in DOMAIN waiters' /\ waiters'[i] = waiters[i]
          BY <1>1, <2>1, <2>3, <2>4, <3>2, <3>4
        <4> QED BY <3>2, <4>1
      <3>5. CASE i > k
        <4>1. i - 1 \in DOMAIN waiters' /\ waiters'[i - 1] = waiters[i]
          BY <1>1, <2>1, <2>3, <2>4, <3>2, <3>5
        <4> QED BY <3>2, <4>1
      <3> QED BY <1>1, <2>1, <3>2, <3>3, <3>4, <3>5
    <2> QED BY <1>1, <2>3, <2>7, <2>8, <2>9 DEF LockIsOwned
  <1> QED BY <1>2, <1>3

(* The holder of the lock goes on inside request(). *)
LEMMA HolderKeepsLock ==
    ASSUME TypeOK, LockIsOwned, NEW t \in Tasks, NEW where \in {"sending", "reading"},
           Holds(t) \/ task[t] \in {"sending", "reading"},
           task' = [task EXCEPT ![t] = where], UNCHANGED waiters
    PROVE  /\ LockIsOwned'
           /\ task' \in [Tasks -> {"idle", "waiting", "sending", "reading"}]
  <1>1. /\ waiters \in Seq(Tasks)
        /\ task \in [Tasks -> {"idle", "waiting", "sending", "reading"}]
        /\ DOMAIN waiters = 1..Len(waiters)
        /\ Len(waiters) \in Nat
    BY DEF TypeOK
  <1>2. 1 \in DOMAIN waiters /\ waiters[1] = t
    <2>1. CASE Holds(t)
      BY <1>1, <2>1 DEF Holds
    <2>2. CASE task[t] \in {"sending", "reading"}
      <3>1. PICK i \in DOMAIN waiters : waiters[i] = t
        BY <2>2 DEF LockIsOwned
      <3>2. ~(i > 1)
        BY <2>2, <3>1 DEF LockIsOwned
      <3> QED BY <1>1, <3>1, <3>2
    <2> QED BY <2>1, <2>2
  <1>3. \A i \in DOMAIN waiters : waiters[i] \in Tasks /\ (i > 1 => waiters[i] # t)
    BY <1>1, <1>2 DEF LockIsOwned
  <1>4. \A u \in Tasks : task'[u] = IF u = t THEN where ELSE task[u]
    BY <1>1
  <1>5. ASSUME NEW i \in DOMAIN waiters
        PROVE  task'[waiters[i]] # "idle" /\ (i > 1 => task'[waiters[i]] = "waiting")
    BY <1>3, <1>4 DEF LockIsOwned
  <1>6. ASSUME NEW u \in Tasks, task'[u] # "idle"
        PROVE  \E i \in DOMAIN waiters : waiters[i] = u
    BY <1>2, <1>4, <1>6 DEF LockIsOwned
  <1>7. \A i, j \in DOMAIN waiters : waiters[i] = waiters[j] => i = j
    BY DEF LockIsOwned
  <1> QED BY <1>1, <1>5, <1>6, <1>7 DEF LockIsOwned

-----------------------------------------------------------------------------
(* The steps. *)

LEMMA InitIInv == Init => IInv
  <1> SUFFICES ASSUME Init PROVE IInv
    OBVIOUS
  <1>1. TypeOK
    <2>1. <<>> \in Seq(Tasks) /\ <<>> \in Seq(Nat) /\ <<>> \in Seq(Line)
      OBVIOUS
    <2> QED BY <2>1 DEF Init, TypeOK
  <1>2. LockIsOwned
    BY DEF Init, LockIsOwned
  <1>3. BootIsBounded
    BY DEF Init, BootIsBounded, Tasks
  <1>4. LinesAreTruthful
    BY DEF Init, LinesAreTruthful
  <1>5. SentHasId
    BY DEF Init, SentHasId
  <1> QED BY <1>1, <1>2, <1>3, <1>4, <1>5 DEF IInv

LEMMA RegistryIsTask == registry \in Tasks /\ Callers \subseteq Tasks
  BY DEF Tasks

(* A request that ends, however it ends. *)
LEMMA ReturnKeeps ==
    ASSUME IInv, NEW t \in Tasks, Return(t), UNCHANGED mine,
           t = registry \/ UNCHANGED <<phase, pages>>,
           task[t] # "idle" \/ phase' \notin {"handshake", "notifying", "listing"},
           phase' \in {"handshake", "notifying", "listing"} => pages' < MaxPages
    PROVE  LockIsOwned' /\ BootIsBounded' /\ SentHasId'
  <1>1. task' = [task EXCEPT ![t] = "idle"] /\ task \in [Tasks -> {"idle", "waiting", "sending", "reading"}]
    BY DEF IInv, TypeOK, Return
  <1>2. LockIsOwned'
    BY ReturnKeepsLock DEF IInv
  <1>3. SentHasId'
    BY <1>1 DEF IInv, SentHasId
  <1>4. BootIsBounded'
    BY <1>1, RegistryIsTask DEF IInv, BootIsBounded
  <1> QED BY <1>2, <1>3, <1>4

(* A request that fails; a server whose start failed is out of use. *)
LEMMA FailsKeeps ==
    ASSUME IInv, NEW t \in Tasks, Fails(t), task[t] # "idle",
           UNCHANGED <<next_id, mine, stdin, asked, own, calls, results>>,
           LinesAreTruthful', stdout' \in Seq(Line)
    PROVE  IInv'
  <1>1. Return(t) /\ (t = registry \/ UNCHANGED bootVars)
    BY DEF Fails
  <1>2. LockIsOwned' /\ BootIsBounded' /\ SentHasId'
    BY <1>1, ReturnKeeps DEF Fails, IInv, BootIsBounded, bootVars
  <1>3. TypeOK'
    BY <1>1, ReturnKeepsLock DEF Fails, IInv, TypeOK, bootVars
  <1> QED BY <1>2, <1>3 DEF IInv

(* A line that is read leaves the others as they are. *)
LEMMA TailIsTruthful ==
    ASSUME IInv, stdout # <<>>, stdout' = Tail(stdout)
    PROVE  LinesAreTruthful' /\ stdout' \in Seq(Line) /\ Head(stdout) \in Line
  <1>1. stdout \in Seq(Line)
    BY DEF IInv, TypeOK
  <1>2. /\ Tail(stdout) \in Seq(Line)
        /\ \A i \in DOMAIN Tail(stdout) : i + 1 \in DOMAIN stdout /\ Tail(stdout)[i] = stdout[i + 1]
    BY <1>1
  <1>3. Head(stdout) \in Line
    BY <1>1
  <1> QED BY <1>2, <1>3 DEF IInv, LinesAreTruthful

(* A line the server writes comes behind the others. *)
LEMMA AppendIsTruthful ==
    ASSUME IInv, NEW line \in Line, stdout' = Append(stdout, line),
           line.id = line.answers \/ line.id \in ServerIds \cup {0}
    PROVE  LinesAreTruthful' /\ stdout' \in Seq(Line)
  <1>1. stdout \in Seq(Line)
    BY DEF IInv, TypeOK
  <1>2. /\ Append(stdout, line) \in Seq(Line)
        /\ \A i \in DOMAIN Append(stdout, line) :
               \/ i \in DOMAIN stdout /\ Append(stdout, line)[i] = stdout[i]
               \/ Append(stdout, line)[i] = line
    BY <1>1
  <1> QED BY <1>2 DEF IInv, LinesAreTruthful

LEMMA SendKeeps == ASSUME IInv, NEW t \in Tasks, Send(t) PROVE IInv'
  <1>1. LockIsOwned' /\ task' \in [Tasks -> {"idle", "waiting", "sending", "reading"}]
    BY HolderKeepsLock DEF Send, IInv
  <1>2. task' = [task EXCEPT ![t] = "sending"] /\ mine' = [mine EXCEPT ![t] = next_id + 1]
    BY DEF Send
  <1>3. TypeOK'
    BY <1>1 DEF Send, IInv, TypeOK, bootVars
  <1>4. SentHasId'
    BY <1>2 DEF IInv, TypeOK, SentHasId
  <1>5. BootIsBounded' /\ LinesAreTruthful'
    BY <1>2, RegistryIsTask DEF Send, IInv, TypeOK, BootIsBounded, LinesAreTruthful, bootVars
  <1> QED BY <1>1, <1>3, <1>4, <1>5 DEF IInv

LEMMA DrainedKeeps == ASSUME IInv, NEW t \in Tasks, Drained(t) PROVE IInv'
  <1>1. LockIsOwned' /\ task' \in [Tasks -> {"idle", "waiting", "sending", "reading"}]
    BY HolderKeepsLock DEF Drained, IInv
  <1>2. task' = [task EXCEPT ![t] = "reading"]
    BY DEF Drained
  <1>3. TypeOK'
    BY <1>1 DEF Drained, IInv, TypeOK, bootVars, pipeVars
  <1>4. SentHasId' /\ BootIsBounded' /\ LinesAreTruthful'
    BY <1>2, RegistryIsTask
    DEF Drained, IInv, TypeOK, SentHasId, BootIsBounded, LinesAreTruthful, bootVars, pipeVars
  <1> QED BY <1>1, <1>3, <1>4 DEF IInv

LEMMA ReadLineKeeps == ASSUME IInv, NEW t \in Tasks, ReadLine(t) PROVE IInv'
  <1> DEFINE line == Head(stdout)
  <1>1. /\ task[t] = "reading"
        /\ stdout # <<>>
        /\ stdout' = Tail(stdout)
        /\ UNCHANGED <<next_id, mine, asked, own, calls>>
    BY DEF ReadLine
  <1>2. LinesAreTruthful' /\ stdout' \in Seq(Line) /\ line \in Line
    BY <1>1, TailIsTruthful
  <1>3. CASE Fails(t) /\ UNCHANGED <<stdin, results>>
    BY <1>1, <1>2, <1>3, FailsKeeps
  <1>4. CASE UNCHANGED <<task, waiters, bootVars, stdin, results>>
    BY <1>1, <1>2, <1>4
    DEF IInv, TypeOK, LockIsOwned, BootIsBounded, SentHasId, bootVars
  <1>5. CASE /\ Answered(t, line.kind)
             /\ results' = results \cup {<<mine[t], line.answers>>}
    <2>1. Return(t)
      BY <1>5 DEF Answered
    <2>2. /\ waiters' \in Seq(Tasks)
          /\ task' \in [Tasks -> {"idle", "waiting", "sending", "reading"}]
      BY <2>1, ReturnKeepsLock DEF IInv
    <2>3. results' \in SUBSET (Nat \X Nat)
      BY <1>2, <1>5 DEF IInv, TypeOK, Line
    <2>4. CASE t # registry
      <3>1. UNCHANGED <<bootVars, stdin>>
        BY <1>5, <2>4 DEF Answered
      <3>2. LockIsOwned' /\ BootIsBounded' /\ SentHasId'
        BY <1>1, <2>1, <3>1, ReturnKeeps DEF IInv, BootIsBounded, bootVars
      <3>3. TypeOK'
        BY <1>1, <1>2, <2>2, <2>3, <3>1 DEF IInv, TypeOK, bootVars
      <3> QED BY <1>2, <3>2, <3>3 DEF IInv
    <2>5. CASE t = registry
      <3>1. phase \in {"handshake", "listing"} /\ pages < MaxPages /\ pages \in Nat
        BY <1>1, <2>5 DEF IInv, BootIsBounded, TypeOK
      <3>2. /\ phase' \in {"notifying", "listing", "ready"}
            /\ pages' \in 0..MaxPages
            /\ phase' \in {"notifying", "listing"} => pages' < MaxPages
            /\ UNCHANGED server
        BY <1>5, <2>5, <3>1 DEF Answered, PagesLeft
      <3>3. stdin' \in Seq(Nat)
        <4>1. stdin' = (IF phase = "handshake" THEN Append(stdin, 0) ELSE stdin)
          BY <1>5, <2>5 DEF Answered
        <4>2. stdin \in Seq(Nat)
          BY DEF IInv, TypeOK
        <4>3. Append(stdin, 0) \in Seq(Nat)
          BY <4>2
        <4> QED BY <4>1, <4>2, <4>3
      <3>4. LockIsOwned' /\ BootIsBounded' /\ SentHasId'
        BY <1>1, <2>1, <2>5, <3>2, ReturnKeeps
      <3>5. TypeOK'
        BY <1>1, <1>2, <2>2, <2>3, <3>2, <3>3 DEF IInv, TypeOK
      <3> QED BY <1>2, <3>4, <3>5 DEF IInv
    <2> QED BY <2>4, <2>5
  <1> QED BY <1>3, <1>4, <1>5 DEF ReadLine

LEMMA StopKeeps == ASSUME IInv, Stop PROVE IInv'
  <1>1. /\ Return(registry)
        /\ phase' = "stopped"
        /\ UNCHANGED <<pages, next_id, mine, pipeVars, calls, results>>
        /\ server' \in {"up", "exited"}
    BY DEF Stop, AfterStop, IInv, TypeOK
  <1>2. /\ waiters' \in Seq(Tasks)
        /\ task' \in [Tasks -> {"idle", "waiting", "sending", "reading"}]
    BY <1>1, ReturnKeepsLock, RegistryIsTask DEF IInv
  <1>3. LockIsOwned' /\ BootIsBounded' /\ SentHasId'
    BY <1>1, ReturnKeeps, RegistryIsTask
  <1>4. TypeOK' /\ LinesAreTruthful'
    BY <1>1, <1>2 DEF IInv, TypeOK, LinesAreTruthful, pipeVars
  <1> QED BY <1>3, <1>4 DEF IInv

LEMMA JoinKeeps ==
    ASSUME IInv, NEW t \in Tasks, task[t] = "idle", Queue(t),
           t = registry => phase \in {"handshake", "listing"},
           UNCHANGED <<bootVars, next_id, mine, pipeVars, results>>,
           calls' \in [Callers -> 0..MaxCalls]
    PROVE  IInv'
  <1>1. /\ LockIsOwned'
        /\ waiters' \in Seq(Tasks)
        /\ task' \in [Tasks -> {"idle", "waiting", "sending", "reading"}]
    BY QueueKeepsLock DEF IInv
  <1>2. task' = [task EXCEPT ![t] = "waiting"]
    BY DEF Queue
  <1>3. TypeOK' /\ LinesAreTruthful'
    BY <1>1 DEF IInv, TypeOK, LinesAreTruthful, bootVars, pipeVars
  <1>4. SentHasId' /\ BootIsBounded'
    BY <1>2, RegistryIsTask DEF IInv, TypeOK, SentHasId, BootIsBounded, bootVars
  <1> QED BY <1>1, <1>3, <1>4 DEF IInv

(* The server touches only the pipes. *)
LEMMA ServerKeeps == ASSUME IInv, Server PROVE IInv'
  <1>1. UNCHANGED <<bootVars, task, waiters, next_id, mine, calls, results>>
    BY DEF Server, ServerReads, ServerAnswers, ServerSpeaks
  <1>2. LockIsOwned' /\ BootIsBounded' /\ SentHasId'
    BY <1>1 DEF IInv, LockIsOwned, BootIsBounded, SentHasId, bootVars
  <1>3. CASE ServerReads
    <2>1. stdin' \in Seq(Nat) /\ asked' \in SUBSET Nat
      <3>1. stdin \in Seq(Nat) /\ stdin # <<>> /\ asked \in SUBSET Nat
        BY <1>3 DEF ServerReads, IInv, TypeOK
      <3>2. Tail(stdin) \in Seq(Nat) /\ Head(stdin) \in Nat
        BY <3>1
      <3> QED BY <1>3, <3>1, <3>2 DEF ServerReads
    <2> QED
      BY <1>1, <1>2, <1>3, <2>1 DEF ServerReads, IInv, TypeOK, LinesAreTruthful, bootVars
  <1>4. ASSUME NEW id \in asked, NEW kind \in Kind, ServerAnswers(id, kind) PROVE IInv'
    <2>1. [id |-> id, answers |-> id, kind |-> kind] \in Line
      BY DEF Line, IInv, TypeOK
    <2>2. LinesAreTruthful' /\ stdout' \in Seq(Line)
      BY <1>4, <2>1, AppendIsTruthful DEF ServerAnswers
    <2> QED BY <1>1, <1>2, <1>4, <2>2 DEF ServerAnswers, IInv, TypeOK, bootVars
  <1>5. ASSUME NEW id \in ServerIds \cup {0}, ServerSpeaks(id) PROVE IInv'
    <2>1. [id |-> id, answers |-> 0, kind |-> "result"] \in Line
      BY DEF Line, Kind
    <2>2. LinesAreTruthful' /\ stdout' \in Seq(Line)
      BY <1>5, <2>1, AppendIsTruthful DEF ServerSpeaks
    <2> QED BY <1>1, <1>2, <1>5, <2>2 DEF ServerSpeaks, IInv, TypeOK, bootVars
  <1> QED BY <1>3, <1>4, <1>5 DEF Server

LEMMA NextIInv == IInv /\ [Next]_vars => IInv'
  <1> SUFFICES ASSUME IInv, [Next]_vars PROVE IInv'
    OBVIOUS
  <1>1. CASE BootRequest
    BY <1>1, JoinKeeps, RegistryIsTask DEF BootRequest, IInv, TypeOK
  <1>2. CASE Notified \/ NotifyFails
    <2>1. /\ UNCHANGED <<pages, server, task, waiters, next_id, mine, calls, results>>
          /\ UNCHANGED <<stdin, asked, stdout, own>>
          /\ phase = "notifying"
          /\ phase' \in {"listing", "failed"}
      BY <1>2 DEF Notified, NotifyFails, pipeVars
    <2>2. TypeOK'
      BY <2>1 DEF IInv, TypeOK
    <2>3. LockIsOwned' /\ LinesAreTruthful' /\ SentHasId'
      BY <2>1 DEF IInv, LockIsOwned, LinesAreTruthful, SentHasId
    <2>4. BootIsBounded'
      BY <2>1 DEF IInv, BootIsBounded
    <2> QED BY <2>2, <2>3, <2>4 DEF IInv
  <1>3. ASSUME NEW t \in Tasks, Send(t) PROVE IInv'
    BY <1>3, SendKeeps
  <1>4. ASSUME NEW t \in Tasks, Drained(t) PROVE IInv'
    BY <1>4, DrainedKeeps
  <1>5. ASSUME NEW t \in Tasks, ReadLine(t) PROVE IInv'
    BY <1>5, ReadLineKeeps
  <1>6. ASSUME NEW t \in Tasks, Broken(t) \/ Timeout(t) PROVE IInv'
    <2>1. /\ Fails(t)
          /\ task[t] # "idle"
          /\ UNCHANGED <<next_id, mine, pipeVars, calls, results>>
      BY <1>6 DEF Broken, Timeout, Timed
    <2>2. LinesAreTruthful' /\ stdout' \in Seq(Line)
      BY <2>1 DEF IInv, TypeOK, LinesAreTruthful, pipeVars
    <2> QED BY <2>1, <2>2, FailsKeeps DEF pipeVars
  <1>7. CASE Server
    BY <1>7, ServerKeeps
  <1>8. ASSUME NEW t \in Callers, Call(t) PROVE IInv'
    <2>1. calls' \in [Callers -> 0..MaxCalls]
      <3>1. calls \in [Callers -> 0..MaxCalls] /\ calls[t] < MaxCalls
        BY <1>8 DEF Call, IInv, TypeOK
      <3>2. calls' = [calls EXCEPT ![t] = calls[t] + 1]
        BY <1>8 DEF Call
      <3> QED BY <3>1, <3>2
    <2>2. /\ task[t] = "idle" /\ Queue(t) /\ t \in Tasks /\ t # registry
          /\ UNCHANGED <<bootVars, next_id, mine, pipeVars, results>>
      BY <1>8, RegistryIsTask DEF Call
    <2> QED BY <2>1, <2>2, JoinKeeps
  <1>9. ASSUME NEW t \in Callers, Cancel(t) PROVE IInv'
    <2>1. /\ Return(t) /\ t \in Tasks /\ t # registry
          /\ task[t] # "idle"
          /\ UNCHANGED <<bootVars, next_id, mine, pipeVars, calls, results>>
      BY <1>9, RegistryIsTask DEF Cancel
    <2>2. Fails(t)
      BY <2>1 DEF Fails
    <2>3. LinesAreTruthful' /\ stdout' \in Seq(Line)
      BY <2>1 DEF IInv, TypeOK, LinesAreTruthful, pipeVars
    <2> QED BY <2>1, <2>2, <2>3, FailsKeeps DEF pipeVars
  <1>10. CASE ServerExits
    BY <1>10
    DEF ServerExits, IInv, TypeOK, LockIsOwned, BootIsBounded, LinesAreTruthful, SentHasId,
        pipeVars
  <1>11. CASE Stop
    BY <1>11, StopKeeps
  <1>12. CASE UNCHANGED vars
    BY <1>12
    DEF vars, IInv, TypeOK, LockIsOwned, BootIsBounded, LinesAreTruthful, SentHasId, bootVars,
        pipeVars
  <1> QED
    BY <1>1, <1>2, <1>3, <1>4, <1>5, <1>6, <1>7, <1>8, <1>9, <1>10, <1>11, <1>12
    DEF Next, Session

LEMMA Inductive == Spec => []IInv
  <1>1. Init => IInv
    BY InitIInv
  <1>2. IInv /\ [Next]_vars => IInv'
    BY NextIInv
  <1> QED BY <1>1, <1>2, PTL DEF Spec

-----------------------------------------------------------------------------
(* The theorems. *)

(* The variables keep their types; in particular the start of a server that    *)
(* returns a cursor for ever stops at the page limit (mcp.py, _list_tools).    *)
THEOREM TypeCorrect == Spec => []TypeOK
  <1>1. IInv => TypeOK
    BY DEF IInv
  <1> QED BY <1>1, Inductive, PTL

(* Whatever ends a request - an answer, a timeout, a dead process, a           *)
(* cancellation while it waits or reads - the lock passes to the next waiter   *)
(* and to nobody else (mcp.py, async with self._lock).                         *)
THEOREM LockOwned == Spec => []LockIsOwned
  <1>1. IInv => LockIsOwned
    BY DEF IInv
  <1> QED BY <1>1, Inductive, PTL

(* KiloFrame has not yet drawn an id that the server gives to a request of     *)
(* its own.                                                                    *)
ServerIdsAreFar == \A id \in ServerIds : id > next_id

(* Nobody waits for an id that was not drawn. *)
IdsAreDrawn == \A t \in Tasks : mine[t] <= next_id

LEMMA DrawnStays == IInv /\ IdsAreDrawn /\ [Next]_vars => IdsAreDrawn' /\ next_id' >= next_id
  <1> SUFFICES ASSUME IInv, IdsAreDrawn, [Next]_vars
               PROVE  IdsAreDrawn' /\ next_id' >= next_id
    OBVIOUS
  <1>1. next_id \in Nat /\ mine \in [Tasks -> Nat]
    BY DEF IInv, TypeOK
  <1>2. ASSUME NEW t \in Tasks, Send(t) PROVE IdsAreDrawn' /\ next_id' >= next_id
    <2>1. next_id' = next_id + 1 /\ mine' = [mine EXCEPT ![t] = next_id + 1]
      BY <1>2 DEF Send
    <2> QED BY <1>1, <2>1 DEF IdsAreDrawn
  <1>3. CASE UNCHANGED <<next_id, mine>>
    BY <1>1, <1>3 DEF IdsAreDrawn
  <1>4. (\E t \in Tasks : Send(t)) \/ UNCHANGED <<next_id, mine>>
    BY DEF Next, Session, Server, vars, BootRequest, Notified, NotifyFails, Drained, ReadLine,
           Broken, Timeout, ServerReads, ServerAnswers, ServerSpeaks, Call, Cancel,
           ServerExits, Stop
  <1> QED BY <1>2, <1>3, <1>4

(* As long as KiloFrame has made fewer requests than any id the server gives   *)
(* to its own, a call takes only the result of its own request, however late,  *)
(* early or out of order the lines come; for a server whose requests carry no  *)
(* number that is always (mcp.py, the comparison of ids in request()).         *)
THEOREM ResultsAreOwn == Spec => [](ServerIdsAreFar => OwnResults)
  <1> DEFINE Own == IdsAreDrawn /\ (ServerIdsAreFar => OwnResults)
  <1>1. Init => Own
    BY DEF Init, OwnResults, IdsAreDrawn
  <1>2. IInv /\ Own /\ [Next]_vars => Own'
    <2> SUFFICES ASSUME IInv, Own, [Next]_vars PROVE Own'
      OBVIOUS
    <2>1. /\ IdsAreDrawn' /\ next_id' >= next_id
          /\ next_id \in Nat /\ next_id' \in Nat /\ ServerIds \subseteq Nat
      BY DrawnStays, NextIInv DEF IInv, TypeOK
    <2>2. SUFFICES ASSUME ServerIdsAreFar' PROVE OwnResults'
      BY <2>1
    <2>3. ServerIdsAreFar /\ OwnResults
      BY <2>1, <2>2 DEF ServerIdsAreFar
    <2>4. CASE UNCHANGED results
      BY <2>3, <2>4 DEF OwnResults
    <2>5. ASSUME NEW t \in Tasks, ReadLine(t), ~UNCHANGED results PROVE OwnResults'
      <3> DEFINE line == Head(stdout)
      <3>1. /\ results' = results \cup {<<mine[t], line.answers>>}
            /\ line.id = mine[t]
            /\ stdout # <<>>
            /\ task[t] = "reading"
        BY <2>5 DEF ReadLine, IdMatches
      <3>2. mine[t] # 0
        BY <3>1 DEF IInv, SentHasId
      <3>3. mine[t] \notin ServerIds
        BY <2>1, <2>3 DEF ServerIdsAreFar, IdsAreDrawn, IInv, TypeOK
      <3>4. line = stdout[1] /\ 1 \in DOMAIN stdout
        BY <3>1 DEF IInv, TypeOK
      <3>5. line.id = line.answers
        BY <3>1, <3>2, <3>3, <3>4 DEF IInv, LinesAreTruthful
      <3> QED BY <2>3, <3>1, <3>5 DEF OwnResults
    <2>6. (\E t \in Tasks : ReadLine(t)) \/ UNCHANGED results
      BY DEF Next, Session, Server, vars, BootRequest, Notified, NotifyFails, Send, Drained,
             Broken, Timeout, ServerReads, ServerAnswers, ServerSpeaks, Call, Cancel,
             ServerExits, Stop
    <2> QED BY <2>4, <2>5, <2>6
  <1> QED BY <1>1, <1>2, Inductive, PTL DEF Spec
=============================================================================
