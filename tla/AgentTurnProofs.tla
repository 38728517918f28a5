-------------------------- MODULE AgentTurnProofs --------------------------
(* Safety of the agent loop for every set of tools, every bound and every    *)
(* behaviour of the model: the invariants of AgentTurn as theorems.          *)
EXTENDS AgentTurn, TLAPS

LEMMA OneElement ==
    ASSUME NEW S, NEW s \in Seq(S), Len(s) = 1
    PROVE  s[1] \in S
  OBVIOUS

LEMMA AppendFacts ==
    ASSUME NEW S, NEW s \in Seq(S), NEW e \in S
    PROVE  /\ Len(s) \in Nat
           /\ Len(Append(s, e)) = Len(s) + 1
           /\ DOMAIN s = 1..Len(s)
           /\ DOMAIN Append(s, e) = 1..(Len(s) + 1)
           /\ \A i \in 1..Len(s) : Append(s, e)[i] = s[i]
           /\ Append(s, e)[Len(s) + 1] = e
  OBVIOUS

LEMMA ReplyIsSeq ==
    ASSUME NEW calls \in Replies
    PROVE  calls \in Seq(Call)
  <1>1. PICK n \in 0..MaxCalls : calls \in [1..n -> Call]
    BY DEF Replies
  <1>2. n \in Nat
    BY ConstantsAssumption
  <1> QED
    BY <1>1, <1>2

LEMMA NoTextType == NoText \in TextClass
  BY DEF NoText, TextClass

LEMMA TypeInit == Init => TypeOK
  <1> SUFFICES ASSUME Init
               PROVE  TypeOK
    OBVIOUS
  <1> USE ConstantsAssumption
  <1>1. nudges \in [NudgeKind -> Nat] /\ \A k \in NudgeKind : nudges[k] <= Limit(k)
    BY DEF Init, Limit
  <1>2. offered \in SUBSET Tools
    BY DEF Init
  <1>3. /\ todo \in Seq(Call) /\ current \in Seq(Run) /\ shown \in Seq(Token)
        /\ recorded \in Seq(Verdict) /\ log \in Seq(Entry)
    BY DEF Init
  <1>4. /\ seen_calls \in SUBSET Run /\ successful_tools \in SUBSET Tools
        /\ unresolved_failures \in SUBSET Tools /\ step \in 0..MaxSteps
    BY DEF Init
  <1> QED
    BY <1>1, <1>2, <1>3, <1>4, NoTextType DEF Init, TypeOK, Outcome

LEMMA DeliverType ==
    ASSUME TypeOK, NEW v \in Verdict, NEW screen \in Seq(Token), Deliver(v, screen)
    PROVE  TypeOK'
  BY DEF TypeOK, Deliver, StoredAtDelivery, turnVars, gateVars, replyVars

LEMMA TypeStep == TypeOK /\ [Next]_vars => TypeOK'
  <1> SUFFICES ASSUME TypeOK, [Next]_vars
               PROVE  TypeOK'
    OBVIOUS
  <1> USE ConstantsAssumption
  <1>1. CASE Think
    <2>1. step' \in 0..MaxSteps
      BY <1>1 DEF Think, StepsLeft, TypeOK
    <2> QED
      BY <1>1, <2>1, NoTextType DEF Think, TypeOK, turnVars, gateVars
  <1>2. CASE StreamText
    <2>1. Sir \in Token /\ Draft(step) \in Token
      BY DEF Sir, Draft, Token, TypeOK
    <2> QED
      BY <1>2, <2>1 DEF StreamText, TypeOK, turnVars, gateVars, replyVars
  <1>3. CASE StreamMarker
    <2>1. shown' \in Seq(Token)
      BY <1>3 DEF StreamMarker, TypeOK
    <2> QED
      BY <1>3, <2>1 DEF StreamMarker, TypeOK, turnVars, gateVars
  <1>4. ASSUME NEW calls \in Replies, NEW t \in Texts, NEW length \in BOOLEAN,
               StreamEnd(calls, t, length)
        PROVE  TypeOK'
    <2>1. calls \in Seq(Call)
      BY ReplyIsSeq
    <2>2. shown' \in Seq(Token)
      <3>1. Sir \in Token /\ Draft(step) \in Token
        BY DEF Sir, Draft, Token, TypeOK
      <3> QED
        BY <1>4, <3>1 DEF StreamEnd, TypeOK
    <2> QED
      BY <1>4, <2>1, <2>2 DEF StreamEnd, TypeOK, turnVars, gateVars
  <1>5. CASE StreamFails
    BY <1>5 DEF StreamFails, TypeOK, turnVars, gateVars, replyVars, Outcome
  <1>6. CASE RejectCall
    <2>1. Head(todo) \in Call /\ Tail(todo) \in Seq(Call)
      BY <1>6 DEF RejectCall, TypeOK
    <2> QED
      BY <1>6, <2>1 DEF RejectCall, TypeOK, turnVars, replyVars, Call
  <1>7. CASE StartCall
    <2>1. Head(todo) \in Call /\ Tail(todo) \in Seq(Call)
      BY <1>7 DEF StartCall, TypeOK
    <2>2. Head(todo) \in Run
      BY <1>7, <2>1 DEF StartCall, Call, Run
    <2> QED
      BY <1>7, <2>1, <2>2 DEF StartCall, TypeOK, turnVars, replyVars
  <1>8. ASSUME NEW ok \in BOOLEAN, CallReturns(ok)
        PROVE  TypeOK'
    <2>1. current[1] \in Run
      <3>1. current \in Seq(Run) /\ Len(current) = 1
        BY <1>8 DEF CallReturns, TypeOK
      <3> QED
        BY <3>1, OneElement
    <2>2. current[1].tool \in Tools /\ [call |-> current[1], ok |-> ok] \in Entry
      BY <2>1 DEF Run, Entry
    <2> QED
      BY <1>8, <2>1, <2>2 DEF CallReturns, SeenAfter, FailuresAfter, TypeOK, turnVars, replyVars
  <1>9. CASE NextStep
    BY <1>9 DEF NextStep, TypeOK, turnVars, gateVars, replyVars
  <1>10. CASE LengthCut
    <2>1. shown' \in Seq(Token)
      BY <1>10 DEF LengthCut, Retracted, TypeOK
    <2> QED
      BY <1>10, <2>1 DEF LengthCut, TypeOK, turnVars, gateVars, replyVars
  <1>11. ASSUME NEW k \in NudgeKind, Nudge(k)
         PROVE  TypeOK'
    <2>1. nudges' \in [NudgeKind -> Nat] /\ \A j \in NudgeKind : nudges'[j] <= Limit(j)
      BY <1>11 DEF Nudge, TypeOK, Limit
    <2> QED
      BY <1>11, <2>1 DEF Nudge, Retracted, TypeOK, turnVars, replyVars
  <1>12. ASSUME NEW k \in NudgeKind, GiveUp(k)
         PROVE  TypeOK'
    <2>1. VerdictOf(k) \in Verdict
      BY DEF VerdictOf, Verdict, Failed
    <2>2. Append(Retracted, Message) \in Seq(Token)
      BY DEF Retracted, TypeOK, Message, Token
    <2> QED
      BY <1>12, <2>1, <2>2, DeliverType DEF GiveUp
  <1>13. CASE Accept
    <2>1. Append(shown, Close) \in Seq(Token) /\ Append(shown, Message) \in Seq(Token)
      BY DEF TypeOK, Message, Close, Token
    <2> QED
      BY <1>13, <2>1, DeliverType DEF Accept, Verdict
  <1>14. CASE StepLimit
    <2>1. <<Message>> \in Seq(Token)
      BY DEF Message, Token
    <2> QED
      BY <1>14, <2>1, DeliverType DEF StepLimit, Verdict
  <1>15. CASE Finish
    <2>1. recorded' \in Seq(Verdict)
      BY <1>15 DEF Finish, TypeOK
    <2>2. outcome' \in Outcome
      BY <1>15 DEF Finish, TypeOK, Outcome
    <2> QED
      BY <1>15, <2>1, <2>2 DEF Finish, TypeOK, turnVars, gateVars, replyVars
  <1>16. CASE Cancel
    BY <1>16 DEF Cancel, TypeOK, turnVars, gateVars, replyVars, Outcome
  <1>17. CASE UNCHANGED vars
    BY <1>17 DEF vars, TypeOK, turnVars, gateVars, replyVars
  <1> QED
    BY <1>1, <1>2, <1>3, <1>4, <1>5, <1>6, <1>7, <1>8, <1>9, <1>10, <1>11, <1>12,
       <1>13, <1>14, <1>15, <1>16, <1>17 DEF Next, Progress

(* Every variable keeps its type: in particular no more model requests are   *)
(* made than the effort allows, no gate nudges beyond its limit, and a tool  *)
(* runs only when its arguments parsed (agent.py, the loop and its counters).*)
THEOREM TypeCorrect == Spec => []TypeOK
  BY TypeInit, TypeStep, PTL DEF Spec

-----------------------------------------------------------------------------
(* The control phases: what ending, outcome and recorded are at each pc. *)

PhaseInv ==
    /\ pc \in {"think", "stream", "judge", "tools", "running"} =>
           ending = "running" /\ outcome = "running" /\ recorded = <<>>
    /\ pc = "closing" =>
           /\ outcome = "running"
           /\ recorded = IF ending \in {"refused", "limited"} THEN <<ending>> ELSE <<>>
    /\ pc = "done" =>
           \/ outcome = "error" /\ ending = "running" /\ recorded = <<>>
           \/ outcome = "cancelled" /\ recorded = <<>>
           \/ outcome = "cancelled" /\ ending \in Verdict /\ recorded = <<ending>>
           \/ outcome = ending /\ ending \in Verdict /\ recorded = <<ending>>

LEMMA DeliverPhase ==
    ASSUME TypeOK, PhaseInv, pc \in {"think", "judge"},
           NEW v \in Verdict, NEW screen, Deliver(v, screen)
    PROVE  PhaseInv'
  <1>1. recorded = <<>> /\ outcome = "running"
    BY DEF PhaseInv
  <1>2. recorded' = IF v \in {"refused", "limited"} THEN <<v>> ELSE <<>>
    BY <1>1 DEF Deliver, StoredAtDelivery
  <1> QED
    BY <1>1, <1>2 DEF Deliver, PhaseInv

LEMMA VerdictOfType == \A k \in NudgeKind : VerdictOf(k) \in Failed
  BY DEF VerdictOf, Failed

LEMMA PhaseStep == TypeOK /\ PhaseInv /\ [Next]_vars => PhaseInv'
  <1> SUFFICES ASSUME TypeOK, PhaseInv, [Next]_vars
               PROVE  PhaseInv'
    OBVIOUS
  <1>1. CASE \/ Think \/ StreamText \/ StreamMarker \/ RejectCall \/ StartCall
             \/ NextStep \/ LengthCut \/ StreamFails
    BY <1>1 DEF PhaseInv, Think, StreamText, StreamMarker, RejectCall, StartCall,
                NextStep, LengthCut, StreamFails
  <1>2. ASSUME NEW calls \in Replies, NEW t \in Texts, NEW length \in BOOLEAN,
               StreamEnd(calls, t, length)
        PROVE  PhaseInv'
    BY <1>2 DEF PhaseInv, StreamEnd
  <1>3. ASSUME NEW ok \in BOOLEAN, CallReturns(ok)
        PROVE  PhaseInv'
    BY <1>3 DEF PhaseInv, CallReturns
  <1>4. ASSUME NEW k \in NudgeKind, Nudge(k)
        PROVE  PhaseInv'
    BY <1>4 DEF PhaseInv, Nudge
  <1>5. ASSUME NEW k \in NudgeKind, GiveUp(k)
        PROVE  PhaseInv'
    BY <1>5, DeliverPhase, VerdictOfType DEF GiveUp, Verdict
  <1>6. CASE Accept
    BY <1>6, DeliverPhase DEF Accept, Verdict
  <1>7. CASE StepLimit
    BY <1>7, DeliverPhase DEF StepLimit, Verdict
  <1>8. CASE Finish
    <2>1. recorded' = <<ending>>
      <3>1. Append(<<>>, ending) = <<ending>>
        OBVIOUS
      <3> QED
        BY <1>8, <3>1 DEF Finish, PhaseInv
    <2> QED
      BY <1>8, <2>1 DEF Finish, PhaseInv, TypeOK
  <1>9. CASE Cancel
    BY <1>9 DEF Cancel, PhaseInv, TypeOK
  <1>10. CASE UNCHANGED vars
    BY <1>10 DEF vars, PhaseInv
  <1> QED
    BY <1>1, <1>2, <1>3, <1>4, <1>5, <1>6, <1>7, <1>8, <1>9, <1>10 DEF Next, Progress

LEMMA PhaseCorrect == Spec => []PhaseInv
  <1>1. Init => PhaseInv
    BY DEF Init, PhaseInv
  <1> QED
    BY <1>1, PhaseStep, TypeCorrect, PTL DEF Spec

(* A finished turn has stored exactly its verdict, a failed stream nothing,  *)
(* whatever the interleaving of delivery, storage and cancellation.          *)
THEOREM OneRecord == Spec => []OneRecordPerTurn
  <1>1. ASSUME TypeOK, PhaseInv
        PROVE  OneRecordPerTurn
    <2>1. Len(<<>>) = 0 /\ Len(<<ending>>) = 1
      OBVIOUS
    <2>2. recorded = <<>> \/ recorded = <<ending>>
      BY <1>1 DEF TypeOK, PhaseInv
    <2>3. outcome \in Verdict => outcome = ending /\ recorded = <<ending>>
      BY <1>1 DEF TypeOK, PhaseInv, Verdict, Failed
    <2>4. outcome = "error" => recorded = <<>>
      BY <1>1 DEF TypeOK, PhaseInv, Verdict, Failed
    <2>5. Len(recorded) <= 1
      <3>1. CASE recorded = <<>>
        BY <2>1, <3>1
      <3>2. CASE recorded = <<ending>>
        BY <2>1, <3>2
      <3> QED
        BY <2>2, <3>1, <3>2
    <2>6. outcome \in Verdict => recorded = <<outcome>>
      BY <2>3
    <2> QED
      BY <2>4, <2>5, <2>6 DEF OneRecordPerTurn
  <1> QED
    BY <1>1, TypeCorrect, PhaseCorrect, PTL

-----------------------------------------------------------------------------
(* What the tool bookkeeping knows about the runs that returned. *)

ChangedSince(i) == \E k \in i..Len(log) : log[k].ok /\ log[k].call \in Changing

SeenInv ==
    /\ \A i \in DOMAIN log : log[i].call \in seen_calls \/ ChangedSince(i)
    /\ pc = "running" =>
           /\ current[1] \in seen_calls
           /\ \A i \in DOMAIN log : log[i].call = current[1] => ChangedSince(i)
    /\ NoBlindRepeat

ToolInv ==
    /\ \A tool \in successful_tools : Evidence(tool)
    /\ \A tool \in Tools : LastRunFailed(tool) => tool \in unresolved_failures

(* Only two actions touch the log and the calls seen. *)
toolState == <<seen_calls, successful_tools, unresolved_failures, current, log>>

LEMMA OtherActions ==
    ASSUME TypeOK, [Next]_vars
    PROVE  \/ StartCall
           \/ \E ok \in BOOLEAN : CallReturns(ok)
           \/ RejectCall
           \/ UNCHANGED toolState /\ (pc' = "running" => pc = "running")
  <1> USE DEF toolState, turnVars, gateVars, replyVars
  <1>1. CASE \/ Think \/ StreamText \/ StreamMarker \/ NextStep \/ LengthCut \/ StreamFails
    BY <1>1 DEF Think, StreamText, StreamMarker, NextStep, LengthCut, StreamFails
  <1>2. ASSUME NEW calls \in Replies, NEW t \in Texts, NEW length \in BOOLEAN,
               StreamEnd(calls, t, length)
        PROVE  UNCHANGED toolState /\ pc' # "running"
    BY <1>2 DEF StreamEnd
  <1>3. ASSUME NEW k \in NudgeKind, Nudge(k)
        PROVE  UNCHANGED toolState /\ pc' # "running"
    BY <1>3 DEF Nudge
  <1>4. ASSUME NEW k \in NudgeKind, GiveUp(k)
        PROVE  UNCHANGED toolState /\ pc' # "running"
    BY <1>4 DEF GiveUp, Deliver
  <1>5. CASE Accept \/ StepLimit \/ Finish \/ Cancel
    BY <1>5 DEF Accept, StepLimit, Finish, Cancel, Deliver
  <1>6. CASE UNCHANGED vars
    BY <1>6 DEF vars
  <1> QED
    BY <1>1, <1>2, <1>3, <1>4, <1>5, <1>6 DEF Next, Progress

LEMMA LogGrows ==
    ASSUME TypeOK, NEW ok \in BOOLEAN, CallReturns(ok)
    PROVE  /\ current[1] \in Run
           /\ Len(log) \in Nat
           /\ Len(log') = Len(log) + 1
           /\ DOMAIN log = 1..Len(log)
           /\ DOMAIN log' = 1..(Len(log) + 1)
           /\ \A i \in 1..Len(log) : log'[i] = log[i]
           /\ log'[Len(log) + 1] = [call |-> current[1], ok |-> ok]
  <1>1. current \in Seq(Run) /\ Len(current) = 1 /\ log \in Seq(Entry)
    BY DEF CallReturns, TypeOK
  <1>2. current[1] \in Run
    BY <1>1, OneElement
  <1> DEFINE e == [call |-> current[1], ok |-> ok]
  <1>3. e \in Entry
    BY <1>2 DEF Entry
  <1>4. log' = Append(log, e)
    BY DEF CallReturns
  <1> HIDE DEF e
  <1>5. /\ Len(log) \in Nat
        /\ Len(Append(log, e)) = Len(log) + 1
        /\ DOMAIN log = 1..Len(log)
        /\ DOMAIN Append(log, e) = 1..(Len(log) + 1)
        /\ \A i \in 1..Len(log) : Append(log, e)[i] = log[i]
        /\ Append(log, e)[Len(log) + 1] = e
    BY <1>1, <1>3, AppendFacts
  <1> QED
    BY <1>2, <1>4, <1>5 DEF e

LEMMA SeenStep == TypeOK /\ SeenInv /\ [Next]_vars => SeenInv'
  <1> SUFFICES ASSUME TypeOK, SeenInv, [Next]_vars
               PROVE  SeenInv'
    OBVIOUS
  <1>1. CASE StartCall
    <2>1. /\ log' = log
          /\ seen_calls' = seen_calls \cup {Head(todo)}
          /\ current'[1] = Head(todo)
          /\ Head(todo) \notin seen_calls
      BY <1>1 DEF StartCall
    <2> QED
      BY <2>1 DEF SeenInv, ChangedSince, NoBlindRepeat, ChangedBetween
  <1>2. ASSUME NEW ok \in BOOLEAN, CallReturns(ok)
        PROVE  SeenInv'
    <2> DEFINE n == Len(log)
    <2>0. /\ n \in Nat
          /\ Len(log') = n + 1
          /\ DOMAIN log = 1..n
          /\ DOMAIN log' = 1..(n + 1)
          /\ \A i \in 1..n : log'[i] = log[i]
          /\ log'[n + 1] = [call |-> current[1], ok |-> ok]
      BY <1>2, LogGrows, Zenon
    <2>1. /\ n \in Nat
          /\ Len(log') = n + 1
          /\ DOMAIN log = 1..n
          /\ DOMAIN log' = 1..(n + 1)
          /\ \A i \in 1..n : log'[i] = log[i]
          /\ log'[n + 1].call = current[1]
          /\ log'[n + 1].ok = ok
      BY <2>0
    <2>2. /\ pc = "running" /\ pc' = "tools"
          /\ seen_calls' = IF ok /\ current[1] \in Changing THEN {} ELSE seen_calls
      BY <1>2 DEF CallReturns, SeenAfter
    <2> HIDE DEF n
    <2>3. \A i \in 1..n : ChangedSince(i) => ChangedSince(i)'
      BY <2>1 DEF ChangedSince, n
    <2>4. \A i \in DOMAIN log' : log'[i].call \in seen_calls' \/ ChangedSince(i)'
      <3> SUFFICES ASSUME NEW i \in DOMAIN log'
                   PROVE  log'[i].call \in seen_calls' \/ ChangedSince(i)'
        OBVIOUS
      <3>1. CASE ok /\ current[1] \in Changing
        <4>1. n + 1 \in i..Len(log')
          BY <2>1
        <4> QED
          BY <3>1, <4>1, <2>1 DEF ChangedSince
      <3>2. CASE ~(ok /\ current[1] \in Changing) /\ i = n + 1
        BY <2>1, <2>2, <3>2 DEF SeenInv
      <3>3. CASE ~(ok /\ current[1] \in Changing) /\ i \in 1..n
        BY <2>1, <2>2, <2>3, <3>3 DEF SeenInv
      <3> QED
        BY <2>1, <3>1, <3>2, <3>3
    <2>5. NoBlindRepeat'
      <3> SUFFICES ASSUME NEW i \in DOMAIN log', NEW j \in DOMAIN log',
                          i < j, log'[i].call = log'[j].call
                   PROVE  ChangedBetween(i, j)'
        BY DEF NoBlindRepeat
      <3>1. CASE j = n + 1
        <4>1. i \in 1..n /\ log[i].call = current[1]
          BY <2>1, <3>1
        <4>2. ChangedSince(i)
          BY <2>1, <2>2, <4>1 DEF SeenInv
        <4>3. PICK k \in i..n : log[k].ok /\ log[k].call \in Changing
          BY <4>2 DEF ChangedSince, n
        <4>4. k \in 1..n /\ k \in i..(j - 1)
          BY <2>1, <3>1, <4>1, <4>3
        <4> QED
          BY <2>1, <4>3, <4>4 DEF ChangedBetween
      <3>2. CASE j \in 1..n
        <4>1. i \in 1..n /\ log[i].call = log[j].call
          BY <2>1, <3>2
        <4>2. PICK k \in i..(j - 1) : log[k].ok /\ log[k].call \in Changing
          BY <2>1, <3>2, <4>1 DEF SeenInv, NoBlindRepeat, ChangedBetween
        <4>3. k \in 1..n
          BY <2>1, <3>2, <4>1, <4>2
        <4> QED
          BY <2>1, <4>2, <4>3 DEF ChangedBetween
      <3> QED
        BY <2>1, <3>1, <3>2
    <2> QED
      BY <2>2, <2>4, <2>5 DEF SeenInv
  <1>3. CASE RejectCall
    <2>1. UNCHANGED <<log, seen_calls, pc>> /\ pc = "tools"
      BY <1>3 DEF RejectCall
    <2> QED
      BY <2>1 DEF SeenInv, ChangedSince, NoBlindRepeat, ChangedBetween
  <1>4. CASE UNCHANGED toolState /\ (pc' = "running" => pc = "running")
    BY <1>4 DEF toolState, SeenInv, ChangedSince, NoBlindRepeat, ChangedBetween
  <1> QED
    BY <1>1, <1>2, <1>3, <1>4, OtherActions

(* No tool call is repeated blindly: between two runs of the same call of a  *)
(* turn lies a state-changing call that succeeded.                           *)
THEOREM NoBlindRepeats == Spec => []NoBlindRepeat
  <1>1. Init => SeenInv
    BY DEF Init, SeenInv, NoBlindRepeat
  <1>2. SeenInv => NoBlindRepeat
    BY DEF SeenInv
  <1> QED
    BY <1>1, <1>2, SeenStep, TypeCorrect, PTL DEF Spec

LEMMA ToolStep == TypeOK /\ ToolInv /\ [Next]_vars => ToolInv'
  <1> SUFFICES ASSUME TypeOK, ToolInv, [Next]_vars
               PROVE  ToolInv'
    OBVIOUS
  <1>1. CASE StartCall \/ RejectCall \/ UNCHANGED toolState
    <2>1. /\ UNCHANGED <<log, successful_tools>>
          /\ unresolved_failures \subseteq unresolved_failures'
      BY <1>1 DEF StartCall, RejectCall, toolState
    <2> QED
      BY <2>1 DEF ToolInv, Evidence, LastRunFailed
  <1>2. ASSUME NEW ok \in BOOLEAN, CallReturns(ok)
        PROVE  ToolInv'
    <2> DEFINE n == Len(log)
    <2>0. /\ n \in Nat
          /\ Len(log') = n + 1
          /\ DOMAIN log = 1..n
          /\ DOMAIN log' = 1..(n + 1)
          /\ \A i \in 1..n : log'[i] = log[i]
          /\ log'[n + 1] = [call |-> current[1], ok |-> ok]
      BY <1>2, LogGrows, Zenon
    <2>1. /\ n \in Nat
          /\ DOMAIN log = 1..n
          /\ DOMAIN log' = 1..(n + 1)
          /\ \A i \in 1..n : log'[i] = log[i]
          /\ log'[n + 1].call = current[1]
          /\ log'[n + 1].ok = ok
      BY <2>0
    <2>2. /\ successful_tools' =
                 IF ok THEN successful_tools \cup {current[1].tool} ELSE successful_tools
          /\ unresolved_failures' =
                 IF ok THEN unresolved_failures \ {current[1].tool}
                 ELSE unresolved_failures \cup {current[1].tool}
      BY <1>2 DEF CallReturns, FailuresAfter
    <2> HIDE DEF n
    <2>3. ASSUME NEW tool \in successful_tools'
          PROVE  Evidence(tool)'
      <3>1. CASE tool \in successful_tools
        <4>1. PICK i \in 1..n : log[i].ok /\ log[i].call.tool = tool
          BY <2>1, <3>1 DEF ToolInv, Evidence
        <4> QED
          BY <2>1, <4>1 DEF Evidence
      <3>2. CASE ok /\ tool = current[1].tool
        <4>1. n + 1 \in DOMAIN log'
          BY <2>1
        <4> QED
          BY <2>1, <3>2, <4>1 DEF Evidence
      <3> QED
        BY <2>2, <2>3, <3>1, <3>2
    <2>4. ASSUME NEW tool \in Tools, LastRunFailed(tool)'
          PROVE  tool \in unresolved_failures'
      <3>1. PICK i \in 1..(n + 1) :
                /\ log'[i].call.tool = tool
                /\ ~log'[i].ok
                /\ \A j \in 1..(n + 1) : j > i => log'[j].call.tool # tool
        BY <2>1, <2>4 DEF LastRunFailed
      <3>2. CASE i = n + 1
        BY <2>1, <2>2, <3>1, <3>2
      <3>3. CASE i \in 1..n
        <4>1. current[1].tool # tool
          BY <2>1, <3>1, <3>3
        <4>2. LastRunFailed(tool)
          BY <2>1, <3>1, <3>3 DEF LastRunFailed
        <4> QED
          BY <2>2, <4>1, <4>2 DEF ToolInv
      <3> QED
        BY <2>1, <3>1, <3>2, <3>3
    <2> QED
      BY <2>3, <2>4 DEF ToolInv
  <1> QED
    BY <1>1, <1>2, OtherActions

LEMMA ToolCorrect == Spec => []ToolInv
  <1>1. Init => ToolInv
    BY DEF Init, ToolInv, LastRunFailed
  <1> QED
    BY <1>1, ToolStep, TypeCorrect, PTL DEF Spec

-----------------------------------------------------------------------------
(* An answer passed every gate, and nothing the gates read changes after it. *)

Answering == ending \in {"answer", "no_answer"}

AcceptInv == Answering => /\ research_required => Missing = {}
                          /\ unresolved_failures # {} => text.admits

LEMMA AcceptStep == TypeOK /\ PhaseInv /\ AcceptInv /\ [Next]_vars => AcceptInv'
  <1> SUFFICES ASSUME TypeOK, PhaseInv, AcceptInv, [Next]_vars
               PROVE  AcceptInv'
    OBVIOUS
  <1> USE DEF turnVars, gateVars, replyVars
  <1>1. CASE pc \in {"think", "stream", "judge", "tools", "running"} /\ ending' = ending
    BY <1>1 DEF PhaseInv, AcceptInv, Answering
  <1>2. CASE Accept
    <2>1. (research_required => Missing = {}) /\ ~Unadmitted
      BY <1>2 DEF Accept, GateOf
    <2>2. UNCHANGED <<research_required, successful_tools, unresolved_failures, text>>
      BY <1>2 DEF Accept, Deliver
    <2> QED
      BY <2>1, <2>2 DEF AcceptInv, Missing, Unadmitted
  <1>3. ASSUME NEW k \in NudgeKind, GiveUp(k)
        PROVE  AcceptInv'
    <2>1. ending' \in Failed
      BY <1>3, VerdictOfType DEF GiveUp, Deliver
    <2> QED
      BY <2>1 DEF AcceptInv, Answering, Failed
  <1>4. CASE StepLimit
    BY <1>4 DEF StepLimit, Deliver, AcceptInv, Answering
  <1>5. CASE Finish \/ Cancel \/ UNCHANGED vars
    <2>1. UNCHANGED <<ending, research_required, successful_tools, unresolved_failures, text>>
      BY <1>5 DEF Finish, Cancel, vars
    <2> QED
      BY <2>1 DEF AcceptInv, Answering, Missing
  <1>6. CASE \/ Think \/ StreamText \/ StreamMarker \/ RejectCall \/ StartCall
             \/ NextStep \/ LengthCut \/ StreamFails
    BY <1>1, <1>6 DEF Think, StreamText, StreamMarker, RejectCall, StartCall,
                      NextStep, LengthCut, StreamFails
  <1>7. ASSUME NEW calls \in Replies, NEW t \in Texts, NEW length \in BOOLEAN,
               StreamEnd(calls, t, length)
        PROVE  AcceptInv'
    BY <1>1, <1>7 DEF StreamEnd
  <1>8. ASSUME NEW ok \in BOOLEAN, CallReturns(ok)
        PROVE  AcceptInv'
    BY <1>1, <1>8 DEF CallReturns
  <1>9. ASSUME NEW k \in NudgeKind, Nudge(k)
        PROVE  AcceptInv'
    BY <1>1, <1>9 DEF Nudge
  <1> QED
    BY <1>2, <1>3, <1>4, <1>5, <1>6, <1>7, <1>8, <1>9 DEF Next, Progress

LEMMA AcceptCorrect == Spec => []AcceptInv
  <1>1. Init => AcceptInv
    BY DEF Init, AcceptInv, Answering
  <1> QED
    BY <1>1, AcceptStep, TypeCorrect, PhaseCorrect, PTL DEF Spec

(* An answer stored for a research or private turn rests on a search and a   *)
(* source that really returned in this turn.                                 *)
THEOREM ResearchEvidence == Spec => []ResearchIsEvidenced
  <1>1. ASSUME TypeOK, PhaseInv, ToolInv, AcceptInv
        PROVE  ResearchIsEvidenced
    <2> SUFFICES ASSUME research_required, NEW i \in DOMAIN recorded,
                        recorded[i] \in {"answer", "no_answer"}
                 PROVE  Evidence("web_search") /\ Evidence("web_fetch")
      BY DEF ResearchIsEvidenced
    <2>1. recorded = <<>> \/ recorded = <<ending>>
      BY <1>1 DEF PhaseInv, TypeOK
    <2>2. recorded[i] = ending
      BY <2>1
    <2>3. {"web_search", "web_fetch"} \subseteq successful_tools
      BY <1>1, <2>2 DEF AcceptInv, Answering, Missing
    <2> QED
      BY <1>1, <2>3 DEF ToolInv
  <1> QED
    BY <1>1, TypeCorrect, PhaseCorrect, ToolCorrect, AcceptCorrect, PTL

(* No answer passes over a tool whose most recent run failed. *)
THEOREM FailuresOwned == Spec => []FailuresAreOwned
  <1>1. ToolInv /\ AcceptInv => FailuresAreOwned
    BY DEF ToolInv, AcceptInv, Answering, FailuresAreOwned
  <1> QED
    BY <1>1, ToolCorrect, AcceptCorrect, PTL

-----------------------------------------------------------------------------
(* Draft text on screen always belongs to the step being streamed or judged, *)
(* and then emitted_this_step knows about it.                                *)

NoDraft(s) == \A i \in DOMAIN s : s[i].kind # "draft"

DraftsOf(s, n) == \A i \in DOMAIN s : s[i].kind = "draft" => s[i].step = n

DraftInv ==
    /\ pc \in {"think", "tools", "running"} => NoDraft(shown)
    /\ pc \in {"stream", "judge"} =>
           DraftsOf(shown, step) /\ (~emitted_this_step => NoDraft(shown))
    /\ ending # "running" =>
           IF ending \in {"answer", "no_answer"} THEN DraftsOf(shown, step) ELSE NoDraft(shown)

LEMMA AppendDraft ==
    ASSUME NEW s \in Seq(Token), NEW e \in Token, NEW n \in Nat
    PROVE  /\ NoDraft(s) /\ e.kind # "draft" => NoDraft(Append(s, e))
           /\ DraftsOf(s, n) /\ e.kind # "draft" => DraftsOf(Append(s, e), n)
           /\ DraftsOf(s, n) /\ e.step = n => DraftsOf(Append(s, e), n)
  <1>1. \A i \in DOMAIN Append(s, e) : \/ i \in DOMAIN s /\ Append(s, e)[i] = s[i]
                                       \/ Append(s, e)[i] = e
    BY AppendFacts
  <1> QED
    BY <1>1 DEF NoDraft, DraftsOf

LEMMA NoDraftEmpty == NoDraft(<<>>) /\ \A n : DraftsOf(<<>>, n)
  BY DEF NoDraft, DraftsOf

LEMMA NoDraftDrafts == \A s, n : NoDraft(s) => DraftsOf(s, n)
  BY DEF NoDraft, DraftsOf

LEMMA RetractedDrafts ==
    ASSUME TypeOK, DraftInv, pc = "judge"
    PROVE  Retracted \in Seq(Token) /\ NoDraft(Retracted)
  BY NoDraftEmpty DEF Retracted, DraftInv, TypeOK

LEMMA TokenTypes ==
    /\ Sir \in Token /\ Sir.kind = "sir"
    /\ Close \in Token /\ Close.kind = "close"
    /\ Message \in Token /\ Message.kind = "message"
    /\ \A n \in Nat : Draft(n) \in Token /\ Draft(n).step = n
  BY DEF Sir, Close, Message, Draft, Token

LEMMA ConcatIsAppend ==
    ASSUME NEW s \in Seq(Token), NEW a \in Token, NEW b \in Token
    PROVE  /\ s \o <<a>> = Append(s, a)
           /\ s \o <<a, b>> = Append(Append(s, a), b)
           /\ s \o <<>> = s
           /\ Append(s, a) \in Seq(Token)
  OBVIOUS

LEMMA StreamTextDrafts == TypeOK /\ DraftInv /\ PhaseInv /\ StreamText => DraftInv'
  <1> SUFFICES ASSUME TypeOK, DraftInv, PhaseInv, StreamText
               PROVE  DraftInv'
    OBVIOUS
  <1>1. /\ shown \in Seq(Token) /\ step \in Nat /\ DraftsOf(shown, step)
        /\ ending = "running" /\ pc = "stream"
    BY ConstantsAssumption DEF StreamText, TypeOK, DraftInv, PhaseInv
  <1>2. DraftsOf(shown', step)
    <2>1. CASE sir_started
      <3>1. shown' = Append(shown, Draft(step))
        BY <1>1, <2>1, TokenTypes, ConcatIsAppend DEF StreamText
      <3> QED
        BY <1>1, <3>1, TokenTypes, AppendDraft
    <2>2. CASE ~sir_started
      <3>1. shown' = Append(Append(shown, Sir), Draft(step))
        BY <1>1, <2>2, TokenTypes, ConcatIsAppend DEF StreamText
      <3>2. Append(shown, Sir) \in Seq(Token) /\ DraftsOf(Append(shown, Sir), step)
        BY <1>1, TokenTypes, ConcatIsAppend, AppendDraft
      <3> QED
        BY <1>1, <3>1, <3>2, TokenTypes, AppendDraft
    <2> QED
      BY <2>1, <2>2
  <1> QED
    BY <1>1, <1>2 DEF StreamText, DraftInv, replyVars

LEMMA StreamEndDrafts ==
    ASSUME TypeOK, DraftInv, PhaseInv, NEW calls \in Replies, NEW t \in Texts,
           NEW length \in BOOLEAN, StreamEnd(calls, t, length)
    PROVE  DraftInv'
  <1> DEFINE opens   == ~inline_markup /\ t.body # "none" /\ ~sir_started
             adds    == ~inline_markup /\ t.body = "some" /\ ~emitted_this_step
             visible == emitted_this_step \/ adds
             retract == calls # <<>> /\ visible
             head    == shown \o (IF opens THEN <<Sir>> ELSE <<>>)
  <1>1. /\ shown \in Seq(Token) /\ step \in Nat /\ DraftsOf(shown, step)
        /\ (~emitted_this_step => NoDraft(shown))
        /\ ending = "running" /\ pc = "stream"
    BY ConstantsAssumption DEF StreamEnd, TypeOK, DraftInv, PhaseInv
  <1>2. /\ pc' = IF calls = <<>> THEN "judge" ELSE "tools"
        /\ shown' = IF retract THEN <<>>
                    ELSE head \o (IF adds THEN <<Draft(step)>> ELSE <<>>)
        /\ emitted_this_step' = (visible /\ ~retract)
        /\ text' = t /\ step' = step /\ ending' = ending
    BY DEF StreamEnd, turnVars
  <1>3. head \in Seq(Token) /\ DraftsOf(head, step) /\ (~emitted_this_step => NoDraft(head))
    <2>1. CASE opens
      BY <1>1, <2>1, TokenTypes, ConcatIsAppend, AppendDraft
    <2>2. CASE ~opens
      BY <1>1, <2>2, TokenTypes, ConcatIsAppend
    <2> QED
      BY <2>1, <2>2
  <1> HIDE DEF head
  <1>4. CASE retract
    BY <1>1, <1>2, <1>4, NoDraftEmpty DEF DraftInv
  <1>5. CASE ~retract /\ adds
    <2>1. shown' = Append(head, Draft(step))
      BY <1>2, <1>3, <1>5, <1>1, TokenTypes, ConcatIsAppend
    <2>2. DraftsOf(shown', step)
      BY <2>1, <1>1, <1>3, TokenTypes, AppendDraft
    <2> QED
      BY <1>1, <1>2, <1>5, <2>2 DEF DraftInv
  <1>6. CASE ~retract /\ ~adds
    <2>1. shown' = head
      BY <1>2, <1>3, <1>6, TokenTypes, ConcatIsAppend
    <2> QED
      BY <1>1, <1>2, <1>3, <1>6, <2>1 DEF DraftInv
  <1> QED
    BY <1>4, <1>5, <1>6

LEMMA DraftStep == TypeOK /\ DraftInv /\ PhaseInv /\ [Next]_vars => DraftInv'
  <1> SUFFICES ASSUME TypeOK, DraftInv, PhaseInv, [Next]_vars
               PROVE  DraftInv'
    OBVIOUS
  <1> USE DEF turnVars, gateVars, replyVars
  <1>1. CASE Think
    BY <1>1, NoDraftDrafts DEF Think, DraftInv, PhaseInv
  <1>2. CASE StreamMarker
    BY <1>2, NoDraftEmpty, NoDraftDrafts DEF StreamMarker, DraftInv, PhaseInv
  <1>3. CASE StreamFails \/ NextStep \/ RejectCall \/ StartCall
    BY <1>3 DEF StreamFails, NextStep, RejectCall, StartCall, DraftInv, PhaseInv
  <1>4. ASSUME NEW ok \in BOOLEAN, CallReturns(ok)
        PROVE  DraftInv'
    BY <1>4 DEF CallReturns, DraftInv, PhaseInv
  <1>5. CASE LengthCut
    BY <1>5, RetractedDrafts DEF LengthCut, DraftInv, PhaseInv
  <1>6. ASSUME NEW k \in NudgeKind, Nudge(k)
        PROVE  DraftInv'
    BY <1>6, RetractedDrafts DEF Nudge, DraftInv, PhaseInv
  <1>7. ASSUME NEW k \in NudgeKind, GiveUp(k)
        PROVE  DraftInv'
    <2>1. NoDraft(Append(Retracted, Message))
      <3>1. Retracted \in Seq(Token) /\ NoDraft(Retracted)
        BY <1>7, RetractedDrafts DEF GiveUp
      <3>2. 0 \in Nat
        OBVIOUS
      <3> QED
        BY <3>1, <3>2, TokenTypes, AppendDraft
    <2>2. /\ pc' = "closing" /\ shown' = Append(Retracted, Message)
          /\ ending' \in Failed
      BY <1>7, VerdictOfType DEF GiveUp, Deliver
    <2> QED
      BY <2>1, <2>2 DEF DraftInv, Failed
  <1>8. CASE Accept
    <2>1. /\ pc = "judge" /\ pc' = "closing" /\ step' = step
          /\ IF text.body = "some"
             THEN ending' = "answer" /\ shown' = Append(shown, Close)
             ELSE ending' = "no_answer" /\ shown' = Append(shown, Message)
      BY <1>8 DEF Accept, Deliver
    <2>2. shown \in Seq(Token) /\ step \in Nat /\ DraftsOf(shown, step)
      BY <2>1, ConstantsAssumption DEF DraftInv, TypeOK
    <2>3. CASE text.body = "some"
      <3>1. DraftsOf(Append(shown, Close), step)
        BY <2>2, TokenTypes, AppendDraft
      <3> QED
        BY <2>1, <2>3, <3>1 DEF DraftInv
    <2>4. CASE text.body # "some"
      <3>1. DraftsOf(Append(shown, Message), step)
        BY <2>2, TokenTypes, AppendDraft
      <3> QED
        BY <2>1, <2>4, <3>1 DEF DraftInv
    <2> QED
      BY <2>3, <2>4
  <1>9. CASE StepLimit
    <2>1. NoDraft(<<Message>>)
      BY TokenTypes DEF NoDraft
    <2> QED
      BY <1>9, <2>1 DEF StepLimit, Deliver, DraftInv
  <1>10. CASE Finish \/ Cancel
    BY <1>10 DEF Finish, Cancel, DraftInv
  <1>11. CASE UNCHANGED vars
    BY <1>11 DEF vars, DraftInv
  <1>12. ASSUME NEW calls \in Replies, NEW t \in Texts, NEW length \in BOOLEAN,
                StreamEnd(calls, t, length)
         PROVE  DraftInv'
    BY <1>12, StreamEndDrafts
  <1> QED
    BY <1>1, <1>2, <1>3, <1>4, <1>5, <1>6, <1>7, <1>8, <1>9, <1>10, <1>11, <1>12,
       StreamTextDrafts DEF Next, Progress

(* Once a turn has its verdict, no draft of a reply that a gate sent back is  *)
(* left on screen: draft text is only of the last step, and only if its reply *)
(* passed every gate. It is there also when that reply comes to nothing and   *)
(* the no-answer message is added to it.                                      *)
THEOREM RejectedDraftsAreRetracted == Spec => []NoRetractedDraft
  <1>1. Init => DraftInv
    BY NoDraftEmpty DEF Init, DraftInv
  <1>2. DraftInv => NoRetractedDraft
    BY DEF DraftInv, NoDraft, DraftsOf, NoRetractedDraft
  <1> QED
    BY <1>1, <1>2, DraftStep, TypeCorrect, PhaseCorrect, PTL DEF Spec
=============================================================================
