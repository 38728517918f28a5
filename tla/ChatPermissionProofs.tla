------------------------ MODULE ChatPermissionProofs ------------------------
(* Safety of the approval round trip for any number of chats, capabilities   *)
(* and tool calls: the invariants of ChatPermission as theorems, and that it  *)
(* implements Consent.                                                       *)
EXTENDS ChatPermission, TLAPS

LEMMA AppendFacts ==
    ASSUME NEW S, NEW s \in Seq(S), NEW e \in S
    PROVE  /\ Append(s, e) \in Seq(S)
           /\ Len(s) \in Nat
           /\ Len(Append(s, e)) = Len(s) + 1
           /\ DOMAIN s = 1..Len(s)
           /\ DOMAIN Append(s, e) = 1..(Len(s) + 1)
           /\ \A i \in 1..Len(s) : Append(s, e)[i] = s[i]
           /\ Append(s, e)[Len(s) + 1] = e
  OBVIOUS

LEMMA OneAndNone ==
    ASSUME NEW m \in Nat \ {0}, NEW n \in Nat, m + n <= 1
    PROVE  m = 1 /\ n = 0
  OBVIOUS

LEMMA AtMostOne ==
    ASSUME NEW m \in Nat, NEW n \in Nat, m + n <= 1
    PROVE  0 + n <= 1
  OBVIOUS

LEMMA EmptySeq ==
    ASSUME NEW S, NEW s \in Seq(S), Len(s) = 0
    PROVE  s = <<>>
  OBVIOUS

LEMMA TailFacts ==
    ASSUME NEW S, NEW s \in Seq(S), s # <<>>
    PROVE  /\ Head(s) \in S
           /\ Head(s) = s[1]
           /\ 1 \in DOMAIN s
           /\ Len(s) \in Nat \ {0}
           /\ Tail(s) \in Seq(S)
           /\ DOMAIN Tail(s) = 1..(Len(s) - 1)
           /\ \A i \in DOMAIN Tail(s) : i + 1 \in DOMAIN s /\ Tail(s)[i] = s[i + 1]
  OBVIOUS

LEMMA ExceptFacts ==
    ASSUME NEW S, NEW s \in Seq(S), NEW n \in 1..Len(s), NEW e \in S
    PROVE  /\ [s EXCEPT ![n] = e] \in Seq(S)
           /\ Len([s EXCEPT ![n] = e]) = Len(s)
           /\ DOMAIN [s EXCEPT ![n] = e] = DOMAIN s
           /\ [s EXCEPT ![n] = e][n] = e
           /\ \A i \in DOMAIN s : i # n => [s EXCEPT ![n] = e][i] = s[i]
  OBVIOUS

(* What the two operators that write requests do to the list of one chat. *)
Judged(c, n, verdict) == [reqs[c][n] EXCEPT !.verdict = verdict]
Answered(c, n, say) == [reqs[c][n] EXCEPT !.said = say]

LEMMA RequestFacts ==
    ASSUME TypeOK, NEW c \in Chats, NEW n \in 1..Len(reqs[c])
    PROVE  /\ reqs[c][n] \in Request
           /\ \A v \in Verdict : /\ Judged(c, n, v) \in Request
                                 /\ Judged(c, n, v).verdict = v
                                 /\ Judged(c, n, v).cap = reqs[c][n].cap
                                 /\ Judged(c, n, v).via = reqs[c][n].via
                                 /\ Judged(c, n, v).said = reqs[c][n].said
           /\ \A s \in Said : /\ Answered(c, n, s) \in Request
                              /\ Answered(c, n, s).said = s
                              /\ Answered(c, n, s).cap = reqs[c][n].cap
                              /\ Answered(c, n, s).via = reqs[c][n].via
                              /\ Answered(c, n, s).verdict = reqs[c][n].verdict
  <1>1. reqs[c][n] \in Request
    BY DEF TypeOK
  <1>2. ASSUME NEW v \in Verdict
        PROVE  /\ Judged(c, n, v) \in Request
               /\ Judged(c, n, v).verdict = v
               /\ Judged(c, n, v).cap = reqs[c][n].cap
               /\ Judged(c, n, v).via = reqs[c][n].via
               /\ Judged(c, n, v).said = reqs[c][n].said
    BY <1>1 DEF Request, Judged
  <1>3. ASSUME NEW s \in Said
        PROVE  /\ Answered(c, n, s) \in Request
               /\ Answered(c, n, s).said = s
               /\ Answered(c, n, s).cap = reqs[c][n].cap
               /\ Answered(c, n, s).via = reqs[c][n].via
               /\ Answered(c, n, s).verdict = reqs[c][n].verdict
    BY <1>1 DEF Request, Answered
  <1> QED
    BY <1>1, <1>2, <1>3

LEMMA TypeInit == Init => TypeOK
  BY ConstantsAssumption DEF Init, TypeOK, Last

LEMMA NewRequestType ==
    ASSUME TypeOK, NEW c \in Chats, NEW r \in Request, NewRequest(c, r)
    PROVE  /\ reqs' \in [Chats -> Seq(Request)]
           /\ Len(reqs'[c]) = Len(reqs[c]) + 1
           /\ reqs'[c] = Append(reqs[c], r)
           /\ \A d \in Chats : d # c => reqs'[d] = reqs[d]
           /\ Len(reqs[c]) \in Nat
  BY AppendFacts DEF TypeOK, NewRequest

LEMMA JudgeType ==
    ASSUME TypeOK, NEW c \in Chats, NEW v \in Verdict, Last(c) > 0,
           reqs' = [reqs EXCEPT ![c][Last(c)].verdict = v]
    PROVE  /\ Last(c) \in DOMAIN reqs[c] /\ Last(c) \in Nat
           /\ reqs' \in [Chats -> Seq(Request)]
           /\ reqs'[c] = [reqs[c] EXCEPT ![Last(c)] = Judged(c, Last(c), v)]
           /\ Len(reqs'[c]) = Len(reqs[c])
           /\ \A d \in Chats : d # c => reqs'[d] = reqs[d]
  <1>1. reqs[c] \in Seq(Request) /\ Last(c) \in 1..Len(reqs[c])
    BY DEF TypeOK, Last
  <1>2. reqs' = [reqs EXCEPT ![c] = [reqs[c] EXCEPT ![Last(c)] = Judged(c, Last(c), v)]]
    BY <1>1 DEF TypeOK, Judged
  <1>3. Judged(c, Last(c), v) \in Request
    BY <1>1, RequestFacts DEF TypeOK
  <1>4. [reqs[c] EXCEPT ![Last(c)] = Judged(c, Last(c), v)] \in Seq(Request)
    BY <1>1, <1>3, ExceptFacts
  <1>5. Len([reqs[c] EXCEPT ![Last(c)] = Judged(c, Last(c), v)]) = Len(reqs[c])
    BY <1>1, <1>3, ExceptFacts
  <1> DEFINE new == [reqs[c] EXCEPT ![Last(c)] = Judged(c, Last(c), v)]
  <1>6. /\ reqs' \in [Chats -> Seq(Request)]
        /\ reqs'[c] = new
        /\ \A d \in Chats : d # c => reqs'[d] = reqs[d]
    <2>1. reqs' = [reqs EXCEPT ![c] = new] /\ new \in Seq(Request)
      BY <1>2, <1>4
    <2>2. reqs \in [Chats -> Seq(Request)]
      BY DEF TypeOK
    <2> HIDE DEF new
    <2> QED
      BY <2>1, <2>2
  <1>7. Len(reqs'[c]) = Len(reqs[c])
    BY <1>5, <1>6
  <1>8. Last(c) \in DOMAIN reqs[c] /\ Last(c) \in Nat
    BY <1>1
  <1> QED
    BY <1>6, <1>7, <1>8

(* The requests of every chat only grow; what was asked for stays, and what  *)
(* an owner said once stays said.                                            *)
Grows ==
    \A d \in Chats :
        /\ Len(reqs[d]) <= Len(reqs'[d])
        /\ \A n \in DOMAIN reqs[d] :
               /\ n \in DOMAIN reqs'[d]
               /\ reqs'[d][n].cap = reqs[d][n].cap
               /\ reqs'[d][n].via = reqs[d][n].via
               /\ reqs[d][n].said # "nothing" => reqs'[d][n].said = reqs[d][n].said

LEMMA GrantedStays ==
    ASSUME TypeOK, Grows, NEW k \in Caps, Granted(k)
    PROVE  Granted(k)'
  BY DEF Granted, Grows

LEMMA NewRequestGrows ==
    ASSUME TypeOK, NEW c \in Chats, NEW r \in Request, NewRequest(c, r)
    PROVE  /\ Grows
           /\ Len(reqs[c]) + 1 \in DOMAIN reqs'[c]
           /\ reqs'[c][Len(reqs[c]) + 1] = r
           /\ DOMAIN reqs'[c] = 1..(Len(reqs[c]) + 1)
           /\ \A n \in DOMAIN reqs[c] : reqs'[c][n] = reqs[c][n]
  <1>1. /\ reqs'[c] = Append(reqs[c], r) /\ Len(reqs[c]) \in Nat
        /\ \A d \in Chats : d # c => reqs'[d] = reqs[d]
    BY NewRequestType
  <1>2. \A d \in Chats : Len(reqs[d]) \in Nat
    BY DEF TypeOK
  <1>3. reqs[c] \in Seq(Request)
    BY DEF TypeOK
  <1>4. /\ Len(reqs'[c]) = Len(reqs[c]) + 1
        /\ DOMAIN reqs[c] = 1..Len(reqs[c])
        /\ DOMAIN reqs'[c] = 1..(Len(reqs[c]) + 1)
        /\ \A n \in 1..Len(reqs[c]) : reqs'[c][n] = reqs[c][n]
        /\ reqs'[c][Len(reqs[c]) + 1] = r
    BY <1>1, <1>3, AppendFacts
  <1>5. Grows
    <2>1. ASSUME NEW d \in Chats, d # c
          PROVE  reqs'[d] = reqs[d] /\ Len(reqs[d]) <= Len(reqs[d])
      BY <1>1, <1>2, <2>1
    <2>2. /\ Len(reqs[c]) <= Len(reqs'[c])
          /\ \A n \in DOMAIN reqs[c] : n \in DOMAIN reqs'[c] /\ reqs'[c][n] = reqs[c][n]
      BY <1>2, <1>4
    <2>3. ASSUME NEW d \in Chats
          PROVE  /\ Len(reqs[d]) <= Len(reqs'[d])
                 /\ \A n \in DOMAIN reqs[d] : n \in DOMAIN reqs'[d] /\ reqs'[d][n] = reqs[d][n]
      <3>1. CASE d = c
        BY <2>2, <3>1
      <3>2. CASE d # c
        BY <2>1, <3>2
      <3> QED
        BY <3>1, <3>2
    <2> QED
      BY <2>3 DEF Grows
  <1> QED
    BY <1>1, <1>4, <1>5

LEMMA JudgeGrows ==
    ASSUME TypeOK, NEW c \in Chats, NEW v \in Verdict, Last(c) > 0,
           reqs' = [reqs EXCEPT ![c][Last(c)].verdict = v]
    PROVE  /\ Grows
           /\ Last(c) \in DOMAIN reqs[c]
           /\ \A d \in Chats : DOMAIN reqs'[d] = DOMAIN reqs[d]
           /\ reqs'[c][Last(c)].verdict = v
           /\ reqs'[c][Last(c)].said = reqs[c][Last(c)].said
           /\ \A n \in DOMAIN reqs[c] : n # Last(c) => reqs'[c][n] = reqs[c][n]
           /\ \A d \in Chats : \A n \in DOMAIN reqs[d] : reqs'[d][n].said = reqs[d][n].said
  <1>1. /\ Last(c) \in DOMAIN reqs[c] /\ Last(c) \in Nat
        /\ reqs'[c] = [reqs[c] EXCEPT ![Last(c)] = Judged(c, Last(c), v)]
        /\ Len(reqs'[c]) = Len(reqs[c])
        /\ \A d \in Chats : d # c => reqs'[d] = reqs[d]
    BY JudgeType
  <1>2. Last(c) \in 1..Len(reqs[c]) /\ reqs[c] \in Seq(Request)
    BY <1>1 DEF TypeOK
  <1>3. /\ Judged(c, Last(c), v) \in Request
        /\ Judged(c, Last(c), v).verdict = v
        /\ Judged(c, Last(c), v).cap = reqs[c][Last(c)].cap
        /\ Judged(c, Last(c), v).via = reqs[c][Last(c)].via
        /\ Judged(c, Last(c), v).said = reqs[c][Last(c)].said
    BY <1>2, RequestFacts
  <1>4. /\ DOMAIN reqs'[c] = DOMAIN reqs[c]
        /\ reqs'[c][Last(c)] = Judged(c, Last(c), v)
        /\ \A n \in DOMAIN reqs[c] : n # Last(c) => reqs'[c][n] = reqs[c][n]
    BY <1>1, <1>2, <1>3, ExceptFacts
  <1>5. \A d \in Chats : Len(reqs[d]) \in Nat /\ Len(reqs[d]) <= Len(reqs[d])
    BY DEF TypeOK
  <1>6. \A d \in Chats : Len(reqs[d]) <= Len(reqs'[d]) /\ DOMAIN reqs'[d] = DOMAIN reqs[d]
    BY <1>1, <1>4, <1>5
  <1>7. \A d \in Chats : \A n \in DOMAIN reqs[d] :
            /\ reqs'[d][n].cap = reqs[d][n].cap
            /\ reqs'[d][n].via = reqs[d][n].via
            /\ reqs'[d][n].said = reqs[d][n].said
    BY <1>1, <1>3, <1>4
  <1>8. Grows
    BY <1>6, <1>7 DEF Grows
  <1> QED
    BY <1>1, <1>3, <1>4, <1>6, <1>7, <1>8

(* The owner's answer to request n of chat c, and nothing else, is recorded. *)
OwnerSays(c, n, say) == reqs' = [reqs EXCEPT ![c][n].said = say]

LEMMA AnswerGrows ==
    ASSUME TypeOK, NEW c \in Chats, NEW n \in 1..Len(reqs[c]), NEW say \in Said,
           reqs[c][n].said = "nothing",
           OwnerSays(c, n, say)
    PROVE  /\ Grows
           /\ reqs' \in [Chats -> Seq(Request)]
           /\ \A d \in Chats : DOMAIN reqs'[d] = DOMAIN reqs[d]
           /\ reqs'[c][n].said = say
           /\ \A i \in DOMAIN reqs[c] : i # n => reqs'[c][i] = reqs[c][i]
           /\ \A d \in Chats : \A i \in DOMAIN reqs[d] : reqs'[d][i].verdict = reqs[d][i].verdict
  <1> DEFINE new == [reqs[c] EXCEPT ![n] = Answered(c, n, say)]
  <1>1. reqs[c] \in Seq(Request) /\ reqs \in [Chats -> Seq(Request)]
    BY DEF TypeOK
  <1>2. /\ Answered(c, n, say) \in Request
        /\ Answered(c, n, say).said = say
        /\ Answered(c, n, say).cap = reqs[c][n].cap
        /\ Answered(c, n, say).via = reqs[c][n].via
        /\ Answered(c, n, say).verdict = reqs[c][n].verdict
    BY RequestFacts
  <1>3. /\ reqs' \in [Chats -> Seq(Request)]
        /\ reqs'[c] = new
        /\ Len(reqs'[c]) = Len(reqs[c])
        /\ \A d \in Chats : d # c => reqs'[d] = reqs[d]
    <2>1. reqs' = [reqs EXCEPT ![c] = new]
      BY <1>1 DEF Answered, OwnerSays
    <2>2. new \in Seq(Request) /\ Len(new) = Len(reqs[c])
      BY <1>1, <1>2, ExceptFacts
    <2> HIDE DEF new
    <2> QED
      BY <1>1, <2>1, <2>2
  <1>4. /\ DOMAIN reqs'[c] = DOMAIN reqs[c]
        /\ reqs'[c][n] = Answered(c, n, say)
        /\ \A i \in DOMAIN reqs[c] : i # n => reqs'[c][i] = reqs[c][i]
    BY <1>1, <1>2, <1>3, ExceptFacts
  <1>5. \A d \in Chats : Len(reqs[d]) \in Nat /\ Len(reqs[d]) <= Len(reqs[d])
    BY DEF TypeOK
  <1>6. \A d \in Chats : Len(reqs[d]) <= Len(reqs'[d]) /\ DOMAIN reqs'[d] = DOMAIN reqs[d]
    BY <1>3, <1>4, <1>5
  <1>7. \A d \in Chats : \A i \in DOMAIN reqs[d] :
            /\ reqs'[d][i].cap = reqs[d][i].cap
            /\ reqs'[d][i].via = reqs[d][i].via
            /\ reqs'[d][i].verdict = reqs[d][i].verdict
            /\ reqs[d][i].said # "nothing" => reqs'[d][i].said = reqs[d][i].said
    BY <1>2, <1>3, <1>4
  <1>8. Grows
    BY <1>6, <1>7 DEF Grows
  <1> QED
    BY <1>2, <1>3, <1>4, <1>6, <1>7, <1>8

-----------------------------------------------------------------------------
(* The inductive invariant.  A prompt that is still open was not answered;    *)
(* an answer in the socket says what the owner said to the prompt it names;   *)
(* an allow rule was granted; a client with its own deadline has at most one  *)
(* prompt or one answer under way, and it is for the current request.         *)
PromptsOpen ==
    \A c \in Chats : \A i \in DOMAIN prompts[c] :
        /\ prompts[c][i] \in DOMAIN reqs[c]
        /\ reqs[c][prompts[c][i]].said = "nothing"
        /\ \A j \in DOMAIN prompts[c] : prompts[c][i] = prompts[c][j] => i = j

Truthful(c, a) ==
    /\ a.id \in DOMAIN reqs[c]
    /\ reqs[c][a.id].said # "nothing"
    /\ a.allow => reqs[c][a.id].said \in {"yes", "always"}
    /\ ~a.allow => reqs[c][a.id].said = "no"
    /\ a.remember => reqs[c][a.id].said = "always"

AnswersTruthful ==
    \A c \in Chats : \A i \in DOMAIN inbox[c] : Truthful(c, inbox[c][i])

RulesGranted == \A k \in Caps : rules[k] = "allow" => Granted(k)

UnderWay(c) ==
    /\ turn[c] \in {"busy", "acting"} => prompts[c] = <<>> /\ inbox[c] = <<>>
    /\ turn[c] = "asking" =>
           /\ \A i \in DOMAIN prompts[c] : prompts[c][i] = Last(c)
           /\ \A i \in DOMAIN inbox[c] : inbox[c][i].id = Last(c)
           /\ Len(prompts[c]) + Len(inbox[c]) <= 1
    /\ ~peer[c] => prompts[c] = <<>>

OneUnderWay == \A c \in Chats \ Patient : UnderWay(c)

RanIsAudited ==
    \A c \in Chats :
        /\ turn[c] = "acting" => reqs[c][Last(c)].verdict = "ran"
        /\ \A n \in audit[c] : n \in DOMAIN reqs[c] /\ reqs[c][n].verdict # "open"
        /\ \A n \in DOMAIN reqs[c] :
               reqs[c][n].verdict = "ran" =>
                   n \in audit[c] \/ (turn[c] \in {"acting", "closed"} /\ n = Last(c))

IInv ==
    /\ TypeOK
    /\ PromptsOpen
    /\ AnswersTruthful
    /\ RulesGranted
    /\ OnlyApprovedRuns
    /\ OneUnderWay
    /\ AnswersReachTheirPrompt
    /\ RanIsAudited

(* What every step that only lets the requests grow keeps. *)
LEMMA OpenStays ==
    ASSUME TypeOK, PromptsOpen, Grows,
           \A c \in Chats : prompts'[c] = prompts[c] \/ prompts'[c] = <<>>,
           \A c \in Chats : \A n \in DOMAIN reqs[c] : reqs'[c][n].said = reqs[c][n].said
    PROVE  PromptsOpen'
  BY DEF PromptsOpen, Grows

LEMMA TruthStays ==
    ASSUME TypeOK, AnswersTruthful, Grows,
           \A c \in Chats : \A i \in DOMAIN inbox'[c] :
               Truthful(c, inbox[c][i])' \/ \E j \in DOMAIN inbox[c] : inbox'[c][i] = inbox[c][j]
    PROVE  AnswersTruthful'
  <1> SUFFICES ASSUME NEW c \in Chats, NEW i \in DOMAIN inbox'[c],
                      NEW j \in DOMAIN inbox[c], inbox'[c][i] = inbox[c][j]
               PROVE  Truthful(c, inbox[c][i])'
    BY DEF AnswersTruthful
  <1>1. Truthful(c, inbox[c][j])
    BY DEF AnswersTruthful
  <1> QED
    BY <1>1 DEF Truthful, Grows

LEMMA GrantsStay ==
    ASSUME TypeOK, RulesGranted, Grows,
           \A k \in Caps : rules'[k] = "allow" => rules[k] = "allow" \/ Granted(k)'
    PROVE  RulesGranted'
  BY GrantedStays DEF RulesGranted

LEMMA ApprovalStays ==
    ASSUME TypeOK, OnlyApprovedRuns, Grows, remote' = remote,
           \A c \in Chats : \A n \in DOMAIN reqs'[c] :
               reqs'[c][n].verdict = "ran" =>
                   \/ n \in DOMAIN reqs[c] /\ reqs[c][n].verdict = "ran"
                   \/ reqs'[c][n].said \in {"yes", "always"}
                   \/ c \notin remote /\ Granted(reqs[c][n].cap)'
    PROVE  OnlyApprovedRuns'
  <1> SUFFICES ASSUME NEW c \in Chats, NEW n \in DOMAIN reqs[c],
                      n \in DOMAIN reqs'[c], reqs[c][n].verdict = "ran"
               PROVE  \/ reqs'[c][n].said \in {"yes", "always"}
                      \/ c \notin remote /\ Granted(reqs[c][n].cap)'
    BY DEF OnlyApprovedRuns
  <1>1. CASE reqs[c][n].said \in {"yes", "always"}
    BY <1>1 DEF Grows
  <1>2. CASE c \notin remote /\ Granted(reqs[c][n].cap)
    <2>1. reqs[c][n] \in Request
      BY DEF TypeOK
    <2>2. reqs[c][n].cap \in Caps
      BY <2>1 DEF Request
    <2>3. reqs'[c][n].cap = reqs[c][n].cap
      BY DEF Grows
    <2> QED
      BY <1>2, <2>2, <2>3, GrantedStays
  <1> QED
    BY <1>1, <1>2 DEF OnlyApprovedRuns

-----------------------------------------------------------------------------
(* A request decided without asking, and one whose prompt cannot be written. *)
LEMMA UnaskedStep ==
    ASSUME IInv, NEW c \in Chats, NEW r \in Request, NewRequest(c, r),
           turn[c] = "busy",
           r.verdict # "open",
           r.via = "rule" \/ r.verdict = "lost",
           r.verdict = "ran" => /\ c \notin remote
                                /\ rules[r.cap] = "allow"
                                /\ turn' = [turn EXCEPT ![c] = "acting"]
                                /\ audit' = audit,
           r.verdict # "ran" => /\ turn' = turn
                                /\ \/ audit' = audit
                                   \/ audit' = [audit EXCEPT ![c] = @ \cup {Last(c) + 1}],
           UNCHANGED <<remote, rules, prompts, inbox, peer>>
    PROVE  IInv'
  <1> DEFINE N == Len(reqs[c]) + 1
  <1>1. /\ reqs' \in [Chats -> Seq(Request)] /\ Len(reqs'[c]) = N
        /\ Len(reqs[c]) \in Nat
        /\ \A d \in Chats : d # c => reqs'[d] = reqs[d]
    BY NewRequestType DEF IInv
  <1>2. /\ Grows /\ reqs'[c][N] = r /\ DOMAIN reqs'[c] = 1..N /\ N \in DOMAIN reqs'[c]
        /\ \A n \in DOMAIN reqs[c] : reqs'[c][n] = reqs[c][n]
    BY NewRequestGrows DEF IInv
  <1>3. DOMAIN reqs[c] = 1..Len(reqs[c])
    BY DEF IInv, TypeOK
  <1>4. TypeOK'
    <2>1. \A d \in Chats : turn'[d] \in {"asking", "acting"} => Len(reqs'[d]) > 0
      <3>1. ASSUME NEW d \in Chats, d # c, turn'[d] \in {"asking", "acting"}
            PROVE  Len(reqs'[d]) > 0
        <4>1. turn'[d] = turn[d]
          BY <3>1 DEF IInv, TypeOK
        <4> QED
          BY <1>1, <3>1, <4>1 DEF IInv, TypeOK, Last
      <3> QED
        BY <1>1, <3>1
    <2>2. turn' \in [Chats -> {"busy", "asking", "acting", "closed"}]
      BY DEF IInv, TypeOK
    <2>3. audit' \in [Chats -> SUBSET Nat]
      <3>1. CASE audit' = audit
        BY <3>1 DEF IInv, TypeOK
      <3>2. CASE audit' = [audit EXCEPT ![c] = @ \cup {Last(c) + 1}]
        <4>1. Last(c) + 1 \in Nat
          BY <1>1 DEF Last
        <4> QED
          BY <3>2, <4>1 DEF IInv, TypeOK
      <3> QED
        BY <3>1, <3>2
    <2> QED
      BY <1>1, <2>1, <2>2, <2>3 DEF IInv, TypeOK, Last
  <1>5. PromptsOpen'
    <2>1. \A d \in Chats : \A n \in DOMAIN reqs[d] : reqs'[d][n].said = reqs[d][n].said
      BY <1>1, <1>2
    <2> QED
      BY <1>2, <2>1, OpenStays DEF IInv
  <1>6. AnswersTruthful'
    BY <1>2, TruthStays DEF IInv
  <1>7. RulesGranted'
    BY <1>2, GrantsStay DEF IInv
  <1>8. OnlyApprovedRuns'
    <2>1. r.verdict = "ran" => Granted(r.cap)'
      <3>1. r.verdict = "ran" => r.cap \in Caps /\ Granted(r.cap)
        BY DEF IInv, RulesGranted, Request
      <3> QED
        BY <1>2, <3>1, GrantedStays DEF IInv
    <2>2. ASSUME NEW d \in Chats, NEW n \in DOMAIN reqs'[d], reqs'[d][n].verdict = "ran"
          PROVE  \/ n \in DOMAIN reqs[d] /\ reqs[d][n].verdict = "ran"
                 \/ d \notin remote /\ Granted(reqs[d][n].cap)'
      <3>1. CASE d = c /\ n = N
        BY <1>2, <2>1, <2>2, <3>1
      <3>2. CASE d = c /\ n # N
        BY <1>1, <1>2, <1>3, <2>2, <3>2
      <3>3. CASE d # c
        BY <1>1, <2>2, <3>3
      <3> QED
        BY <3>1, <3>2, <3>3
    <2> QED
      BY <1>2, <2>2, ApprovalStays DEF IInv
  <1>9. OneUnderWay'
    <2>1. \A d \in Chats : d # c => turn'[d] = turn[d] /\ reqs'[d] = reqs[d]
      BY <1>1 DEF IInv, TypeOK
    <2>2. turn'[c] \in {"busy", "acting"}
      BY DEF IInv, TypeOK
    <2> QED
      BY <2>1, <2>2 DEF IInv, OneUnderWay, UnderWay, Last
  <1>10. AnswersReachTheirPrompt'
    <2>1. ASSUME NEW d \in Chats \ Patient, NEW n \in DOMAIN reqs'[d]
          PROVE  RefusedByOwner(d, n)'
      <3>1. CASE d = c /\ n = N
        BY <1>2, <3>1 DEF RefusedByOwner
      <3>2. CASE d = c /\ n # N
        BY <1>1, <1>2, <1>3, <2>1, <3>2 DEF RefusedByOwner, IInv, AnswersReachTheirPrompt
      <3>3. CASE d # c
        BY <1>1, <2>1, <3>3 DEF RefusedByOwner, IInv, AnswersReachTheirPrompt
      <3> QED
        BY <3>1, <3>2, <3>3
    <2> QED
      BY <2>1 DEF AnswersReachTheirPrompt
  <1>11. RanIsAudited'
    <2>1. ASSUME NEW d \in Chats, d # c
          PROVE  turn'[d] = turn[d] /\ audit'[d] = audit[d] /\ reqs'[d] = reqs[d]
      BY <1>1, <2>1 DEF IInv, TypeOK
    <2>2. /\ audit'[c] = audit[c] \/ (audit'[c] = audit[c] \cup {N} /\ r.verdict # "ran")
          /\ turn'[c] = (IF r.verdict = "ran" THEN "acting" ELSE "busy")
      BY DEF IInv, TypeOK, Last
    <2>3. \A n \in audit'[c] : n \in DOMAIN reqs'[c] /\ reqs'[c][n].verdict # "open"
      BY <1>2, <1>3, <2>2 DEF IInv, RanIsAudited, Grows
    <2>4. \A n \in DOMAIN reqs'[c] :
              reqs'[c][n].verdict = "ran" =>
                  n \in audit'[c] \/ (turn'[c] \in {"acting", "closed"} /\ n = Len(reqs'[c]))
      <3>1. \A n \in DOMAIN reqs[c] : reqs[c][n].verdict = "ran" => n \in audit[c]
        BY DEF IInv, RanIsAudited
      <3> QED
        BY <1>1, <1>2, <1>3, <2>2, <3>1
    <2>5. turn'[c] = "acting" => reqs'[c][Len(reqs'[c])].verdict = "ran"
      BY <1>1, <1>2, <2>2
    <2> QED
      BY <2>1, <2>3, <2>4, <2>5 DEF IInv, RanIsAudited, Last
  <1> QED
    BY <1>4, <1>5, <1>6, <1>7, <1>8, <1>9, <1>10, <1>11 DEF IInv

LEMMA AskStep ==
    ASSUME IInv, NEW c \in Chats, NEW k \in Caps, Ask(c, k)
    PROVE  IInv'
  <1> DEFINE N == Len(reqs[c]) + 1
             r == [cap |-> k, via |-> "owner", said |-> "nothing", verdict |-> "open"]
  <1>1. r \in Request /\ r.said = "nothing" /\ r.verdict = "open"
    BY DEF Request, Said, Verdict
  <1>2. NewRequest(c, r) /\ turn[c] = "busy" /\ Last(c) + 1 = N
    BY DEF Ask, CanRequest, Last
  <1> HIDE DEF r
  <1>3. /\ reqs' \in [Chats -> Seq(Request)] /\ Len(reqs'[c]) = N
        /\ Len(reqs[c]) \in Nat
        /\ \A d \in Chats : d # c => reqs'[d] = reqs[d]
    BY <1>1, <1>2, NewRequestType DEF IInv
  <1>4. /\ Grows /\ reqs'[c][N] = r /\ DOMAIN reqs'[c] = 1..N /\ N \in DOMAIN reqs'[c]
        /\ \A n \in DOMAIN reqs[c] : reqs'[c][n] = reqs[c][n]
    BY <1>1, <1>2, NewRequestGrows DEF IInv
  <1>5. DOMAIN reqs[c] = 1..Len(reqs[c])
    BY DEF IInv, TypeOK
  <1>6. /\ prompts[c] \in Seq(Nat) /\ N \in Nat
        /\ prompts'[c] = Append(prompts[c], N)
        /\ prompts' = [prompts EXCEPT ![c] = Append(@, N)]
    <2>1. prompts' = [prompts EXCEPT ![c] = Append(@, N)]
      BY <1>2 DEF Ask
    <2>2. prompts \in [Chats -> Seq(Nat)]
      BY DEF IInv, TypeOK
    <2> QED
      BY <1>3, <2>1, <2>2
  <1>7. \A d \in Chats : d # c =>
            prompts'[d] = prompts[d] /\ turn'[d] = turn[d] /\ reqs'[d] = reqs[d]
    BY <1>3, <1>6 DEF Ask, IInv, TypeOK
  <1>8. turn' = [turn EXCEPT ![c] = "asking"] /\ turn'[c] = "asking"
    BY DEF Ask, IInv, TypeOK
  <1>9. UNCHANGED <<remote, rules, inbox, peer, audit>>
    BY DEF Ask
  <1>10. TypeOK'
    <2>1. prompts' \in [Chats -> Seq(Nat)] /\ turn' \in [Chats -> {"busy", "asking", "acting", "closed"}]
      BY <1>6, <1>8, AppendFacts DEF IInv, TypeOK
    <2>2. ASSUME NEW d \in Chats, turn'[d] \in {"asking", "acting"}
          PROVE  Len(reqs'[d]) > 0
      <3>1. CASE d = c
        BY <1>3, <3>1
      <3>2. CASE d # c
        BY <1>7, <2>2, <3>2 DEF IInv, TypeOK, Last
      <3> QED
        BY <3>1, <3>2
    <2> QED
      BY <1>3, <1>9, <2>1, <2>2 DEF IInv, TypeOK, Last
  <1>11. PromptsOpen'
    <2>1. /\ DOMAIN prompts'[c] = 1..(Len(prompts[c]) + 1)
          /\ DOMAIN prompts[c] = 1..Len(prompts[c])
          /\ Len(prompts[c]) \in Nat
          /\ \A i \in 1..Len(prompts[c]) : prompts'[c][i] = prompts[c][i]
          /\ prompts'[c][Len(prompts[c]) + 1] = N
      BY <1>6, AppendFacts
    <2>2. \A i \in DOMAIN prompts[c] : prompts[c][i] \in 1..Len(reqs[c])
      BY <1>5 DEF IInv, PromptsOpen
    <2>3. ASSUME NEW i \in DOMAIN prompts'[c]
          PROVE  prompts'[c][i] \in DOMAIN reqs'[c] /\ reqs'[c][prompts'[c][i]].said = "nothing"
      <3>1. CASE i = Len(prompts[c]) + 1
        BY <1>1, <1>4, <2>1, <3>1
      <3>2. CASE i # Len(prompts[c]) + 1
        <4>1. i \in DOMAIN prompts[c] /\ prompts'[c][i] = prompts[c][i]
          BY <2>1, <3>2
        <4>2. prompts[c][i] \in DOMAIN reqs[c] /\ reqs[c][prompts[c][i]].said = "nothing"
          BY <4>1 DEF IInv, PromptsOpen
        <4>3. DOMAIN reqs[c] \subseteq DOMAIN reqs'[c]
          BY <1>3, <1>4, <1>5
        <4> QED
          BY <1>4, <4>1, <4>2, <4>3
      <3> QED
        BY <3>1, <3>2
    <2>4. ASSUME NEW i \in DOMAIN prompts'[c], NEW j \in DOMAIN prompts'[c],
                 prompts'[c][i] = prompts'[c][j]
          PROVE  i = j
      <3>1. CASE i = Len(prompts[c]) + 1 \/ j = Len(prompts[c]) + 1
        <4>1. \A x \in 1..Len(prompts[c]) : prompts'[c][x] # N
          <5> SUFFICES ASSUME NEW x \in 1..Len(prompts[c]) PROVE prompts'[c][x] # N
            OBVIOUS
          <5>1. prompts'[c][x] = prompts[c][x] /\ prompts[c][x] \in 1..Len(reqs[c])
            BY <2>1, <2>2
          <5> QED
            BY <1>3, <5>1
        <4>2. \A x \in DOMAIN prompts'[c] : prompts'[c][x] = N => x = Len(prompts[c]) + 1
          BY <2>1, <4>1
        <4>3. prompts'[c][i] = N /\ prompts'[c][j] = N
          BY <2>1, <2>4, <3>1
        <4> QED
          BY <4>2, <4>3
      <3>2. CASE i # Len(prompts[c]) + 1 /\ j # Len(prompts[c]) + 1
        BY <2>1, <2>4, <3>2 DEF IInv, PromptsOpen
      <3> QED
        BY <3>1, <3>2
    <2> QED
      BY <1>7, <2>3, <2>4 DEF IInv, PromptsOpen
  <1>12. AnswersTruthful'
    BY <1>4, <1>9, TruthStays DEF IInv
  <1>13. RulesGranted'
    BY <1>4, <1>9, GrantsStay DEF IInv
  <1>14. OnlyApprovedRuns'
    <2>1. ASSUME NEW d \in Chats, NEW n \in DOMAIN reqs'[d], reqs'[d][n].verdict = "ran"
          PROVE  n \in DOMAIN reqs[d] /\ reqs[d][n].verdict = "ran"
      BY <1>1, <1>3, <1>4, <1>5, <1>7, <2>1
    <2> QED
      BY <1>4, <1>9, <2>1, ApprovalStays DEF IInv
  <1>15. OneUnderWay'
    <2>1. ASSUME c \notin Patient
          PROVE  UnderWay(c)'
      <3>1. prompts[c] = <<>> /\ inbox'[c] = <<>>
        BY <1>2, <1>9, <2>1 DEF IInv, OneUnderWay, UnderWay
      <3>2. prompts'[c] = Append(<<>>, N)
        BY <1>6, <3>1
      <3>3. /\ \A i \in DOMAIN prompts'[c] : prompts'[c][i] = N
            /\ \A i \in DOMAIN inbox'[c] : inbox'[c][i].id = N
            /\ Len(prompts'[c]) + Len(inbox'[c]) <= 1
        BY <1>6, <3>1, <3>2
      <3> QED
        BY <1>3, <1>8, <1>9, <3>3 DEF UnderWay, Last, Ask
    <2>2. ASSUME NEW d \in Chats \ Patient, d # c
          PROVE  UnderWay(d)'
      <3>1. UnderWay(d)
        BY DEF IInv, OneUnderWay
      <3> QED
        BY <1>7, <1>9, <2>2, <3>1 DEF UnderWay, Last
    <2> QED
      BY <2>1, <2>2 DEF OneUnderWay
  <1>16. AnswersReachTheirPrompt'
    <2>1. ASSUME NEW d \in Chats \ Patient, NEW n \in DOMAIN reqs'[d]
          PROVE  RefusedByOwner(d, n)'
      <3>1. CASE d = c /\ n = N
        BY <1>1, <1>4, <3>1 DEF RefusedByOwner
      <3>2. CASE d = c /\ n # N
        BY <1>3, <1>4, <1>5, <2>1, <3>2 DEF RefusedByOwner, IInv, AnswersReachTheirPrompt
      <3>3. CASE d # c
        BY <1>7, <2>1, <3>3 DEF RefusedByOwner, IInv, AnswersReachTheirPrompt
      <3> QED
        BY <3>1, <3>2, <3>3
    <2> QED
      BY <2>1 DEF AnswersReachTheirPrompt
  <1>17. RanIsAudited'
    <2>1. \A n \in audit'[c] : n \in DOMAIN reqs'[c] /\ reqs'[c][n].verdict # "open"
      BY <1>4, <1>9 DEF IInv, RanIsAudited, Grows
    <2>2. \A n \in DOMAIN reqs'[c] : reqs'[c][n].verdict = "ran" => n \in audit'[c]
      BY <1>1, <1>2, <1>4, <1>5, <1>9 DEF IInv, RanIsAudited
    <2> QED
      BY <1>7, <1>8, <1>9, <2>1, <2>2 DEF IInv, RanIsAudited, Last
  <1> QED
    BY <1>10, <1>11, <1>12, <1>13, <1>14, <1>15, <1>16, <1>17 DEF IInv

(* A prompt ends without its action running. *)
LEMMA SettleStep ==
    ASSUME IInv, NEW c \in Chats, NEW v \in {"refused", "expired", "lost"},
           turn[c] = "asking", Settle(c, v),
           UNCHANGED <<remote, rules, prompts, peer>>,
           \/ inbox' = inbox
           \/ inbox[c] # <<>> /\ inbox' = [inbox EXCEPT ![c] = Tail(@)],
           c \notin Patient => prompts[c] = <<>> /\ inbox'[c] = <<>>,
           c \notin Patient /\ v = "refused" => reqs[c][Last(c)].said = "no"
    PROVE  IInv'
  <1>1. /\ v \in Verdict /\ Last(c) > 0
        /\ reqs' = [reqs EXCEPT ![c][Last(c)].verdict = v]
        /\ turn' = [turn EXCEPT ![c] = "busy"]
    BY DEF IInv, TypeOK, Settle, Verdict
  <1>2. /\ Last(c) \in Nat
        /\ reqs' \in [Chats -> Seq(Request)]
        /\ Len(reqs'[c]) = Len(reqs[c])
        /\ \A d \in Chats : d # c => reqs'[d] = reqs[d]
    BY <1>1, JudgeType DEF IInv
  <1>3. /\ Grows
        /\ Last(c) \in DOMAIN reqs[c]
        /\ \A d \in Chats : DOMAIN reqs'[d] = DOMAIN reqs[d]
        /\ reqs'[c][Last(c)].verdict = v
        /\ reqs'[c][Last(c)].said = reqs[c][Last(c)].said
        /\ \A n \in DOMAIN reqs[c] : n # Last(c) => reqs'[c][n] = reqs[c][n]
        /\ \A d \in Chats : \A n \in DOMAIN reqs[d] : reqs'[d][n].said = reqs[d][n].said
    BY <1>1, JudgeGrows DEF IInv
  <1>4. \A d \in Chats : d # c =>
            /\ turn'[d] = turn[d] /\ inbox'[d] = inbox[d]
            /\ audit'[d] = audit[d] /\ reqs'[d] = reqs[d]
    BY <1>1, <1>2 DEF IInv, TypeOK, Settle, AuditRow
  <1>5. turn'[c] = "busy"
    BY <1>1 DEF IInv, TypeOK
  <1>6. audit'[c] = audit[c] \/ audit'[c] = audit[c] \cup {Last(c)}
    BY DEF IInv, TypeOK, Settle, AuditRow
  <1>7. inbox' \in [Chats -> Seq(Answer)]
    <2>1. inbox \in [Chats -> Seq(Answer)] /\ inbox[c] \in Seq(Answer)
      BY DEF IInv, TypeOK
    <2>2. inbox[c] # <<>> => Tail(inbox[c]) \in Seq(Answer)
      BY <2>1, TailFacts
    <2> QED
      BY <2>1, <2>2
  <1>8. TypeOK'
    <2>1. audit' \in [Chats -> SUBSET Nat]
      BY <1>2 DEF IInv, TypeOK, Settle, AuditRow
    <2>2. turn' \in [Chats -> {"busy", "asking", "acting", "closed"}]
      BY <1>1 DEF IInv, TypeOK
    <2>3. ASSUME NEW d \in Chats, turn'[d] \in {"asking", "acting"}
          PROVE  Len(reqs'[d]) > 0
      BY <1>4, <1>5, <2>3 DEF IInv, TypeOK, Last
    <2> QED
      BY <1>2, <1>7, <2>1, <2>2, <2>3 DEF IInv, TypeOK, Last
  <1>9. PromptsOpen'
    BY <1>3, OpenStays DEF IInv
  <1>10. AnswersTruthful'
    <2>1. ASSUME NEW d \in Chats, NEW i \in DOMAIN inbox'[d]
          PROVE  \E j \in DOMAIN inbox[d] : inbox'[d][i] = inbox[d][j]
      <3>1. CASE inbox'[d] = inbox[d]
        BY <2>1, <3>1
      <3>2. CASE d = c /\ inbox[c] # <<>> /\ inbox'[c] = Tail(inbox[c])
        <4>1. inbox[c] \in Seq(Answer)
          BY DEF IInv, TypeOK
        <4> QED
          BY <2>1, <3>2, <4>1, TailFacts
      <3> QED
        BY <1>4, <3>1, <3>2 DEF IInv, TypeOK
    <2> QED
      BY <1>3, <2>1, TruthStays DEF IInv
  <1>11. RulesGranted'
    BY <1>3, GrantsStay DEF IInv
  <1>12. OnlyApprovedRuns'
    <2>1. ASSUME NEW d \in Chats, NEW n \in DOMAIN reqs'[d], reqs'[d][n].verdict = "ran"
          PROVE  n \in DOMAIN reqs[d] /\ reqs[d][n].verdict = "ran"
      BY <1>2, <1>3, <2>1
    <2> QED
      BY <1>3, <2>1, ApprovalStays DEF IInv
  <1>13. OneUnderWay'
    <2>1. ASSUME c \notin Patient
          PROVE  UnderWay(c)'
      BY <1>5, <2>1 DEF UnderWay, Last
    <2>2. ASSUME NEW d \in Chats \ Patient, d # c
          PROVE  UnderWay(d)'
      <3>1. UnderWay(d)
        BY DEF IInv, OneUnderWay
      <3> QED
        BY <1>4, <2>2, <3>1 DEF UnderWay, Last
    <2> QED
      BY <2>1, <2>2 DEF OneUnderWay
  <1>14. AnswersReachTheirPrompt'
    <2>1. ASSUME NEW d \in Chats \ Patient, NEW n \in DOMAIN reqs'[d]
          PROVE  RefusedByOwner(d, n)'
      <3>1. CASE d = c /\ n = Last(c)
        BY <1>3, <2>1, <3>1 DEF RefusedByOwner
      <3>2. CASE d = c /\ n # Last(c)
        BY <1>3, <2>1, <3>2 DEF RefusedByOwner, IInv, AnswersReachTheirPrompt
      <3>3. CASE d # c
        BY <1>2, <2>1, <3>3 DEF RefusedByOwner, IInv, AnswersReachTheirPrompt
      <3> QED
        BY <3>1, <3>2, <3>3
    <2> QED
      BY <2>1 DEF AnswersReachTheirPrompt
  <1>15. RanIsAudited'
    <2>1. \A n \in audit'[c] : n \in DOMAIN reqs'[c] /\ reqs'[c][n].verdict # "open"
      BY <1>3, <1>6 DEF IInv, RanIsAudited
    <2>2. \A n \in DOMAIN reqs'[c] : reqs'[c][n].verdict = "ran" => n \in audit'[c]
      BY <1>3, <1>6 DEF IInv, RanIsAudited
    <2> QED
      BY <1>4, <1>5, <2>1, <2>2 DEF IInv, RanIsAudited, Last
  <1> QED
    BY <1>8, <1>9, <1>10, <1>11, <1>12, <1>13, <1>14, <1>15 DEF IInv

(* The owner's answer starts its action. *)
LEMMA ApproveStep ==
    ASSUME IInv, NEW c \in Chats, ReadAnswer(c), Matches(c, Head(inbox[c])),
           Head(inbox[c]).allow
    PROVE  IInv'
  <1> DEFINE a == Head(inbox[c])
             k == reqs[c][Last(c)].cap
  <1>1. /\ turn[c] = "asking" /\ inbox[c] # <<>> /\ Last(c) > 0
        /\ inbox' = [inbox EXCEPT ![c] = Tail(@)]
        /\ rules' = IF a.remember THEN [rules EXCEPT ![k] = "allow"] ELSE rules
        /\ reqs' = [reqs EXCEPT ![c][Last(c)].verdict = "ran"]
        /\ turn' = [turn EXCEPT ![c] = "acting"]
        /\ UNCHANGED <<remote, prompts, peer, audit>>
    BY DEF ReadAnswer, IInv, TypeOK
  <1>2. /\ inbox \in [Chats -> Seq(Answer)] /\ inbox[c] \in Seq(Answer)
        /\ a \in Answer /\ a = inbox[c][1] /\ 1 \in DOMAIN inbox[c]
        /\ Tail(inbox[c]) \in Seq(Answer)
        /\ \A i \in DOMAIN Tail(inbox[c]) :
               i + 1 \in DOMAIN inbox[c] /\ Tail(inbox[c])[i] = inbox[c][i + 1]
    <2>1. inbox \in [Chats -> Seq(Answer)] /\ inbox[c] \in Seq(Answer)
      BY DEF IInv, TypeOK
    <2> QED
      BY <1>1, <2>1, TailFacts
  <1>3. a.id = Last(c) /\ Truthful(c, a)
    BY <1>2 DEF Matches, IInv, AnswersTruthful
  <1>4. /\ Last(c) \in Nat
        /\ reqs' \in [Chats -> Seq(Request)]
        /\ Len(reqs'[c]) = Len(reqs[c])
        /\ \A d \in Chats : d # c => reqs'[d] = reqs[d]
    BY <1>1, JudgeType DEF IInv, Verdict
  <1>5. /\ Grows
        /\ Last(c) \in DOMAIN reqs[c]
        /\ \A d \in Chats : DOMAIN reqs'[d] = DOMAIN reqs[d]
        /\ reqs'[c][Last(c)].verdict = "ran"
        /\ reqs'[c][Last(c)].said = reqs[c][Last(c)].said
        /\ \A n \in DOMAIN reqs[c] : n # Last(c) => reqs'[c][n] = reqs[c][n]
        /\ \A d \in Chats : \A n \in DOMAIN reqs[d] : reqs'[d][n].said = reqs[d][n].said
    BY <1>1, JudgeGrows DEF IInv, Verdict
  <1>6. reqs[c][Last(c)].said \in {"yes", "always"} /\ k \in Caps
    <2>1. reqs[c][Last(c)] \in Request
      BY <1>5 DEF IInv, TypeOK
    <2> QED
      BY <1>3, <2>1 DEF Truthful, Request
  <1>7. \A d \in Chats : d # c =>
            turn'[d] = turn[d] /\ inbox'[d] = inbox[d] /\ reqs'[d] = reqs[d]
    BY <1>1, <1>2, <1>4 DEF IInv, TypeOK
  <1>8. turn'[c] = "acting" /\ inbox'[c] = Tail(inbox[c])
    BY <1>1, <1>2 DEF IInv, TypeOK
  <1>9. TypeOK'
    <2>1. inbox' \in [Chats -> Seq(Answer)]
      BY <1>1, <1>2
    <2>2. turn' \in [Chats -> {"busy", "asking", "acting", "closed"}]
      BY <1>1 DEF IInv, TypeOK
    <2>3. rules' \in [Caps -> {"allow", "deny", "ask"}]
      BY <1>1 DEF IInv, TypeOK
    <2>4. ASSUME NEW d \in Chats, turn'[d] \in {"asking", "acting"}
          PROVE  Len(reqs'[d]) > 0
      BY <1>1, <1>4, <1>7, <2>4 DEF IInv, TypeOK, Last
    <2> QED
      BY <1>1, <1>4, <2>1, <2>2, <2>3, <2>4 DEF IInv, TypeOK, Last
  <1>10. PromptsOpen'
    BY <1>1, <1>5, OpenStays DEF IInv
  <1>11. AnswersTruthful'
    <2>1. ASSUME NEW d \in Chats, NEW i \in DOMAIN inbox'[d]
          PROVE  \E j \in DOMAIN inbox[d] : inbox'[d][i] = inbox[d][j]
      BY <1>2, <1>7, <1>8, <2>1
    <2> QED
      BY <1>5, <2>1, TruthStays DEF IInv
  <1>12. RulesGranted'
    <2> PICK q \in Caps : q = k
      BY <1>6
    <2>1. a.remember => Granted(q)
      BY <1>3, <1>5 DEF Truthful, Granted
    <2>2. Granted(q) => Granted(q)'
      BY <1>5, GrantedStays DEF IInv
    <2>3. ASSUME NEW j \in Caps, rules'[j] = "allow"
          PROVE  rules[j] = "allow" \/ Granted(j)'
      <3>1. CASE a.remember /\ j = q
        BY <2>1, <2>2, <3>1
      <3>2. CASE ~(a.remember /\ j = q)
        BY <1>1, <2>3, <3>2 DEF IInv, TypeOK
      <3> QED
        BY <3>1, <3>2
    <2> QED
      BY <1>5, <2>3, GrantsStay DEF IInv
  <1>13. OnlyApprovedRuns'
    <2>1. ASSUME NEW d \in Chats, NEW n \in DOMAIN reqs'[d], reqs'[d][n].verdict = "ran"
          PROVE  \/ n \in DOMAIN reqs[d] /\ reqs[d][n].verdict = "ran"
                 \/ reqs'[d][n].said \in {"yes", "always"}
      BY <1>4, <1>5, <1>6, <2>1
    <2> QED
      BY <1>1, <1>5, <2>1, ApprovalStays DEF IInv
  <1>14. OneUnderWay'
    <2>1. ASSUME c \notin Patient
          PROVE  UnderWay(c)'
      <3>1. Len(prompts[c]) + Len(inbox[c]) <= 1
        BY <1>1, <2>1 DEF IInv, OneUnderWay, UnderWay
      <3>2. prompts[c] \in Seq(Nat)
        BY DEF IInv, TypeOK
      <3>3. prompts[c] = <<>> /\ Tail(inbox[c]) = <<>>
        BY <1>1, <1>2, <3>1, <3>2
      <3> QED
        BY <1>1, <1>8, <3>3 DEF UnderWay
    <2>2. ASSUME NEW d \in Chats \ Patient, d # c
          PROVE  UnderWay(d)'
      <3>1. UnderWay(d)
        BY DEF IInv, OneUnderWay
      <3> QED
        BY <1>1, <1>7, <2>2, <3>1 DEF UnderWay, Last
    <2> QED
      BY <2>1, <2>2 DEF OneUnderWay
  <1>15. AnswersReachTheirPrompt'
    <2>1. ASSUME NEW d \in Chats \ Patient, NEW n \in DOMAIN reqs'[d]
          PROVE  RefusedByOwner(d, n)'
      <3>1. CASE d = c /\ n = Last(c)
        BY <1>5, <3>1 DEF RefusedByOwner
      <3>2. CASE d = c /\ n # Last(c)
        BY <1>5, <2>1, <3>2 DEF RefusedByOwner, IInv, AnswersReachTheirPrompt
      <3>3. CASE d # c
        BY <1>7, <2>1, <3>3 DEF RefusedByOwner, IInv, AnswersReachTheirPrompt
      <3> QED
        BY <3>1, <3>2, <3>3
    <2> QED
      BY <2>1 DEF AnswersReachTheirPrompt
  <1>16. RanIsAudited'
    <2>1. \A n \in audit'[c] : n \in DOMAIN reqs'[c] /\ reqs'[c][n].verdict # "open"
      BY <1>1, <1>5 DEF IInv, RanIsAudited
    <2>2. \A n \in DOMAIN reqs'[c] :
              reqs'[c][n].verdict = "ran" => n \in audit'[c] \/ n = Last(c)
      BY <1>1, <1>5 DEF IInv, RanIsAudited
    <2>3. Len(reqs'[c]) = Last(c)
      BY <1>4 DEF Last
    <2> QED
      BY <1>1, <1>5, <1>7, <1>8, <2>1, <2>2, <2>3 DEF IInv, RanIsAudited, Last
  <1> QED
    BY <1>9, <1>10, <1>11, <1>12, <1>13, <1>14, <1>15, <1>16 DEF IInv

LEMMA AnswerStep ==
    ASSUME IInv, NEW c \in Chats, NEW say \in {"yes", "always", "no"}, OwnerAnswers(c, say)
    PROVE  IInv'
  <1>1. /\ prompts[c] \in Seq(Nat) /\ prompts \in [Chats -> Seq(Nat)]
        /\ inbox[c] \in Seq(Answer) /\ inbox \in [Chats -> Seq(Answer)]
        /\ prompts[c] # <<>>
    BY DEF IInv, TypeOK, OwnerAnswers
  <1> PICK n \in Nat : n = Head(prompts[c])
    BY <1>1, TailFacts
  <1> DEFINE a == [id |-> n, allow |-> say # "no", remember |-> say = "always"]
  <1>2. /\ peer[c] /\ turn[c] # "closed"
        /\ reqs' = [reqs EXCEPT ![c][n].said = say]
        /\ inbox' = [inbox EXCEPT ![c] = Append(@, a)]
        /\ prompts' = [prompts EXCEPT ![c] = Tail(@)]
        /\ UNCHANGED <<remote, rules, turn, peer, audit>>
    BY DEF OwnerAnswers
  <1>3. /\ n = prompts[c][1] /\ 1 \in DOMAIN prompts[c]
        /\ Len(prompts[c]) \in Nat \ {0}
        /\ Tail(prompts[c]) \in Seq(Nat)
        /\ DOMAIN Tail(prompts[c]) = 1..(Len(prompts[c]) - 1)
        /\ \A i \in DOMAIN Tail(prompts[c]) :
               i + 1 \in DOMAIN prompts[c] /\ Tail(prompts[c])[i] = prompts[c][i + 1]
    BY <1>1, TailFacts
  <1>4. n \in 1..Len(reqs[c]) /\ reqs[c][n].said = "nothing"
    BY <1>3 DEF IInv, PromptsOpen, TypeOK
  <1>5. /\ Grows
        /\ reqs' \in [Chats -> Seq(Request)]
        /\ \A d \in Chats : DOMAIN reqs'[d] = DOMAIN reqs[d]
        /\ reqs'[c][n].said = say
        /\ \A i \in DOMAIN reqs[c] : i # n => reqs'[c][i] = reqs[c][i]
        /\ \A d \in Chats : \A i \in DOMAIN reqs[d] : reqs'[d][i].verdict = reqs[d][i].verdict
    <2>1. TypeOK /\ say \in Said
      BY DEF IInv, Said
    <2>2. OwnerSays(c, n, say)
      BY <1>2 DEF OwnerSays
    <2> HIDE DEF a
    <2> QED
      BY <1>4, <2>1, <2>2, AnswerGrows
  <1>6. a \in Answer
    BY <1>3 DEF Answer
  <1>7. \A d \in Chats : d # c =>
            /\ prompts'[d] = prompts[d] /\ inbox'[d] = inbox[d]
            /\ reqs'[d] = reqs[d]
    BY <1>2, <1>1 DEF IInv, TypeOK
  <1>8. prompts'[c] = Tail(prompts[c]) /\ inbox'[c] = Append(inbox[c], a)
    BY <1>2, <1>1
  <1> HIDE DEF a
  <1>9. \A d \in Chats : Len(reqs'[d]) = Len(reqs[d])
    <2>1. \A d \in Chats : reqs[d] \in Seq(Request) /\ reqs'[d] \in Seq(Request)
      BY <1>5 DEF IInv, TypeOK
    <2> QED
      BY <1>5, <2>1
  <1>10. TypeOK'
    <2>1. inbox' \in [Chats -> Seq(Answer)]
      BY <1>2, <1>1, <1>6, AppendFacts
    <2>2. prompts' \in [Chats -> Seq(Nat)]
      BY <1>2, <1>1, <1>3
    <2> QED
      BY <1>2, <1>5, <1>9, <2>1, <2>2 DEF IInv, TypeOK, Last
  <1>11. PromptsOpen'
    <2>1. ASSUME NEW i \in DOMAIN prompts'[c]
          PROVE  /\ prompts'[c][i] \in DOMAIN reqs'[c]
                 /\ reqs'[c][prompts'[c][i]].said = "nothing"
                 /\ \A j \in DOMAIN prompts'[c] : prompts'[c][i] = prompts'[c][j] => i = j
      <3>1. /\ prompts'[c][i] = prompts[c][i + 1] /\ i + 1 \in DOMAIN prompts[c]
            /\ i \in 1..(Len(prompts[c]) - 1)
        BY <1>3, <1>8, <2>1
      <3>2. prompts[c][i + 1] # n
        BY <1>3, <3>1 DEF IInv, PromptsOpen
      <3>3. \A j \in DOMAIN prompts'[c] :
                prompts'[c][j] = prompts[c][j + 1] /\ j + 1 \in DOMAIN prompts[c] /\ j \in Nat
        BY <1>3, <1>8
      <3> QED
        BY <1>5, <3>1, <3>2, <3>3 DEF IInv, PromptsOpen
    <2> QED
      BY <1>7, <2>1 DEF IInv, PromptsOpen
  <1>12. AnswersTruthful'
    <2>1. Truthful(c, a)'
      <3>1. n \in DOMAIN reqs'[c]
        BY <1>4, <1>5 DEF IInv, TypeOK
      <3>2. a.id = n /\ a.allow = (say # "no") /\ a.remember = (say = "always")
        BY DEF a
      <3> QED
        BY <1>5, <3>1, <3>2 DEF Truthful
    <2>2. /\ DOMAIN inbox'[c] = 1..(Len(inbox[c]) + 1)
          /\ DOMAIN inbox[c] = 1..Len(inbox[c])
          /\ Len(inbox[c]) \in Nat
          /\ \A i \in 1..Len(inbox[c]) : inbox'[c][i] = inbox[c][i]
          /\ inbox'[c][Len(inbox[c]) + 1] = a
      BY <1>1, <1>6, <1>8, AppendFacts
    <2>3. ASSUME NEW d \in Chats, NEW i \in DOMAIN inbox'[d]
          PROVE  \/ Truthful(d, inbox[d][i])'
                 \/ \E j \in DOMAIN inbox[d] : inbox'[d][i] = inbox[d][j]
      <3>1. CASE d = c /\ i = Len(inbox[c]) + 1
        BY <2>1, <2>2, <3>1
      <3>2. CASE d = c /\ i # Len(inbox[c]) + 1
        BY <2>2, <2>3, <3>2
      <3>3. CASE d # c
        BY <1>7, <2>3, <3>3
      <3> QED
        BY <3>1, <3>2, <3>3
    <2> QED
      BY <1>5, <2>3, TruthStays DEF IInv
  <1>13. RulesGranted'
    BY <1>2, <1>5, GrantsStay DEF IInv
  <1>14. OnlyApprovedRuns'
    BY <1>2, <1>5, ApprovalStays DEF IInv
  <1>15. OneUnderWay'
    <2>1. ASSUME c \notin Patient
          PROVE  UnderWay(c)'
      <3>1. turn[c] = "asking" /\ n = Last(c) /\ Len(prompts[c]) + Len(inbox[c]) <= 1
        BY <1>1, <1>2, <1>3, <2>1 DEF IInv, OneUnderWay, UnderWay, TypeOK
      <3>2. Len(prompts[c]) = 1 /\ inbox[c] = <<>>
        <4>1. Len(inbox[c]) \in Nat /\ Len(prompts[c]) \in Nat \ {0}
          BY <1>1, <1>3
        <4>2. Len(prompts[c]) = 1 /\ Len(inbox[c]) = 0
          BY <3>1, <4>1, OneAndNone
        <4> QED
          BY <1>1, <4>2, EmptySeq
      <3>3. prompts'[c] = <<>>
        <4>1. Tail(prompts[c]) \in Seq(Nat) /\ Len(Tail(prompts[c])) = 0
          BY <1>1, <3>2
        <4> QED
          BY <1>8, <4>1, EmptySeq
      <3>4. /\ \A i \in DOMAIN inbox'[c] : inbox'[c][i].id = n
            /\ Len(inbox'[c]) = 1
        <4>1. inbox'[c] = <<a>> /\ a.id = n
          BY <1>8, <3>2 DEF a
        <4> HIDE DEF a
        <4> QED
          BY <4>1
      <3>5. turn'[c] = "asking" /\ peer'[c] /\ Len(reqs'[c]) = n
        BY <1>2, <1>9, <3>1 DEF Last
      <3> QED
        BY <3>3, <3>4, <3>5 DEF UnderWay, Last
    <2>2. ASSUME NEW d \in Chats \ Patient, d # c
          PROVE  UnderWay(d)'
      <3>1. UnderWay(d)
        BY DEF IInv, OneUnderWay
      <3> QED
        BY <1>2, <1>7, <2>2, <3>1 DEF UnderWay, Last
    <2> QED
      BY <2>1, <2>2 DEF OneUnderWay
  <1>16. AnswersReachTheirPrompt'
    <2>1. ASSUME NEW d \in Chats \ Patient, NEW i \in DOMAIN reqs'[d]
          PROVE  RefusedByOwner(d, i)'
      <3>1. RefusedByOwner(d, i) /\ i \in DOMAIN reqs[d]
        BY <1>5, <2>1 DEF IInv, AnswersReachTheirPrompt
      <3>2. /\ reqs'[d][i].verdict = reqs[d][i].verdict
            /\ reqs'[d][i].via = reqs[d][i].via
            /\ reqs[d][i].said # "nothing" => reqs'[d][i].said = reqs[d][i].said
        BY <1>5, <3>1 DEF Grows
      <3> QED
        BY <3>1, <3>2 DEF RefusedByOwner
    <2> QED
      BY <2>1 DEF AnswersReachTheirPrompt
  <1>17. RanIsAudited'
    BY <1>2, <1>5, <1>9, <1>10 DEF IInv, RanIsAudited, Last, TypeOK
  <1> QED
    BY <1>10, <1>11, <1>12, <1>13, <1>14, <1>15, <1>16, <1>17 DEF IInv

(* Steps that leave every request as it is. *)
LEMMA QuietStep ==
    ASSUME IInv, reqs' = reqs, rules' = rules, remote' = remote, inbox' = inbox,
           TypeOK', OneUnderWay', RanIsAudited',
           \A c \in Chats : prompts'[c] = prompts[c] \/ prompts'[c] = <<>>
    PROVE  IInv'
  <1>1. Grows
    BY DEF Grows, IInv, TypeOK
  <1>2. PromptsOpen'
    BY <1>1, OpenStays DEF IInv
  <1>3. AnswersTruthful'
    BY <1>1, TruthStays DEF IInv
  <1>4. RulesGranted'
    BY <1>1, GrantsStay DEF IInv
  <1>5. OnlyApprovedRuns'
    BY <1>1, ApprovalStays DEF IInv
  <1>6. AnswersReachTheirPrompt'
    BY DEF IInv, AnswersReachTheirPrompt, RefusedByOwner
  <1> QED
    BY <1>2, <1>3, <1>4, <1>5, <1>6 DEF IInv

LEMMA ActionEndsStep ==
    ASSUME IInv, NEW c \in Chats, ActionEnds(c)
    PROVE  IInv'
  <1>1. /\ turn[c] = "acting" /\ Last(c) > 0 /\ Last(c) \in DOMAIN reqs[c] /\ Last(c) \in Nat
        /\ reqs[c][Last(c)].verdict = "ran"
    BY DEF ActionEnds, IInv, TypeOK, Last, RanIsAudited
  <1>2. /\ turn' = [turn EXCEPT ![c] = "busy"] /\ turn'[c] = "busy"
        /\ audit' = [audit EXCEPT ![c] = @ \cup {Last(c)}]
        /\ audit'[c] = audit[c] \cup {Last(c)}
        /\ UNCHANGED <<remote, rules, reqs, prompts, inbox, peer>>
        /\ \A d \in Chats : d # c => turn'[d] = turn[d] /\ audit'[d] = audit[d]
    BY DEF ActionEnds, IInv, TypeOK
  <1>3. TypeOK'
    <2>1. audit' \in [Chats -> SUBSET Nat]
      BY <1>1, <1>2 DEF IInv, TypeOK
    <2>2. turn' \in [Chats -> {"busy", "asking", "acting", "closed"}]
      BY <1>2 DEF IInv, TypeOK
    <2>3. \A d \in Chats : turn'[d] \in {"asking", "acting"} => Last(d) > 0
      BY <1>2 DEF IInv, TypeOK
    <2> QED
      BY <1>2, <2>1, <2>2, <2>3 DEF IInv, TypeOK, Last
  <1>4. OneUnderWay'
    <2>1. ASSUME NEW d \in Chats \ Patient
          PROVE  UnderWay(d)'
      BY <1>1, <1>2 DEF IInv, OneUnderWay, UnderWay, Last
    <2> QED
      BY <2>1 DEF OneUnderWay
  <1>5. RanIsAudited'
    BY <1>1, <1>2 DEF IInv, RanIsAudited, Last
  <1> QED
    BY <1>2, <1>3, <1>4, <1>5, QuietStep

LEMMA LeaveStep ==
    ASSUME IInv, NEW c \in Chats, Leave(c)
    PROVE  IInv'
  <1>1. /\ prompts' = [prompts EXCEPT ![c] = <<>>] /\ prompts'[c] = <<>>
        /\ \A d \in Chats : d # c => prompts'[d] = prompts[d] /\ peer'[d] = peer[d]
        /\ peer' = [peer EXCEPT ![c] = FALSE]
        /\ UNCHANGED <<remote, rules, turn, reqs, inbox, audit>>
    BY DEF Leave, IInv, TypeOK
  <1>2. TypeOK'
    BY <1>1 DEF IInv, TypeOK, Last
  <1>3. OneUnderWay'
    <2>1. ASSUME c \notin Patient
          PROVE  UnderWay(c)'
      <3>1. UnderWay(c) /\ prompts[c] \in Seq(Nat) /\ inbox[c] \in Seq(Answer)
        BY <2>1 DEF IInv, OneUnderWay, TypeOK
      <3>2. ASSUME turn[c] = "asking"
            PROVE  0 + Len(inbox[c]) <= 1
        <4>1. Len(prompts[c]) + Len(inbox[c]) <= 1
          BY <3>1, <3>2 DEF UnderWay
        <4>2. Len(prompts[c]) \in Nat /\ Len(inbox[c]) \in Nat
          BY <3>1
        <4> QED
          BY <4>1, <4>2, AtMostOne
      <3>3. Len(<<>>) = 0 /\ DOMAIN <<>> = {}
        OBVIOUS
      <3>4. turn'[c] = "asking" => Len(prompts'[c]) + Len(inbox'[c]) <= 1
        BY <1>1, <3>2, <3>3
      <3>5. /\ turn'[c] \in {"busy", "acting"} => inbox'[c] = <<>>
            /\ turn'[c] = "asking" => \A i \in DOMAIN inbox'[c] : inbox'[c][i].id = Len(reqs'[c])
        BY <1>1, <3>1 DEF UnderWay, Last
      <3>6. prompts'[c] = <<>> /\ \A i \in DOMAIN prompts'[c] : prompts'[c][i] = Len(reqs'[c])
        BY <1>1, <3>3
      <3> QED
        BY <3>4, <3>5, <3>6 DEF UnderWay, Last
    <2>2. ASSUME NEW d \in Chats \ Patient, d # c
          PROVE  UnderWay(d)'
      <3>1. UnderWay(d)
        BY DEF IInv, OneUnderWay
      <3> QED
        BY <1>1, <2>2, <3>1 DEF UnderWay, Last
    <2> QED
      BY <2>1, <2>2 DEF OneUnderWay
  <1>4. RanIsAudited'
    BY <1>1 DEF IInv, RanIsAudited, Last
  <1> QED
    BY <1>1, <1>2, <1>3, <1>4, QuietStep

(* The chat is closed while nothing is asked. *)
LEMMA CloseStep ==
    ASSUME IInv, NEW c \in Chats, turn[c] # "asking",
           turn' = [turn EXCEPT ![c] = "closed"],
           UNCHANGED <<remote, rules, reqs, prompts, inbox, peer, audit>>
    PROVE  IInv'
  <1>1. turn'[c] = "closed" /\ \A d \in Chats : d # c => turn'[d] = turn[d]
    BY DEF IInv, TypeOK
  <1>2. TypeOK'
    BY <1>1 DEF IInv, TypeOK, Last
  <1>3. OneUnderWay'
    <2>1. ASSUME NEW d \in Chats \ Patient
          PROVE  UnderWay(d)'
      BY <1>1 DEF IInv, OneUnderWay, UnderWay, Last
    <2> QED
      BY <2>1 DEF OneUnderWay
  <1>4. RanIsAudited'
    BY <1>1 DEF IInv, RanIsAudited, Last
  <1> QED
    BY <1>2, <1>3, <1>4, QuietStep

(* The chat is closed while a prompt is open. *)
LEMMA CloseAskingStep ==
    ASSUME IInv, NEW c \in Chats, NoticeEof(c), turn[c] = "asking"
    PROVE  IInv'
  <1>1. /\ Last(c) > 0
        /\ reqs' = [reqs EXCEPT ![c][Last(c)].verdict = "lost"]
        /\ turn' = [turn EXCEPT ![c] = "closed"] /\ turn'[c] = "closed"
        /\ \A d \in Chats : d # c => turn'[d] = turn[d]
        /\ UNCHANGED <<remote, rules, prompts, inbox, peer, audit>>
    BY DEF NoticeEof, IInv, TypeOK
  <1>2. /\ reqs' \in [Chats -> Seq(Request)]
        /\ Len(reqs'[c]) = Len(reqs[c])
        /\ \A d \in Chats : d # c => reqs'[d] = reqs[d]
    BY <1>1, JudgeType DEF IInv, Verdict
  <1>3. /\ Grows
        /\ Last(c) \in DOMAIN reqs[c]
        /\ \A d \in Chats : DOMAIN reqs'[d] = DOMAIN reqs[d]
        /\ reqs'[c][Last(c)].verdict = "lost"
        /\ \A n \in DOMAIN reqs[c] : n # Last(c) => reqs'[c][n] = reqs[c][n]
        /\ \A d \in Chats : \A n \in DOMAIN reqs[d] : reqs'[d][n].said = reqs[d][n].said
    BY <1>1, JudgeGrows DEF IInv, Verdict
  <1>4. TypeOK'
    <2>1. ASSUME NEW d \in Chats, turn'[d] \in {"asking", "acting"}
          PROVE  Len(reqs'[d]) > 0
      BY <1>1, <1>2, <2>1 DEF IInv, TypeOK, Last
    <2>2. turn' \in [Chats -> {"busy", "asking", "acting", "closed"}]
      BY <1>1 DEF IInv, TypeOK
    <2> QED
      BY <1>1, <1>2, <2>1, <2>2 DEF IInv, TypeOK, Last
  <1>5. PromptsOpen'
    BY <1>1, <1>3, OpenStays DEF IInv
  <1>6. AnswersTruthful'
    BY <1>1, <1>3, TruthStays DEF IInv
  <1>7. RulesGranted'
    BY <1>1, <1>3, GrantsStay DEF IInv
  <1>8. OnlyApprovedRuns'
    <2>1. ASSUME NEW d \in Chats, NEW n \in DOMAIN reqs'[d], reqs'[d][n].verdict = "ran"
          PROVE  n \in DOMAIN reqs[d] /\ reqs[d][n].verdict = "ran"
      BY <1>2, <1>3, <2>1
    <2> QED
      BY <1>1, <1>3, <2>1, ApprovalStays DEF IInv
  <1>9. OneUnderWay'
    <2>1. ASSUME NEW d \in Chats \ Patient
          PROVE  UnderWay(d)'
      BY <1>1, <1>2 DEF IInv, OneUnderWay, UnderWay, Last
    <2> QED
      BY <2>1 DEF OneUnderWay
  <1>10. AnswersReachTheirPrompt'
    <2>1. ASSUME NEW d \in Chats \ Patient, NEW n \in DOMAIN reqs'[d]
          PROVE  RefusedByOwner(d, n)'
      BY <1>2, <1>3, <2>1 DEF RefusedByOwner, IInv, AnswersReachTheirPrompt
    <2> QED
      BY <2>1 DEF AnswersReachTheirPrompt
  <1>11. RanIsAudited'
    <2>1. /\ \A n \in audit'[c] : n \in DOMAIN reqs'[c] /\ reqs'[c][n].verdict # "open"
          /\ \A n \in DOMAIN reqs'[c] : reqs'[c][n].verdict = "ran" => n \in audit'[c]
      BY <1>1, <1>3 DEF IInv, RanIsAudited
    <2> QED
      BY <1>1, <1>2, <2>1 DEF IInv, RanIsAudited, Last
  <1> QED
    BY <1>4, <1>5, <1>6, <1>7, <1>8, <1>9, <1>10, <1>11 DEF IInv

-----------------------------------------------------------------------------
LEMMA ReadAnswerStep ==
    ASSUME IInv, NEW c \in Chats, ReadAnswer(c)
    PROVE  IInv'
  <1>1. CASE Matches(c, Head(inbox[c])) /\ Head(inbox[c]).allow
    BY <1>1, ApproveStep
  <1>2. CASE ~(Matches(c, Head(inbox[c])) /\ Head(inbox[c]).allow)
    <2>1. /\ turn[c] = "asking" /\ inbox[c] # <<>> /\ Settle(c, "refused")
          /\ inbox' = [inbox EXCEPT ![c] = Tail(@)]
          /\ UNCHANGED <<remote, rules, prompts, peer>>
      BY <1>2 DEF ReadAnswer
    <2>2. ASSUME c \notin Patient
          PROVE  /\ prompts[c] = <<>> /\ inbox'[c] = <<>>
                 /\ reqs[c][Last(c)].said = "no"
      <3>1. inbox[c] \in Seq(Answer) /\ prompts[c] \in Seq(Nat) /\ inbox \in [Chats -> Seq(Answer)]
        BY DEF IInv, TypeOK
      <3>2. UnderWay(c)
        BY <2>2 DEF IInv, OneUnderWay
      <3>3. Len(prompts[c]) + Len(inbox[c]) <= 1
        BY <2>1, <3>2 DEF UnderWay
      <3>4. /\ Head(inbox[c]) = inbox[c][1] /\ 1 \in DOMAIN inbox[c]
            /\ Head(inbox[c]) \in Answer /\ Len(inbox[c]) \in Nat \ {0}
        BY <2>1, <3>1, TailFacts
      <3>5. Head(inbox[c]).id = Last(c) /\ Truthful(c, Head(inbox[c]))
        BY <2>1, <3>2, <3>4 DEF UnderWay, IInv, AnswersTruthful
      <3>6. Head(inbox[c]).allow \in BOOLEAN
        BY <3>4 DEF Answer
      <3>7. reqs[c][Last(c)].said = "no"
        BY <1>2, <3>5, <3>6 DEF Matches, Truthful
      <3>8. Len(inbox[c]) = 1 /\ Len(prompts[c]) = 0
        <4>1. Len(prompts[c]) \in Nat /\ Len(inbox[c]) + Len(prompts[c]) <= 1
          BY <3>1, <3>3, <3>4
        <4> QED
          BY <3>4, <4>1, OneAndNone
      <3>9. Tail(inbox[c]) \in Seq(Answer) /\ Len(Tail(inbox[c])) = 0
        BY <2>1, <3>1, <3>8
      <3>10. inbox'[c] = Tail(inbox[c])
        BY <2>1, <3>1
      <3> QED
        BY <3>1, <3>7, <3>8, <3>9, <3>10, EmptySeq
    <2> QED
      BY <2>1, <2>2, SettleStep
  <1> QED
    BY <1>1, <1>2

LEMMA UndecidedSteps ==
    ASSUME IInv, NEW c \in Chats, NEW k \in Caps,
           AllowedByRule(c, k) \/ DeniedByRule(c, k) \/ AskFails(c, k)
    PROVE  IInv'
  <1>1. CASE AllowedByRule(c, k)
    <2> DEFINE r == [cap |-> k, via |-> "rule", said |-> "nothing", verdict |-> "ran"]
    <2>1. /\ r \in Request /\ r.verdict = "ran" /\ r.via = "rule" /\ r.cap = k
          /\ NewRequest(c, r) /\ turn[c] = "busy"
          /\ c \notin remote /\ rules[k] = "allow"
          /\ turn' = [turn EXCEPT ![c] = "acting"]
          /\ UNCHANGED <<remote, rules, prompts, inbox, peer, audit>>
      BY <1>1 DEF AllowedByRule, CanRequest, Request, Said, Verdict
    <2> HIDE DEF r
    <2> QED
      BY <2>1, UnaskedStep
  <1>2. CASE DeniedByRule(c, k)
    <2> DEFINE r == [cap |-> k, via |-> "rule", said |-> "nothing", verdict |-> "refused"]
    <2>1. /\ r \in Request /\ r.verdict = "refused" /\ r.via = "rule"
          /\ NewRequest(c, r) /\ turn[c] = "busy"
          /\ \/ audit' = audit
             \/ audit' = [audit EXCEPT ![c] = @ \cup {Last(c) + 1}]
          /\ UNCHANGED <<remote, rules, turn, prompts, inbox, peer>>
      BY <1>2 DEF DeniedByRule, CanRequest, AuditRow, Request, Said, Verdict
    <2> HIDE DEF r
    <2> QED
      BY <2>1, UnaskedStep
  <1>3. CASE AskFails(c, k)
    <2> DEFINE r == [cap |-> k, via |-> "owner", said |-> "nothing", verdict |-> "lost"]
    <2>1. /\ r \in Request /\ r.verdict = "lost"
          /\ NewRequest(c, r) /\ turn[c] = "busy"
          /\ \/ audit' = audit
             \/ audit' = [audit EXCEPT ![c] = @ \cup {Last(c) + 1}]
          /\ UNCHANGED <<remote, rules, turn, prompts, inbox, peer>>
      BY <1>3 DEF AskFails, CanRequest, AuditRow, Request, Said, Verdict
    <2> HIDE DEF r
    <2> QED
      BY <2>1, UnaskedStep
  <1> QED
    BY <1>1, <1>2, <1>3

LEMMA NoAnswerSteps ==
    ASSUME IInv, NEW c \in Chats, Expire(c) \/ ReadEof(c)
    PROVE  IInv'
  <1>1. CASE Expire(c)
    <2>1. /\ turn[c] = "asking" /\ c \in Patient /\ Settle(c, "expired")
          /\ UNCHANGED <<remote, rules, prompts, inbox, peer>>
      BY <1>1 DEF Expire, DaemonDeadline
    <2> QED
      BY <2>1, SettleStep
  <1>2. CASE ReadEof(c)
    <2>1. /\ turn[c] = "asking" /\ inbox[c] = <<>> /\ ~peer[c] /\ Settle(c, "lost")
          /\ UNCHANGED <<remote, rules, prompts, inbox, peer>>
      BY <1>2 DEF ReadEof
    <2>2. c \notin Patient => prompts[c] = <<>>
      BY <2>1 DEF IInv, OneUnderWay, UnderWay
    <2> QED
      BY <2>1, <2>2, SettleStep
  <1> QED
    BY <1>1, <1>2

LEMMA InductiveInit == Init => IInv
  <1> SUFFICES ASSUME Init
               PROVE  IInv
    OBVIOUS
  <1>1. TypeOK
    BY TypeInit
  <1>2. RulesGranted
    BY DEF Init, RulesGranted, Granted
  <1> QED
    BY <1>1, <1>2
       DEF Init, IInv, PromptsOpen, AnswersTruthful, OnlyApprovedRuns, OneUnderWay, UnderWay,
           AnswersReachTheirPrompt, RanIsAudited

LEMMA InductiveStep == IInv /\ [Next]_vars => IInv'
  <1> SUFFICES ASSUME IInv, [Next]_vars
               PROVE  IInv'
    OBVIOUS
  <1>1. CASE UNCHANGED vars
    <2>1. TypeOK'
      BY <1>1 DEF vars, IInv, TypeOK, Last
    <2>2. OneUnderWay'
      BY <1>1 DEF vars, IInv, OneUnderWay, UnderWay, Last
    <2>3. RanIsAudited'
      BY <1>1 DEF vars, IInv, RanIsAudited, Last
    <2> QED
      BY <1>1, <2>1, <2>2, <2>3, QuietStep DEF vars
  <1>2. ASSUME NEW c \in Chats, NEW k \in Caps,
               AllowedByRule(c, k) \/ DeniedByRule(c, k) \/ AskFails(c, k)
        PROVE  IInv'
    BY <1>2, UndecidedSteps
  <1>3. ASSUME NEW c \in Chats, NEW k \in Caps, Ask(c, k)
        PROVE  IInv'
    BY <1>3, AskStep
  <1>4. ASSUME NEW c \in Chats, NEW say \in {"yes", "always", "no"}, OwnerAnswers(c, say)
        PROVE  IInv'
    BY <1>4, AnswerStep
  <1>5. ASSUME NEW c \in Chats, ReadAnswer(c)
        PROVE  IInv'
    BY <1>5, ReadAnswerStep
  <1>6. ASSUME NEW c \in Chats, Expire(c) \/ ReadEof(c)
        PROVE  IInv'
    BY <1>6, NoAnswerSteps
  <1>7. ASSUME NEW c \in Chats, ActionEnds(c)
        PROVE  IInv'
    BY <1>7, ActionEndsStep
  <1>8. ASSUME NEW c \in Chats, Leave(c)
        PROVE  IInv'
    BY <1>8, LeaveStep
  <1>9. ASSUME NEW c \in Chats, NoticeEof(c)
        PROVE  IInv'
    <2>1. CASE turn[c] = "asking"
      BY <1>9, <2>1, CloseAskingStep
    <2>2. CASE turn[c] # "asking"
      BY <1>9, <2>2, CloseStep DEF NoticeEof
    <2> QED
      BY <2>1, <2>2
  <1>10. ASSUME NEW c \in Chats, TurnEnds(c)
         PROVE  IInv'
    BY <1>10, CloseStep DEF TurnEnds
  <1> QED
    BY <1>1, <1>2, <1>3, <1>4, <1>5, <1>6, <1>7, <1>8, <1>9, <1>10 DEF Next

LEMMA Inductive == Spec => []IInv
  BY InductiveInit, InductiveStep, PTL DEF Spec

(* Every variable keeps its type (rpc.py, the state of a chat handler).        *)
THEOREM TypeCorrect == Spec => []TypeOK
  <1>1. IInv => TypeOK
    BY DEF IInv
  <1> QED
    BY <1>1, Inductive, PTL

(* No action runs without the owner's yes to it, a policy rule or an earlier   *)
(* "yes, all this session", for any number of concurrent chats (rpc.py,        *)
(* permission; security.py, authorize).                                        *)
THEOREM ApprovedRuns == Spec => []OnlyApprovedRuns
  <1>1. IInv => OnlyApprovedRuns
    BY DEF IInv
  <1> QED
    BY <1>1, Inductive, PTL

(* Behind a client with its own deadline every refusal is the owner's          *)
(* (tui_full.py, the 280-second deadline against the daemon's 300).            *)
THEOREM AnswersReach == Spec => []AnswersReachTheirPrompt
  <1>1. IInv => AnswersReachTheirPrompt
    BY DEF IInv
  <1> QED
    BY <1>1, Inductive, PTL

(* Audit rows belong to decided calls, and no earlier action of a chat that    *)
(* goes on is without one (tools.py, execute).                                 *)
THEOREM AuditSettled == Spec => []AuditOfSettledCalls
  <1>1. IInv => AuditOfSettledCalls
    <2> SUFFICES ASSUME IInv, NEW c \in Chats
                 PROVE  /\ \A n \in audit[c] : n \in DOMAIN reqs[c] /\ reqs[c][n].verdict # "open"
                        /\ \A n \in DOMAIN reqs[c] :
                               reqs[c][n].verdict = "ran" /\ n < Last(c) => n \in audit[c]
      BY DEF AuditOfSettledCalls
    <2>1. Last(c) \in Nat
      BY DEF IInv, TypeOK, Last
    <2> QED
      BY <2>1 DEF IInv, RanIsAudited
  <1> QED
    BY <1>1, Inductive, PTL

-----------------------------------------------------------------------------
(* The approval round trip implements Consent: each step of a chat is, for    *)
(* each of its prompts, a step of Consent or none.                            *)

Pairs  == Chats \X (1..MaxRequests)
States == [p \in Pairs |-> StateOf(p[1], p[2])]

(* The request that is asked about is the owner's to decide, and not decided. *)
AsksOpenly(c) ==
    /\ Len(reqs[c]) <= MaxRequests
    /\ turn[c] = "asking" =>
           reqs[c][Last(c)].verdict = "open" /\ reqs[c][Last(c)].via = "owner"

AskedIsOpen == \A c \in Chats : AsksOpenly(c)

(* The moves of Consent. *)
Moves(old, new) ==
    \/ old = new
    \/ old = "unasked" /\ new \in {"open", "denied"}
    \/ old = "open" /\ new \in {"yes", "no", "denied"}
    \/ old = "yes" /\ new \in {"granted", "denied"}
    \/ old = "no" /\ new = "denied"

(* Request n of chat c was added or changed, and no other. *)
Touched(c, n) ==
    /\ n \in 1..MaxRequests
    /\ \A d \in Chats : d # c => reqs'[d] = reqs[d]
    /\ \A m \in 1..MaxRequests : m # n =>
           /\ m \in DOMAIN reqs'[c] <=> m \in DOMAIN reqs[c]
           /\ m \in DOMAIN reqs[c] => reqs'[c][m] = reqs[c][m]

LEMMA TouchMoves ==
    ASSUME NEW c \in Chats, NEW n, Touched(c, n), Moves(StateOf(c, n), StateOf(c, n)')
    PROVE  Consent!Next \/ UNCHANGED States
  <1> DEFINE old == StateOf(c, n)
             new == StateOf(c, n)'
             p == <<c, n>>
  <1>1. p \in Pairs /\ States[p] = old
    BY DEF Pairs, States, Touched
  <1>2. ASSUME NEW q \in Pairs, q # p
        PROVE  StateOf(q[1], q[2])' = StateOf(q[1], q[2])
    <2>1. q[1] \in Chats /\ q[2] \in 1..MaxRequests /\ q = <<q[1], q[2]>>
      BY DEF Pairs
    <2>2. CASE q[1] # c
      BY <2>1, <2>2 DEF Touched, StateOf
    <2>3. CASE q[1] = c
      <3>1. q[2] # n
        BY <1>2, <2>1, <2>3
      <3> QED BY <2>1, <2>3, <3>1 DEF Touched, StateOf
    <2> QED BY <2>2, <2>3
  <1>3. States' = [States EXCEPT ![p] = new]
    <2>1. States' = [q \in Pairs |-> StateOf(q[1], q[2])']
      BY DEF States, Pairs
    <2>2. p[1] = c /\ p[2] = n
      OBVIOUS
    <2> QED BY <1>1, <1>2, <2>1, <2>2 DEF States
  <1>4. CASE old = new
    BY <1>1, <1>3, <1>4 DEF States
  <1>5. Moves(old, new)
    OBVIOUS
  <1>6. Pairs = Chats \X (1..MaxRequests)
    BY DEF Pairs
  <1> HIDE DEF old, new, p
  <1>7. CASE old # new
    <2>1. \/ old = "unasked" /\ new = "open"
          \/ old = "open" /\ new \in {"yes", "no"}
          \/ old = "yes" /\ new = "granted"
          \/ old \in {"unasked", "open", "yes", "no"} /\ new = "denied"
      BY <1>5, <1>7 DEF Moves
    <2>2. CASE old = "unasked" /\ new = "open"
      BY <1>1, <1>3, <1>6, <2>2
      DEF Consent!Next, Consent!Ask, Consent!Becomes, States, Pairs
    <2>3. CASE old = "open" /\ new \in {"yes", "no"}
      BY <1>1, <1>3, <1>6, <2>3
      DEF Consent!Next, Consent!Say, Consent!Becomes, States, Pairs
    <2>4. CASE old = "yes" /\ new = "granted"
      BY <1>1, <1>3, <1>6, <2>4
      DEF Consent!Next, Consent!Grant, Consent!Becomes, States, Pairs
    <2>5. CASE old \in {"unasked", "open", "yes", "no"} /\ new = "denied"
      BY <1>1, <1>3, <1>6, <2>5
      DEF Consent!Next, Consent!Deny, Consent!Becomes, States, Pairs
    <2> QED BY <2>1, <2>2, <2>3, <2>4, <2>5
  <1> QED BY <1>4, <1>7

LEMMA NothingMoves == ASSUME reqs' = reqs PROVE UNCHANGED States
  BY DEF States, StateOf

-----------------------------------------------------------------------------
(* The three ways a request is touched. *)

LEMMA AddedRequest ==
    ASSUME IInv, AskedIsOpen, NEW c \in Chats, CanRequest(c), NEW r \in Request,
           NewRequest(c, r),
           \/ r.via = "rule"
           \/ r.via = "owner" /\ r.verdict \in {"open", "lost"} /\ r.said = "nothing",
           turn'[c] = "asking" => r.via = "owner" /\ r.verdict = "open",
           \A d \in Chats : d # c => turn'[d] = turn[d]
    PROVE  AskedIsOpen' /\ (Consent!Next \/ UNCHANGED States)
  <1>0. PICK n \in Nat : n = Len(reqs[c]) + 1
    BY DEF IInv, TypeOK
  <1>1. /\ Len(reqs[c]) \in Nat /\ n \in 1..MaxRequests
        /\ DOMAIN reqs[c] = 1..Len(reqs[c])
    BY <1>0, ConstantsAssumption DEF CanRequest, Last, IInv, TypeOK
  <1>2. /\ DOMAIN reqs'[c] = 1..n /\ reqs'[c][n] = r
        /\ \A m \in DOMAIN reqs[c] : reqs'[c][m] = reqs[c][m]
        /\ Len(reqs'[c]) = n
        /\ \A d \in Chats : d # c => reqs'[d] = reqs[d]
    BY <1>0, NewRequestGrows, NewRequestType DEF IInv
  <1>3. Touched(c, n)
    BY <1>0, <1>1, <1>2 DEF Touched
  <1>4. StateOf(c, n) = "unasked"
    BY <1>0, <1>1 DEF StateOf
  <1>5. n \in DOMAIN reqs'[c]
    BY <1>1, <1>2
  <1>6. StateOf(c, n)' \in {"unasked", "open", "denied"}
    BY <1>2, <1>5 DEF StateOf
  <1>7. AskedIsOpen'
    <2>1. ASSUME NEW d \in Chats PROVE AsksOpenly(d)'
      <3>1. CASE d = c
        BY <1>1, <1>2, <3>1 DEF AsksOpenly, Last
      <3>2. CASE d # c
        BY <1>2, <3>2 DEF AskedIsOpen, AsksOpenly, Last
      <3> QED BY <3>1, <3>2
    <2> QED BY <2>1 DEF AskedIsOpen
  <1>8. Moves(StateOf(c, n), StateOf(c, n)')
    BY <1>4, <1>6 DEF Moves
  <1> QED BY <1>3, <1>7, <1>8, TouchMoves

LEMMA JudgedRequest ==
    ASSUME IInv, AskedIsOpen, NEW c \in Chats, turn[c] = "asking", NEW v \in Verdict,
           reqs' = [reqs EXCEPT ![c][Last(c)].verdict = v],
           \/ v \in {"refused", "expired", "lost"}
           \/ v = "ran" /\ reqs[c][Last(c)].said \in {"yes", "always"},
           turn'[c] # "asking",
           \A d \in Chats : d # c => turn'[d] = turn[d]
    PROVE  AskedIsOpen' /\ (Consent!Next \/ UNCHANGED States)
  <1> reqs[c] \in Seq(Request) /\ TypeOK
    BY DEF IInv, TypeOK
  <1>0. PICK n \in Nat : n = Last(c)
    BY DEF Last
  <1>1. /\ n > 0 /\ n = Len(reqs[c]) /\ DOMAIN reqs[c] = 1..Len(reqs[c])
        /\ reqs[c] \in Seq(Request)
    BY <1>0 DEF IInv, TypeOK, Last
  <1>2. reqs[c][n].verdict = "open" /\ reqs[c][n].via = "owner" /\ n \in 1..MaxRequests
    <2>1. AsksOpenly(c) /\ MaxRequests \in Nat
      BY ConstantsAssumption DEF AskedIsOpen
    <2>2. n <= MaxRequests
      BY <1>1, <2>1 DEF AsksOpenly
    <2> QED BY <1>0, <1>1, <2>1, <2>2 DEF AsksOpenly
  <1>3. /\ n \in DOMAIN reqs[c]
        /\ Len(reqs'[c]) = Len(reqs[c])
        /\ \A d \in Chats : d # c => reqs'[d] = reqs[d]
    BY <1>0, <1>1, JudgeType DEF IInv
  <1>4. /\ DOMAIN reqs'[c] = DOMAIN reqs[c]
        /\ reqs'[c][n].verdict = v
        /\ reqs'[c][n].said = reqs[c][n].said
        /\ \A m \in DOMAIN reqs[c] : m # n => reqs'[c][m] = reqs[c][m]
        /\ reqs'[c][n].via = reqs[c][n].via
    <2>1. /\ Grows
          /\ \A d \in Chats : DOMAIN reqs'[d] = DOMAIN reqs[d]
          /\ reqs'[c][Last(c)].verdict = v
          /\ reqs'[c][Last(c)].said = reqs[c][Last(c)].said
          /\ \A m \in DOMAIN reqs[c] : m # Last(c) => reqs'[c][m] = reqs[c][m]
      BY <1>0, <1>1, JudgeGrows
    <2>2. reqs'[c][n].via = reqs[c][n].via
      BY <1>3, <2>1 DEF Grows
    <2> QED BY <1>0, <2>1, <2>2
  <1>5. Touched(c, n)
    BY <1>2, <1>3, <1>4 DEF Touched
  <1>6. reqs[c][n].said \in Said
    BY <1>1, <1>3, RequestFacts DEF IInv, Request
  <1>7. Moves(StateOf(c, n), StateOf(c, n)')
    <2> USE <1>0
    <2>1. CASE v \in {"refused", "expired", "lost"}
      <3>1. StateOf(c, n)' = "denied"
        BY <1>2, <1>3, <1>4, <2>1 DEF StateOf
      <3>2. StateOf(c, n) \in {"open", "yes", "no"}
        BY <1>2, <1>3 DEF StateOf
      <3> QED BY <3>1, <3>2 DEF Moves
    <2>2. CASE v = "ran" /\ reqs[c][n].said \in {"yes", "always"}
      <3>1. StateOf(c, n)' = "granted"
        BY <1>2, <1>3, <1>4, <2>2 DEF StateOf
      <3>2. StateOf(c, n) = "yes"
        BY <1>2, <1>3, <2>2 DEF StateOf
      <3> QED BY <3>1, <3>2 DEF Moves
    <2> QED BY <2>1, <2>2
  <1>8. AskedIsOpen'
    <2>1. ASSUME NEW d \in Chats PROVE AsksOpenly(d)'
      <3>1. CASE d = c
        BY <1>3, <3>1 DEF AskedIsOpen, AsksOpenly
      <3>2. CASE d # c
        BY <1>3, <3>2 DEF AskedIsOpen, AsksOpenly, Last
      <3> QED BY <3>1, <3>2
    <2> QED BY <2>1 DEF AskedIsOpen
  <1> QED BY <1>5, <1>7, <1>8, TouchMoves

LEMMA AnsweredRequest ==
    ASSUME IInv, AskedIsOpen, NEW c \in Chats, NEW n \in DOMAIN reqs[c],
           reqs[c][n].said = "nothing", NEW say \in {"yes", "always", "no"},
           OwnerSays(c, n, say), turn' = turn
    PROVE  AskedIsOpen' /\ (Consent!Next \/ UNCHANGED States)
  <1>1. /\ n \in 1..Len(reqs[c]) /\ n \in Nat /\ Len(reqs[c]) \in Nat
        /\ reqs[c] \in Seq(Request) /\ Len(reqs[c]) <= MaxRequests
        /\ say \in Said /\ \A d \in Chats : reqs[d] \in Seq(Request)
    BY DEF IInv, TypeOK, AskedIsOpen, AsksOpenly, Said
  <1>2. /\ reqs' \in [Chats -> Seq(Request)]
        /\ \A d \in Chats : DOMAIN reqs'[d] = DOMAIN reqs[d]
        /\ reqs'[c][n].said = say
        /\ \A i \in DOMAIN reqs[c] : i # n => reqs'[c][i] = reqs[c][i]
        /\ \A d \in Chats : \A i \in DOMAIN reqs[d] :
               reqs'[d][i].verdict = reqs[d][i].verdict /\ reqs'[d][i].via = reqs[d][i].via
    BY <1>1, AnswerGrows DEF IInv, Grows
  <1>3. \A d \in Chats : d # c => reqs'[d] = reqs[d]
    BY DEF OwnerSays, IInv, TypeOK
  <1>4. \A d \in Chats : Len(reqs'[d]) = Len(reqs[d])
    BY <1>1, <1>2
  <1>5. Touched(c, n)
    BY <1>1, <1>2, <1>3, ConstantsAssumption DEF Touched
  <1>6. Moves(StateOf(c, n), StateOf(c, n)')
    BY <1>2 DEF Moves, StateOf
  <1>7. AskedIsOpen'
    <2>1. ASSUME NEW d \in Chats PROVE AsksOpenly(d)'
      <3>1. Last(d)' = Last(d) /\ (turn[d] = "asking" => Last(d) \in DOMAIN reqs[d])
        BY <1>1, <1>4 DEF Last, IInv, TypeOK
      <3> QED BY <1>2, <1>4, <3>1 DEF AskedIsOpen, AsksOpenly
    <2> QED BY <2>1 DEF AskedIsOpen
  <1> QED BY <1>5, <1>6, <1>7, TouchMoves

-----------------------------------------------------------------------------
LEMMA StepConsents ==
    IInv /\ AskedIsOpen /\ [Next]_vars => AskedIsOpen' /\ (Consent!Next \/ UNCHANGED States)
  <1> SUFFICES ASSUME IInv, AskedIsOpen, [Next]_vars
               PROVE  AskedIsOpen' /\ (Consent!Next \/ UNCHANGED States)
    OBVIOUS
  <1> USE DEF Request, Said, Verdict
  <1>0. turn \in [Chats -> {"busy", "asking", "acting", "closed"}]
    BY DEF IInv, TypeOK
  <1>1. ASSUME NEW c \in Chats, NEW k \in Caps, AllowedByRule(c, k)
        PROVE  AskedIsOpen' /\ (Consent!Next \/ UNCHANGED States)
    <2> DEFINE r == [cap |-> k, via |-> "rule", said |-> "nothing", verdict |-> "ran"]
    <2>1. /\ r \in Request /\ r.via = "rule" /\ CanRequest(c) /\ NewRequest(c, r)
          /\ turn' = [turn EXCEPT ![c] = "acting"]
      BY <1>1 DEF AllowedByRule
    <2> HIDE DEF r
    <2> QED BY <1>0, <2>1, AddedRequest
  <1>2. ASSUME NEW c \in Chats, NEW k \in Caps, DeniedByRule(c, k)
        PROVE  AskedIsOpen' /\ (Consent!Next \/ UNCHANGED States)
    <2> DEFINE r == [cap |-> k, via |-> "rule", said |-> "nothing", verdict |-> "refused"]
    <2>1. /\ r \in Request /\ r.via = "rule" /\ CanRequest(c) /\ NewRequest(c, r)
          /\ turn' = turn /\ turn[c] = "busy"
      BY <1>2 DEF DeniedByRule, CanRequest
    <2> HIDE DEF r
    <2> QED BY <2>1, AddedRequest
  <1>3. ASSUME NEW c \in Chats, NEW k \in Caps, Ask(c, k)
        PROVE  AskedIsOpen' /\ (Consent!Next \/ UNCHANGED States)
    <2> DEFINE r == [cap |-> k, via |-> "owner", said |-> "nothing", verdict |-> "open"]
    <2>1. /\ r \in Request /\ r.via = "owner" /\ r.verdict = "open" /\ r.said = "nothing"
          /\ CanRequest(c) /\ NewRequest(c, r)
          /\ turn' = [turn EXCEPT ![c] = "asking"]
      BY <1>3 DEF Ask
    <2> HIDE DEF r
    <2> QED BY <1>0, <2>1, AddedRequest
  <1>4. ASSUME NEW c \in Chats, NEW k \in Caps, AskFails(c, k)
        PROVE  AskedIsOpen' /\ (Consent!Next \/ UNCHANGED States)
    <2> DEFINE r == [cap |-> k, via |-> "owner", said |-> "nothing", verdict |-> "lost"]
    <2>1. /\ r \in Request /\ r.via = "owner" /\ r.verdict = "lost" /\ r.said = "nothing"
          /\ CanRequest(c) /\ NewRequest(c, r)
          /\ turn' = turn /\ turn[c] = "busy"
      BY <1>4 DEF AskFails, CanRequest
    <2> HIDE DEF r
    <2> QED BY <2>1, AddedRequest
  <1>5. ASSUME NEW c \in Chats, NEW say \in {"yes", "always", "no"}, OwnerAnswers(c, say)
        PROVE  AskedIsOpen' /\ (Consent!Next \/ UNCHANGED States)
    <2>1. prompts[c] # <<>> /\ prompts[c] \in Seq(Nat)
      BY <1>5 DEF OwnerAnswers, IInv, TypeOK
    <2>2. 1 \in DOMAIN prompts[c] /\ Head(prompts[c]) = prompts[c][1]
      BY <2>1, TailFacts
    <2>3. /\ Head(prompts[c]) \in DOMAIN reqs[c]
          /\ reqs[c][Head(prompts[c])].said = "nothing"
      BY <2>2 DEF IInv, PromptsOpen
    <2>4. OwnerSays(c, Head(prompts[c]), say) /\ turn' = turn
      BY <1>5 DEF OwnerAnswers, OwnerSays
    <2> QED BY <2>3, <2>4, AnsweredRequest
  <1>6. ASSUME NEW c \in Chats, ReadAnswer(c)
        PROVE  AskedIsOpen' /\ (Consent!Next \/ UNCHANGED States)
    <2>1. turn[c] = "asking" /\ inbox[c] # <<>> /\ inbox[c] \in Seq(Answer)
      BY <1>6 DEF ReadAnswer, IInv, TypeOK
    <2>2. 1 \in DOMAIN inbox[c] /\ Head(inbox[c]) = inbox[c][1]
      BY <2>1, TailFacts
    <2>3. Truthful(c, Head(inbox[c]))
      BY <2>2 DEF IInv, AnswersTruthful
    <2>4. CASE Matches(c, Head(inbox[c])) /\ Head(inbox[c]).allow
      <3>1. reqs[c][Last(c)].said \in {"yes", "always"}
        BY <2>3, <2>4 DEF Truthful, Matches
      <3>2. /\ reqs' = [reqs EXCEPT ![c][Last(c)].verdict = "ran"]
            /\ turn' = [turn EXCEPT ![c] = "acting"]
        BY <1>6, <2>4 DEF ReadAnswer
      <3> QED BY <1>0, <2>1, <3>1, <3>2, JudgedRequest
    <2>5. CASE ~(Matches(c, Head(inbox[c])) /\ Head(inbox[c]).allow)
      <3>1. Settle(c, "refused")
        BY <1>6, <2>5 DEF ReadAnswer
      <3> QED BY <1>0, <2>1, <3>1, JudgedRequest DEF Settle
    <2> QED BY <2>4, <2>5
  <1>7. ASSUME NEW c \in Chats, Expire(c) \/ ReadEof(c)
        PROVE  AskedIsOpen' /\ (Consent!Next \/ UNCHANGED States)
    <2>1. turn[c] = "asking" /\ (Settle(c, "expired") \/ Settle(c, "lost"))
      BY <1>7 DEF Expire, DaemonDeadline, ReadEof
    <2> QED BY <1>0, <2>1, JudgedRequest DEF Settle
  <1>8. ASSUME NEW c \in Chats, NoticeEof(c)
        PROVE  AskedIsOpen' /\ (Consent!Next \/ UNCHANGED States)
    <2>1. turn' = [turn EXCEPT ![c] = "closed"]
      BY <1>8 DEF NoticeEof
    <2>2. CASE turn[c] = "asking"
      <3>1. reqs' = [reqs EXCEPT ![c][Last(c)].verdict = "lost"]
        BY <1>8, <2>2 DEF NoticeEof
      <3> QED BY <1>0, <2>1, <2>2, <3>1, JudgedRequest
    <2>3. CASE turn[c] # "asking"
      <3>1. reqs' = reqs
        BY <1>8, <2>3 DEF NoticeEof
      <3> QED BY <1>0, <2>1, <3>1, NothingMoves DEF AskedIsOpen, AsksOpenly, Last
    <2> QED BY <2>2, <2>3
  <1>9. ASSUME NEW c \in Chats, ActionEnds(c) \/ TurnEnds(c) \/ Leave(c)
        PROVE  AskedIsOpen' /\ (Consent!Next \/ UNCHANGED States)
    <2>1. /\ reqs' = reqs
          /\ \E w \in {"busy", "closed"} : turn' = turn \/ turn' = [turn EXCEPT ![c] = w]
      BY <1>9 DEF ActionEnds, TurnEnds, Leave
    <2> QED BY <1>0, <2>1, NothingMoves DEF AskedIsOpen, AsksOpenly, Last
  <1>10. CASE UNCHANGED vars
    BY <1>10, NothingMoves DEF vars, AskedIsOpen, AsksOpenly, Last
  <1> QED
    BY <1>1, <1>2, <1>3, <1>4, <1>5, <1>6, <1>7, <1>8, <1>9, <1>10 DEF Next

(* Prompts are decided once, and granted only after the owner's yes to that   *)
(* very prompt, for any number of chats whose answers, deadlines and           *)
(* disconnects cross (rpc.py, permission; security.py, authorize).             *)
THEOREM ImplementsConsent == Spec => KeepsConsent
  <1>1. Init => Consent!Init
    BY DEF Init, Consent!Init, StateOf
  <1>2. Init => AskedIsOpen
    <2>1. Len(<<>>) = 0 /\ 0 <= MaxRequests
      BY ConstantsAssumption
    <2> QED BY <2>1 DEF Init, AskedIsOpen, AsksOpenly
  <1>3. IInv /\ AskedIsOpen /\ [Next]_vars
            => /\ AskedIsOpen'
               /\ [Consent!Next]_([p \in Chats \X (1..MaxRequests) |-> StateOf(p[1], p[2])])
    BY StepConsents DEF States, Pairs
  <1> QED BY <1>1, <1>2, <1>3, Inductive, PTL DEF Spec, KeepsConsent, Consent!Spec
=============================================================================
