-------------------------- MODULE ModelRoutesProofs --------------------------
(* Where prompts go, for any number of turns, servers, providers and models,  *)
(* and whatever the owner edits meanwhile.                                    *)
EXTENDS ModelRoutes, SequenceTheorems, TLAPS

(* What the proof needs of the types. *)
Shape ==
    /\ turn = [t \in Turns |-> turn[t]]
    /\ request = [t \in Turns |-> request[t]]

RecordsOf(t) ==
    /\ turn[t] = [stage |-> turn[t].stage, asked |-> turn[t].asked, to |-> turn[t].to,
                  steps |-> turn[t].steps]
    /\ request[t] = [stage |-> request[t].stage, to |-> request[t].to,
                     options |-> request[t].options, tries |-> request[t].tries,
                     complete |-> request[t].complete]
    /\ request[t].tries \in 0..2 /\ request[t].complete \in BOOLEAN

(* A turn has resolved what it asked for, once. *)
Resolves(t) ==
    turn[t].stage # "idle" =>
        /\ turn[t].asked = None => turn[t].to = NoRoute
        /\ turn[t].asked # None => turn[t].to.kind = "cloud"
        /\ turn[t].asked \in Providers => turn[t].to.at = turn[t].asked

(* A request belongs to a turn that waits for it, and goes where that turn     *)
(* asked it to go.                                                            *)
Follows(t) ==
    request[t].stage # "none" =>
        /\ turn[t].stage = "asking"
        /\ (request[t].to.kind = "cloud") <=> (turn[t].asked # None)
        /\ turn[t].asked \in Providers => request[t].to.at = turn[t].asked

Complete(t) == request[t].stage = "answered" => request[t].complete

(* A second attempt on a cloud endpoint was caused by a refusal of that very   *)
(* endpoint.                                                                  *)
Earned(t) ==
    request[t].stage # "none" /\ request[t].to.kind = "cloud" /\ request[t].tries = 2 =>
        request[t].to \in refused

Good(t) == RecordsOf(t) /\ Resolves(t) /\ Follows(t) /\ Complete(t) /\ Earned(t)

IInv == Shape /\ (\A t \in Turns : Good(t)) /\ RememberedWasRefused

(* What RecoveryStaysPut says of one turn's step. *)
Recovers(t) ==
    request[t].stage = "opening" /\ request'[t].stage # "none" =>
        /\ request'[t].to = request[t].to
        /\ request'[t].tries > request[t].tries => request[t].tries = 1

(* Nothing else than Send opens a request. *)
Opens(t) == Sends(t) => Send(t)

USE ConfigAssumption, RequestAssumption, RoutesAssumption
    DEF ConfigAssumption, RequestAssumption, RoutesAssumption

LEMMA InitIInv == Init => IInv
  <1> SUFFICES ASSUME Init PROVE IInv
    OBVIOUS
  <1> USE DEF Init, RequestInit
  <1>1. Shape
    BY DEF Shape
  <1>2. ASSUME NEW t \in Turns PROVE Good(t)
    <2>1. turn[t] = NoTurn /\ request[t] = NoRequest
      OBVIOUS
    <2>2. /\ turn[t].stage = "idle" /\ request[t].stage = "none" /\ request[t].tries = 0
          /\ request[t].complete \in BOOLEAN
      BY <2>1 DEF NoTurn, NoRequest
    <2>3. RecordsOf(t)
      BY <2>1, <2>2 DEF NoTurn, NoRequest, RecordsOf
    <2> QED BY <2>2, <2>3 DEF Good, Resolves, Follows, Complete, Earned
  <1> QED BY <1>1, <1>2 DEF IInv, RememberedWasRefused

-----------------------------------------------------------------------------
(* A step is a step of one turn, or of none. *)

OnlyTurn(t) ==
    /\ turn' = [turn EXCEPT ![t] = turn'[t]]
    /\ request' = [request EXCEPT ![t] = request'[t]]

Keeps == IInv' /\ \A t \in Turns : Recovers(t) /\ Opens(t)

LEMMA OneTurnMoves ==
    ASSUME IInv, NEW t \in Turns, OnlyTurn(t), Good(t)', Recovers(t), Opens(t),
           RememberedWasRefused', refused \subseteq refused'
    PROVE  Keeps
  <1>1. Shape'
    BY DEF IInv, Shape, OnlyTurn
  <1>2. \A u \in Turns : u # t => turn'[u] = turn[u] /\ request'[u] = request[u]
    BY DEF IInv, Shape, OnlyTurn
  <1>3. ASSUME NEW u \in Turns, u # t PROVE Good(u)' /\ Recovers(u) /\ Opens(u)
    <2>1. Good(u) /\ turn'[u] = turn[u] /\ request'[u] = request[u]
      BY <1>2, <1>3 DEF IInv
    <2>2. Good(u)'
      BY <2>1 DEF Good, RecordsOf, Resolves, Follows, Complete, Earned
    <2>3. ~(request'[u].tries > request[u].tries)
      BY <2>1 DEF Good, RecordsOf
    <2> QED BY <2>1, <2>2, <2>3 DEF Recovers, Opens, Sends
  <1> QED BY <1>1, <1>3 DEF Keeps, IInv

LEMMA NoTurnMoves ==
    ASSUME IInv, turn' = turn, UNCHANGED requestVars
    PROVE  Keeps
  <1>1. ASSUME NEW u \in Turns PROVE Good(u)' /\ Recovers(u) /\ Opens(u)
    <2>1. Good(u)
      BY DEF IInv
    <2>2. Good(u)'
      BY <2>1 DEF requestVars, Good, RecordsOf, Resolves, Follows, Complete, Earned
    <2>3. ~(request'[u].tries > request[u].tries)
      BY <2>1 DEF requestVars, Good, RecordsOf
    <2> QED BY <2>2, <2>3 DEF Recovers, Opens, Sends, requestVars
  <1> QED BY <1>1 DEF Keeps, IInv, Shape, RememberedWasRefused, requestVars

-----------------------------------------------------------------------------
(* Steps of the turn. *)

LEMMA BeginKeeps ==
    ASSUME IInv, NEW t \in Turns, NEW asked, Begin(t, asked), UNCHANGED requestVars
    PROVE  Keeps
  <1>1. Shape /\ Good(t) /\ turn[t].stage = "idle"
    BY DEF IInv, Begin
  <1>2. request'[t] = request[t] /\ request' = request
    BY DEF requestVars
  <1>3. request[t].stage = "none"
    BY <1>1 DEF Good, Follows
  <1>4. CASE asked = None
    <2>1. turn' = [turn EXCEPT ![t] = [NoTurn EXCEPT !.stage = "check"]]
      BY <1>4 DEF Begin
    <2>2. turn'[t] = [stage |-> "check", asked |-> None, to |-> NoRoute, steps |-> 0]
      BY <1>1, <2>1 DEF Shape, NoTurn
    <2>3. OnlyTurn(t)
      BY <1>1, <1>2, <2>1 DEF OnlyTurn, Shape
    <2>4. Good(t)'
      BY <1>1, <1>2, <1>3, <2>2 DEF Good, RecordsOf, Resolves, Follows, Complete, Earned
    <2> QED BY <1>2, <1>3, <2>3, <2>4, OneTurnMoves
        DEF Recovers, Opens, Sends, IInv, RememberedWasRefused, requestVars
  <1>5. CASE asked # None
    <2>1. turn' = [turn EXCEPT ![t] = [NoTurn EXCEPT !.stage = "send", !.asked = asked,
                                            !.to = CloudRoute(Resolved(asked))]]
      BY <1>5 DEF Begin
    <2>2. turn'[t] = [stage |-> "send", asked |-> asked, to |-> CloudRoute(Resolved(asked)),
                      steps |-> 0]
      BY <1>1, <2>1 DEF Shape, NoTurn
    <2>3. OnlyTurn(t)
      BY <1>1, <1>2, <2>1 DEF OnlyTurn, Shape
    <2>4. asked \in Providers => Resolved(asked) = asked
      BY DEF Resolved
    <2>5. Good(t)'
      BY <1>1, <1>2, <1>3, <1>5, <2>2, <2>4
      DEF Good, RecordsOf, Resolves, Follows, Complete, Earned, CloudRoute
    <2> QED BY <1>2, <1>3, <2>3, <2>5, OneTurnMoves
        DEF Recovers, Opens, Sends, IInv, RememberedWasRefused, requestVars
  <1> QED BY <1>4, <1>5

LEMMA OverKeeps ==
    ASSUME IInv, NEW t \in Turns, turn' = [turn EXCEPT ![t] = NoTurn],
           request' = [request EXCEPT ![t] = NoRequest], UNCHANGED <<textTools, refused>>
    PROVE  Keeps
  <1>1. turn'[t] = NoTurn /\ request'[t] = NoRequest /\ OnlyTurn(t)
    BY DEF IInv, Shape, OnlyTurn
  <1>2. /\ turn'[t] = [stage |-> "idle", asked |-> None, to |-> NoRoute, steps |-> 0]
        /\ request'[t] = [stage |-> "none", to |-> NoRoute,
                          options |-> [small |-> FALSE, cpu |-> FALSE],
                          tries |-> 0, complete |-> FALSE]
    BY <1>1 DEF NoTurn, NoRequest
  <1>3. Good(t)'
    <2>1. /\ turn'[t].stage = "idle" /\ request'[t].stage = "none" /\ request'[t].tries = 0
          /\ request'[t].complete \in BOOLEAN
      <3>1. request'[t] = NoRequest /\ NoRequest.complete \in BOOLEAN
        BY <1>1 DEF NoRequest
      <3> QED BY <1>2, <3>1
    <2>2. RecordsOf(t)'
      BY <1>2, <2>1 DEF RecordsOf
    <2> QED BY <2>1, <2>2 DEF Good, Resolves, Follows, Complete, Earned
  <1>4. Recovers(t) /\ Opens(t)
    BY <1>2 DEF Recovers, Opens, Sends
  <1> QED BY <1>1, <1>3, <1>4, OneTurnMoves DEF IInv, RememberedWasRefused

LEMMA ReadyKeeps ==
    ASSUME IInv, NEW t \in Turns, Ready(t)
    PROVE  Keeps
  <1>1. Shape /\ Good(t) /\ turn[t].stage = "check"
    BY DEF IInv, Ready
  <1>2. /\ turn'[t] = [turn[t] EXCEPT !.stage = "send"] /\ OnlyTurn(t)
        /\ request' = request /\ textTools' = textTools /\ refused' = refused
    BY <1>1 DEF Ready, Shape, OnlyTurn, requestVars
  <1>3. request[t].stage = "none"
    BY <1>1 DEF Good, Follows
  <1>4. turn'[t] = [stage |-> "send", asked |-> turn[t].asked, to |-> turn[t].to,
                    steps |-> turn[t].steps]
    BY <1>1, <1>2 DEF Good, RecordsOf
  <1>5. Good(t)' /\ Recovers(t) /\ Opens(t)
    BY <1>1, <1>2, <1>3, <1>4
    DEF Good, RecordsOf, Resolves, Follows, Complete, Earned, Recovers, Opens, Sends
  <1> QED BY <1>2, <1>5, OneTurnMoves DEF IInv, RememberedWasRefused

LEMMA SendKeeps ==
    ASSUME IInv, NEW t \in Turns, Send(t)
    PROVE  Keeps
  <1>1. Shape /\ Good(t) /\ turn[t].stage = "send"
    BY DEF IInv, Send
  <1>2. PICK options : Open(t, RouteOf(t), options)
    BY DEF Send
  <1>3. /\ turn'[t] = [turn[t] EXCEPT !.stage = "asking", !.steps = @ + 1]
        /\ request'[t] = [stage |-> "opening", to |-> RouteOf(t), options |-> options,
                          tries |-> 1, complete |-> FALSE]
        /\ textTools' = textTools /\ refused' = refused
    BY <1>1, <1>2 DEF Send, Open, Shape
  <1>4. OnlyTurn(t)
    BY <1>1, <1>2 DEF Send, Open, Shape, OnlyTurn
  <1>5. request[t].stage = "none"
    BY <1>1 DEF Good, Follows
  <1>6. turn'[t] = [stage |-> "asking", asked |-> turn[t].asked, to |-> turn[t].to,
                    steps |-> turn[t].steps + 1]
    BY <1>1, <1>3 DEF Good, RecordsOf
  <1>7. /\ RouteOf(t).kind = "cloud" <=> turn[t].asked # None
        /\ turn[t].asked \in Providers => RouteOf(t).at = turn[t].asked
    BY <1>1 DEF Good, Resolves, RouteOf, LocalRoute, NoRoute
  <1>8. Good(t)'
    BY <1>1, <1>3, <1>6, <1>7 DEF Good, RecordsOf, Resolves, Follows, Complete, Earned
  <1> QED BY <1>3, <1>4, <1>5, <1>8, OneTurnMoves DEF Recovers, Opens, IInv, RememberedWasRefused

LEMMA AnotherStepKeeps ==
    ASSUME IInv, NEW t \in Turns, AnotherStep(t)
    PROVE  Keeps
  <1>1. Shape /\ Good(t) /\ turn[t].stage = "asking"
    BY DEF IInv, AnotherStep
  <1>2. PICK stage : turn' = [turn EXCEPT ![t].stage = stage]
    BY DEF AnotherStep
  <1>3. /\ request'[t] = NoRequest /\ OnlyTurn(t)
        /\ textTools' = textTools /\ refused' = refused
    BY <1>1, <1>2 DEF AnotherStep, Shape, OnlyTurn
  <1>4. turn'[t] = [stage |-> stage, asked |-> turn[t].asked, to |-> turn[t].to,
                    steps |-> turn[t].steps]
    BY <1>1, <1>2 DEF Good, RecordsOf, Shape
  <1>5. Good(t)' /\ Recovers(t) /\ Opens(t)
    BY <1>1, <1>3, <1>4
    DEF Good, RecordsOf, Resolves, Follows, Complete, Earned, Recovers, Opens, Sends, NoRequest
  <1> QED BY <1>3, <1>5, OneTurnMoves DEF IInv, RememberedWasRefused

-----------------------------------------------------------------------------
(* Steps of the request. *)

(* The stage and whether the answer is complete change, nothing else. *)
StageIs(t, stage, complete) ==
    /\ turn' = turn
    /\ request[t].stage # "none"
    /\ request' = [request EXCEPT ![t] = request'[t]]
    /\ request'[t] = [stage |-> stage, to |-> request[t].to, options |-> request[t].options,
                      tries |-> request[t].tries, complete |-> complete]

LEMMA StageKeeps ==
    ASSUME IInv, NEW t \in Turns, NEW stage, NEW complete \in BOOLEAN,
           StageIs(t, stage, complete), stage = "answered" => complete,
           RememberedWasRefused', refused' = refused
    PROVE  Keeps
  <1>1. Shape /\ Good(t)
    BY DEF IInv
  <1>2. /\ OnlyTurn(t) /\ turn'[t] = turn[t]
        /\ request'[t] = [stage |-> stage, to |-> request[t].to,
                          options |-> request[t].options,
                          tries |-> request[t].tries, complete |-> complete]
    BY <1>1 DEF OnlyTurn, Shape, StageIs
  <1>3. Good(t)'
    <2>1. RecordsOf(t)'
      BY <1>1, <1>2 DEF Good, RecordsOf
    <2>2. Resolves(t)' /\ Follows(t)'
      BY <1>1, <1>2 DEF Good, Resolves, Follows, StageIs
    <2>3. Complete(t)' /\ Earned(t)'
      BY <1>1, <1>2 DEF Complete, Good, Earned, StageIs
    <2> QED BY <2>1, <2>2, <2>3 DEF Good
  <1>4. Recovers(t) /\ Opens(t)
    BY <1>1, <1>2 DEF Good, RecordsOf, Recovers, StageIs, Opens, Sends
  <1> QED BY <1>2, <1>3, <1>4, OneTurnMoves

LEMMA EndKeeps ==
    ASSUME IInv, NEW t \in Turns, turn' = turn, NEW stage, request[t].stage # "none",
           EndsAs(t, stage), stage = "answered" => request[t].complete
    PROVE  Keeps
  <1>1. Shape /\ Good(t) /\ request[t].complete \in BOOLEAN
    BY DEF IInv, Good, RecordsOf
  <1>2. StageIs(t, stage, request[t].complete)
    BY <1>1 DEF EndsAs, Shape, Good, RecordsOf, StageIs
  <1>3. RememberedWasRefused'
    BY DEF IInv, EndsAs, RememberedWasRefused
  <1> QED BY <1>1, <1>2, <1>3, StageKeeps DEF EndsAs

LEMMA RetryKeeps ==
    ASSUME IInv, NEW t \in Turns, turn' = turn, NEW options, request[t].stage # "none",
           Retry(t, options), request[t].tries = 1, textTools' = textTools,
           refused \subseteq refused',
           request[t].to.kind = "cloud" => request[t].to \in refused'
    PROVE  Keeps
  <1>1. Shape /\ Good(t)
    BY DEF IInv
  <1>2. request'[t] = [stage |-> request[t].stage, to |-> request[t].to, options |-> options,
                       tries |-> 2, complete |-> request[t].complete]
    BY <1>1 DEF Retry, Again, Good, RecordsOf, Shape
  <1>3. OnlyTurn(t)
    BY <1>1 DEF OnlyTurn, Shape, Retry
  <1>4. Good(t)' /\ Recovers(t) /\ Opens(t)
    BY <1>1, <1>2 DEF Good, RecordsOf, Resolves, Follows, Complete, Earned, Recovers, Opens, Sends
  <1>5. RememberedWasRefused'
    BY DEF IInv, RememberedWasRefused
  <1> QED BY <1>3, <1>4, <1>5, OneTurnMoves

LEMMA AskingKeeps ==
    ASSUME IInv, NEW t \in Turns, Asking(t)
    PROVE  Keeps
  <1>1. turn' = turn /\ RequestNext(t) /\ Shape /\ Good(t) /\ RememberedWasRefused
    BY DEF Asking, turnVars, IInv
  <1>2. CASE OutOfMemory(t)
    <2>1. request[t].stage # "none"
      BY <1>2 DEF OutOfMemory
    <2>2. \/ EndsAs(t, "exhausted")
          \/ /\ \E options : Retry(t, options)
             /\ request[t].tries = 1 /\ UNCHANGED <<textTools, refused>>
             /\ request[t].to.kind # "cloud"
      BY <1>2 DEF OutOfMemory
    <2> QED BY <1>1, <2>1, <2>2, EndKeeps, RetryKeeps
  <1>3. CASE ToolsRefused(t)
    <2>1. request[t].stage # "none"
      BY <1>3 DEF ToolsRefused
    <2>2. \/ EndsAs(t, "failed")
          \/ /\ Retry(t, request[t].options) /\ request[t].tries = 1
             /\ textTools' = textTools /\ refused' = refused \cup {request[t].to}
      BY <1>3 DEF ToolsRefused
    <2> QED BY <1>1, <2>1, <2>2, EndKeeps, RetryKeeps
  <1>4. CASE Refused(t)
    BY <1>1, <1>4, EndKeeps DEF Refused
  <1>5. CASE Opened(t)
    <2>1. StageIs(t, "streaming", request[t].complete)
      BY <1>1, <1>5 DEF Opened, Shape, Good, RecordsOf, StageIs
    <2>2. RememberedWasRefused'
      <3>1. CASE request[t].to.kind = "cloud" /\ request[t].tries = 2
        <4>1. request[t].to \in refused
          BY <1>1, <1>5, <3>1 DEF Opened, Good, Earned
        <4> QED BY <1>1, <1>5, <3>1, <4>1 DEF Opened, Remembered, RememberedWasRefused
      <3>2. CASE ~(request[t].to.kind = "cloud" /\ request[t].tries = 2)
        BY <1>1, <1>5, <3>2 DEF Opened, RememberedWasRefused
      <3> QED BY <3>1, <3>2
    <2>3. request[t].complete \in BOOLEAN
      BY <1>1 DEF Good, RecordsOf
    <2> QED BY <1>5, <2>1, <2>2, <2>3, StageKeeps DEF Opened
  <1>6. CASE FinishReason(t)
    <2>1. StageIs(t, "streaming", TRUE)
      BY <1>1, <1>6 DEF FinishReason, Shape, Good, RecordsOf, StageIs
    <2>2. RememberedWasRefused'
      BY <1>1, <1>6 DEF FinishReason, RememberedWasRefused
    <2> QED BY <1>6, <2>1, <2>2, StageKeeps DEF FinishReason
  <1>7. CASE LastLine(t)
    <2>1. StageIs(t, "answered", TRUE)
      BY <1>1, <1>7 DEF LastLine, Shape, Good, RecordsOf, StageIs
    <2>2. RememberedWasRefused'
      BY <1>1, <1>7 DEF LastLine, RememberedWasRefused
    <2> QED BY <1>7, <2>1, <2>2, StageKeeps DEF LastLine
  <1>8. CASE EndOfStream(t)
    BY <1>1, <1>8, EndKeeps DEF EndOfStream, Answers
  <1>9. CASE StreamFails(t)
    BY <1>1, <1>9, EndKeeps DEF StreamFails
  <1> QED BY <1>1, <1>2, <1>3, <1>4, <1>5, <1>6, <1>7, <1>8, <1>9 DEF RequestNext

-----------------------------------------------------------------------------
(* The file of servers: every name once, and the default is one of them. *)

Distinct == \A i, j \in DOMAIN servers : servers[i].name = servers[j].name => i = j

FileOK ==
    /\ servers \in Seq(Entry)
    /\ default \in Names \cup {None}
    /\ Distinct
    /\ DefaultIsAServer

LEMMA FileFacts ==
    ASSUME FileOK
    PROVE  /\ Len(servers) \in Nat /\ DOMAIN servers = 1..Len(servers)
           /\ \A i \in DOMAIN servers : servers[i] \in Entry /\ servers[i].name \in Names
           /\ HasActive => 1 \in DOMAIN servers
           /\ ~HasActive => DOMAIN servers = {}
  <1>1. servers \in Seq(Entry)
    BY DEF FileOK
  <1>2. \A e \in Entry : e.name \in Names
    BY DEF Entry
  <1>3. Len(servers) \in Nat /\ DOMAIN servers = 1..Len(servers)
    BY <1>1
  <1>4. \A i \in DOMAIN servers : servers[i] \in Entry
    BY <1>1
  <1>5. servers # <<>> => 1 \in DOMAIN servers
    BY <1>1
  <1>6. servers = <<>> => DOMAIN servers = {}
    OBVIOUS
  <1> QED BY <1>2, <1>3, <1>4, <1>5, <1>6 DEF HasActive

LEMMA InitFile == ConfigInit => FileOK
  <1> SUFFICES ASSUME ConfigInit PROVE FileOK
    OBVIOUS
  <1>1. servers \in Seq(Entry) /\ Distinct
    BY DEF ConfigInit, Distinct
  <1>2. CASE servers = <<>>
    BY <1>1, <1>2 DEF ConfigInit, FileOK, DefaultIsAServer, HasActive
  <1>3. CASE servers # <<>>
    <2>1. 1 \in DOMAIN servers /\ default = servers[1].name /\ servers[1] \in Entry
      BY <1>1, <1>3 DEF ConfigInit
    <2>2. 1 \in Named(default, servers) /\ default \in Names
      BY <2>1 DEF Named, Entry
    <2> QED BY <1>1, <1>3, <2>2 DEF FileOK, DefaultIsAServer, HasActive, Known
  <1> QED BY <1>2, <1>3

(* An entry is changed in place, or another default is chosen. *)
LEMMA SameNames ==
    ASSUME FileOK, servers' \in Seq(Entry), DOMAIN servers' = DOMAIN servers,
           \A i \in DOMAIN servers : servers'[i].name = servers[i].name,
           default' = default \/ Known(default')
    PROVE  FileOK'
  <1>1. Distinct'
    BY DEF FileOK, Distinct
  <1>2. ASSUME NEW n, Known(n) PROVE Named(n, servers') # {}
    BY <1>2 DEF Known, Named
  <1>3. ASSUME NEW n, Known(n) PROVE n \in Names
    BY <1>3, FileFacts DEF Known, Named
  <1>4. HasActive' <=> HasActive
    BY DEF FileOK, HasActive
  <1>5. HasActive => Known(default') /\ default' \in Names
    BY <1>3 DEF FileOK, DefaultIsAServer
  <1>6. ~HasActive => default' = None
    BY FileFacts DEF FileOK, DefaultIsAServer, Known, Named
  <1>7. DefaultIsAServer' /\ default' \in Names \cup {None}
    BY <1>2, <1>4, <1>5, <1>6 DEF DefaultIsAServer, Known
  <1> QED BY <1>1, <1>7 DEF FileOK

LEMMA AddServerFile ==
    ASSUME FileOK, NEW n \in Names, NEW u \in Hosts, AddServer(n, u)
    PROVE  FileOK'
  <1>1. CASE Known(n)
    <2>1. servers' = [i \in DOMAIN servers |-> IF servers[i].name = n
                          THEN [servers[i] EXCEPT !.url = u] ELSE servers[i]]
      BY <1>1 DEF AddServer
    <2>2. HasActive /\ default' = default
      <3>1. HasActive
        BY <1>1, FileFacts DEF Known, Named
      <3>2. default # None
        BY <3>1, FileFacts DEF FileOK, DefaultIsAServer, Known, Named
      <3> QED BY <3>1, <3>2 DEF AddServer
    <2>3. \A i \in DOMAIN servers : /\ servers'[i] \in Entry
                                    /\ servers'[i].name = servers[i].name
      BY <2>1, FileFacts DEF Entry
    <2>4. servers' \in Seq(Entry) /\ DOMAIN servers' = DOMAIN servers
      BY <2>1, <2>3, FileFacts, IsASeq
    <2> QED BY <2>2, <2>3, <2>4, SameNames
  <1>2. CASE ~Known(n)
    <2> DEFINE e == [name |-> n, url |-> u, model |-> None,
                     options |-> [small |-> FALSE, cpu |-> FALSE]]
    <2>1. servers' = Append(servers, e)
      BY <1>2 DEF AddServer
    <2>2. e \in Entry /\ e.name = n
      BY DEF Entry, Options
    <2> HIDE DEF e
    <2>3. /\ servers' \in Seq(Entry) /\ DOMAIN servers' = 1..(Len(servers) + 1)
          /\ \A i \in 1..Len(servers) : servers'[i] = servers[i]
          /\ servers'[Len(servers) + 1] = e
      BY <2>1, <2>2 DEF FileOK
    <2>4. \A i \in DOMAIN servers : servers[i].name # n
      BY <1>2 DEF Known, Named
    <2>5. Distinct'
      BY <2>2, <2>3, <2>4, FileFacts DEF FileOK, Distinct
    <2>6. servers' # <<>>
      BY <2>3, FileFacts
    <2>7. default' \in Names /\ \E i \in DOMAIN servers' : servers'[i].name = default'
      <3>1. CASE default = None
        <4>1. default' = n /\ Len(servers) + 1 \in DOMAIN servers'
          BY <2>3, <3>1, FileFacts DEF AddServer
        <4> QED BY <2>2, <2>3, <4>1
      <3>2. CASE default # None
        <4>1. Known(default) /\ default' = default
          BY <3>2 DEF FileOK, DefaultIsAServer, AddServer
        <4> QED BY <2>3, <3>2, <4>1, FileFacts DEF FileOK, Known, Named
      <3> QED BY <3>1, <3>2
    <2> QED BY <2>3, <2>5, <2>6, <2>7 DEF FileOK, DefaultIsAServer, HasActive, Known, Named
  <1> QED BY <1>1, <1>2

LEMMA WithoutFacts ==
    ASSUME FileOK, NEW n, Known(n)
    PROVE  /\ Without(n) \in Seq(Entry)
           /\ \E f \in [DOMAIN Without(n) -> DOMAIN servers] :
                  /\ \A i \in DOMAIN Without(n) : Without(n)[i] = servers[f[i]]
                  /\ \A i, j \in DOMAIN Without(n) : f[i] = f[j] => i = j
                  /\ \A k \in DOMAIN servers : servers[k].name # n =>
                         \E i \in DOMAIN Without(n) : f[i] = k
  <1> DEFINE k     == CHOOSE i \in Named(n, servers) : TRUE
             front == SubSeq(servers, 1, k - 1)
             back  == SubSeq(servers, k + 1, Len(servers))
             f     == [i \in 1..(Len(servers) - 1) |-> IF i < k THEN i ELSE i + 1]
  <1>1. k \in Named(n, servers)
    BY DEF Known
  <1>2. k \in 1..Len(servers) /\ Len(servers) \in Nat /\ servers[k].name = n
    BY <1>1, FileFacts DEF Named
  <1>3. Without(n) = front \o back
    BY DEF Without, RemoveAt
  <1>4. \A j \in 1..Len(servers) : servers[j].name = n => j = k
    BY <1>2, FileFacts DEF FileOK, Distinct
  <1> HIDE DEF k
  <1>5. /\ front \in Seq(Entry) /\ Len(front) = k - 1
        /\ \A i \in 1..(k - 1) : front[i] = servers[i]
    BY <1>2 DEF FileOK
  <1>6. /\ back \in Seq(Entry) /\ Len(back) = Len(servers) - k
        /\ \A i \in 1..(Len(servers) - k) : back[i] = servers[i + k]
    BY <1>2 DEF FileOK
  <1> HIDE DEF front, back
  <1>7. /\ Without(n) \in Seq(Entry)
        /\ Len(Without(n)) = Len(front) + Len(back)
        /\ \A i \in 1..(Len(front) + Len(back)) :
               Without(n)[i] = IF i <= Len(front) THEN front[i] ELSE back[i - Len(front)]
    <2>1. /\ front \o back \in Seq(Entry)
          /\ Len(front \o back) = Len(front) + Len(back)
          /\ \A i \in 1..(Len(front) + Len(back)) :
                 (front \o back)[i] = IF i <= Len(front) THEN front[i] ELSE back[i - Len(front)]
      <3>1. front \in Seq(Entry) /\ back \in Seq(Entry)
        BY <1>5, <1>6
      <3> QED BY <3>1, ConcatProperties
    <2> QED BY <1>3, <2>1
  <1>8. DOMAIN Without(n) = 1..(Len(servers) - 1)
    BY <1>2, <1>5, <1>6, <1>7
  <1>9. f \in [DOMAIN Without(n) -> DOMAIN servers]
    BY <1>2, <1>8, FileFacts
  <1>10. ASSUME NEW i \in DOMAIN Without(n) PROVE Without(n)[i] = servers[f[i]]
    <2>1. i \in 1..(Len(servers) - 1) /\ i \in 1..(Len(front) + Len(back))
      BY <1>2, <1>5, <1>6, <1>8, <1>10
    <2>2. CASE i < k
      BY <1>2, <1>5, <1>7, <2>1, <2>2
    <2>3. CASE ~(i < k)
      <3>1. /\ i - Len(front) \in 1..(Len(servers) - k)
            /\ i - Len(front) + k = i + 1 /\ ~(i <= Len(front))
        BY <1>2, <1>5, <2>1, <2>3
      <3>2. Without(n)[i] = back[i - Len(front)]
        BY <1>7, <2>1, <3>1
      <3>3. back[i - Len(front)] = servers[i + 1]
        BY <1>6, <3>1
      <3> QED BY <2>1, <2>3, <3>2, <3>3
    <2> QED BY <2>2, <2>3
  <1>11. \A i, j \in DOMAIN Without(n) : f[i] = f[j] => i = j
    BY <1>2, <1>8
  <1>12. ASSUME NEW m \in DOMAIN servers, servers[m].name # n
         PROVE  \E i \in DOMAIN Without(n) : f[i] = m
    <2>1. m \in 1..Len(servers) /\ m # k
      BY <1>2, <1>12, FileFacts
    <2>2. CASE m < k
      <3>1. m \in 1..(Len(servers) - 1) /\ f[m] = m
        BY <1>2, <2>1, <2>2
      <3> QED BY <1>8, <3>1
    <2>3. CASE m > k
      <3>1. m - 1 \in 1..(Len(servers) - 1) /\ f[m - 1] = m
        BY <1>2, <2>1, <2>3
      <3> QED BY <1>8, <3>1
    <2>4. m < k \/ m > k
      BY <1>2, <2>1
    <2> QED BY <2>2, <2>3, <2>4
  <1> HIDE DEF f
  <1> QED BY <1>7, <1>9, <1>10, <1>11, <1>12

LEMMA RemoveServerFile ==
    ASSUME FileOK, NEW n \in Names, RemoveServer(n)
    PROVE  FileOK'
  <1>1. Known(n) /\ servers' = Without(n)
    BY DEF RemoveServer
  <1>2. servers' \in Seq(Entry)
    BY <1>1, WithoutFacts
  <1>3. PICK f \in [DOMAIN servers' -> DOMAIN servers] :
            /\ \A i \in DOMAIN servers' : servers'[i] = servers[f[i]]
            /\ \A i, j \in DOMAIN servers' : f[i] = f[j] => i = j
            /\ \A k \in DOMAIN servers : servers[k].name # n => \E i \in DOMAIN servers' : f[i] = k
    BY <1>1, WithoutFacts
  <1>4. Distinct'
    BY <1>3 DEF FileOK, Distinct
  <1>5. HasActive /\ Known(default) /\ default \in Names
    BY <1>1, FileFacts DEF Known, Named, FileOK, DefaultIsAServer
  <1>6. CASE default # n
    <2>1. default' = default
      BY <1>6 DEF RemoveServer
    <2>2. PICK k \in DOMAIN servers : servers[k].name = default
      BY <1>5 DEF Known, Named
    <2>3. PICK i \in DOMAIN servers' : servers'[i].name = default
      BY <1>3, <1>6, <2>2
    <2>4. servers' # <<>>
      BY <2>3
    <2> QED BY <1>2, <1>4, <1>5, <2>1, <2>3, <2>4
        DEF FileOK, DefaultIsAServer, HasActive, Known, Named
  <1>7. CASE default = n
    <2>1. default' = IF servers' = <<>> THEN None ELSE servers'[1].name
      BY <1>7 DEF RemoveServer
    <2>2. servers' # <<>> => 1 \in DOMAIN servers' /\ servers'[1] \in Entry
      BY <1>2
    <2> QED BY <1>2, <1>4, <2>1, <2>2
        DEF FileOK, DefaultIsAServer, HasActive, Known, Named, Entry
  <1> QED BY <1>6, <1>7

LEMMA OptionsFile ==
    ASSUME FileOK, NEW n, NEW o \in Options, SetOptions(n, o)
    PROVE  FileOK'
  <1>1. servers' = [i \in DOMAIN servers |-> IF servers[i].name = n
                        THEN [servers[i] EXCEPT !.options = o] ELSE servers[i]]
    BY DEF SetOptions
  <1>2. \A i \in DOMAIN servers : /\ servers'[i] \in Entry
                                  /\ servers'[i].name = servers[i].name
    BY <1>1, FileFacts DEF Entry
  <1>3. servers' \in Seq(Entry) /\ DOMAIN servers' = DOMAIN servers
    BY <1>1, <1>2, FileFacts, IsASeq
  <1> QED BY <1>2, <1>3, SameNames DEF SetOptions

LEMMA LocalModelFile ==
    ASSUME FileOK, NEW n, NEW m \in Models, SetLocalModel(n, m)
    PROVE  /\ FileOK'
           /\ DOMAIN servers' = DOMAIN servers
           /\ \A i \in DOMAIN servers :
                  servers'[i].model # servers[i].model => servers[i].name = Target(n)
  <1>1. servers' = [i \in DOMAIN servers |-> IF servers[i].name = Target(n)
                        THEN [servers[i] EXCEPT !.model = m] ELSE servers[i]]
    BY DEF SetLocalModel
  <1>2. \A i \in DOMAIN servers : /\ servers'[i] \in Entry
                                  /\ servers'[i].name = servers[i].name
    BY <1>1, FileFacts DEF Entry
  <1>3. servers' \in Seq(Entry) /\ DOMAIN servers' = DOMAIN servers
    BY <1>1, <1>2, FileFacts, IsASeq
  <1> QED BY <1>1, <1>2, <1>3, SameNames DEF SetLocalModel

-----------------------------------------------------------------------------
(* Types, in parts that few actions touch: the registries, what turns and      *)
(* requests hold, what chats and selections wait for.                         *)

TurnRecord == [stage : {"idle", "check", "send", "asking"}, asked : Asked,
               to : Route \cup {NoRoute}, steps : 0..MaxSteps]
RequestRecord == [stage : Stages, to : Route \cup {NoRoute}, options : Options,
                  tries : 0..2, complete : BOOLEAN]
SelectRecord == [stage : {"idle", "looking"}, host : Hosts \cup {None},
                 name : Names \cup {None}, model : Models \cup {None}]

(* A provider that a chat has chosen stays configured. *)
CloudOK ==
    /\ cloud \in [Providers -> Account \cup {NoAccount}]
    /\ preferred \in Providers \cup {None}
    /\ route \in [Chats -> Providers \cup {None}]
    /\ \A c \in Chats : route[c] # None => route[c] \in Configured

(* A turn that goes on has a step left. *)
TurnsOK ==
    /\ turn \in [Turns -> TurnRecord]
    /\ \A t \in Turns : turn[t].stage \in {"check", "send"} => turn[t].steps < MaxSteps

RequestsOK ==
    /\ request \in [Turns -> RequestRecord]
    /\ \A t \in Turns : request[t].stage # "none" => request[t].to \in Route
    /\ textTools \subseteq Providers \X Models
    /\ refused \subseteq Route

(* Prompts that wait were sent. *)
ChatsOK ==
    /\ commands \in 0..MaxCommands
    /\ waiting \in [Chats -> 0..MaxCommands]
    /\ \A c \in Chats : waiting[c] <= commands
    /\ choices \in [Chats -> SUBSET Models]

(* A selection under way has a host and a model; a chat's names the server     *)
(* whose models are looked at.                                                *)
SelectOK ==
    /\ select \in [Consoles \cup {Bridge} -> SelectRecord]
    /\ \A s \in Consoles \cup {Bridge} :
           select[s].stage = "looking" => select[s].model \in Models
    /\ select[Bridge].stage = "looking" => select[Bridge].name \in Names

RInv == FileOK /\ CloudOK /\ TurnsOK /\ RequestsOK /\ ChatsOK /\ SelectOK

LEMMA RInvTypes == RInv => TypeOK
  BY DEF RInv, FileOK, CloudOK, TurnsOK, RequestsOK, ChatsOK, SelectOK, TypeOK, ConfigTypeOK,
         RequestTypeOK, TurnRecord, RequestRecord, SelectRecord

LEMMA Unchanged ==
    /\ FileOK /\ UNCHANGED ollamaVars => FileOK'
    /\ CloudOK /\ UNCHANGED <<cloudVars, route>> => CloudOK'
    /\ TurnsOK /\ turn' = turn => TurnsOK'
    /\ RequestsOK /\ UNCHANGED requestVars => RequestsOK'
    /\ ChatsOK /\ UNCHANGED <<waiting, choices, commands>> => ChatsOK'
    /\ SelectOK /\ select' = select => SelectOK'
  <1>1. FileOK /\ UNCHANGED ollamaVars => FileOK'
    BY DEF ollamaVars, FileOK, Distinct, DefaultIsAServer, HasActive, Known, Named
  <1>2. CloudOK /\ UNCHANGED <<cloudVars, route>> => CloudOK'
    BY DEF cloudVars, CloudOK, Configured
  <1>3. TurnsOK /\ turn' = turn => TurnsOK'
    BY DEF TurnsOK
  <1>4. RequestsOK /\ UNCHANGED requestVars => RequestsOK'
    BY DEF requestVars, RequestsOK
  <1>5. ChatsOK /\ UNCHANGED <<waiting, choices, commands>> => ChatsOK'
    BY DEF ChatsOK
  <1>6. SelectOK /\ select' = select => SelectOK'
    BY DEF SelectOK
  <1> QED BY <1>1, <1>2, <1>3, <1>4, <1>5, <1>6

LEMMA Records ==
    /\ NoTurn \in TurnRecord
    /\ NoRequest \in RequestRecord /\ NoRequest.stage = "none"
    /\ NoSelection \in SelectRecord /\ NoSelection.stage = "idle"
  <1>1. NoTurn \in TurnRecord
    BY DEF NoTurn, TurnRecord, Asked
  <1>2. NoRequest \in RequestRecord /\ NoRequest.stage = "none"
    BY DEF NoRequest, RequestRecord, Stages, Options
  <1>3. NoSelection \in SelectRecord /\ NoSelection.stage = "idle"
    BY DEF NoSelection, SelectRecord
  <1> QED BY <1>1, <1>2, <1>3

LEMMA ActiveFacts ==
    ASSUME FileOK, HasActive
    PROVE  \E i \in DOMAIN servers : Active = servers[i]
  <1>1. CASE Known(default)
    BY <1>1 DEF Active, Known, Named
  <1>2. CASE ~Known(default)
    BY <1>2, FileFacts DEF Active
  <1> QED BY <1>1, <1>2

LEMMA ActiveEntry ==
    ASSUME FileOK, HasActive
    PROVE  /\ Active.name \in Names /\ Active.url \in Hosts
           /\ Active.model \in Models \cup {None} /\ Active.options \in Options
  <1>1. PICK i \in DOMAIN servers : Active = servers[i]
    BY ActiveFacts
  <1>2. Active \in Entry
    BY <1>1, FileFacts
  <1> QED BY <1>2 DEF Entry

LEMMA InitRInv == Init => RInv
  <1> SUFFICES ASSUME Init PROVE RInv
    OBVIOUS
  <1>1. FileOK
    BY InitFile DEF Init
  <1>2. CloudOK
    BY DEF Init, ConfigInit, CloudOK, Configured
  <1>3. TurnsOK
    <2>1. turn = [t \in Turns |-> NoTurn] /\ NoTurn.stage = "idle"
      BY DEF Init, NoTurn
    <2> QED BY <2>1, Records DEF TurnsOK
  <1>4. RequestsOK
    <2>1. request = [t \in Turns |-> NoRequest] /\ textTools = {} /\ refused = {}
      BY DEF Init, RequestInit
    <2> QED BY <2>1, Records DEF RequestsOK
  <1>5. ChatsOK
    BY DEF Init, ChatsOK
  <1>6. SelectOK
    <2>1. select = [s \in Consoles \cup {Bridge} |-> NoSelection]
      BY DEF Init
    <2> QED BY <2>1, Records DEF SelectOK
  <1> QED BY <1>1, <1>2, <1>3, <1>4, <1>5, <1>6 DEF RInv

-----------------------------------------------------------------------------
(* The parts under the steps of turns and requests. *)

LEMMA CloudTurn ==
    ASSUME NEW asked, NEW to, NEW r,
           r = [NoTurn EXCEPT !.stage = "send", !.asked = asked, !.to = to]
    PROVE  r = [stage |-> "send", asked |-> asked, to |-> to, steps |-> 0]
  BY DEF NoTurn

LEMMA NextStepTurn ==
    ASSUME NEW old,
           old = [stage |-> old.stage, asked |-> old.asked, to |-> old.to, steps |-> old.steps],
           NEW r, r = [old EXCEPT !.stage = "asking", !.steps = @ + 1]
    PROVE  r = [stage |-> "asking", asked |-> old.asked, to |-> old.to, steps |-> old.steps + 1]
  OBVIOUS

LEMMA BeginTypes ==
    ASSUME RInv, NEW t \in Turns, NEW asked \in Asked, Begin(t, asked)
    PROVE  TurnsOK'
  <1>1. PICK r : turn' = [turn EXCEPT ![t] = r] /\ r \in TurnRecord /\ r.steps = 0
    <2>1. CASE asked = None
      <3> DEFINE r == [stage |-> "check", asked |-> None, to |-> NoRoute, steps |-> 0]
      <3>1. r \in TurnRecord /\ r.steps = 0
        BY DEF TurnRecord, Asked
      <3>2. turn' = [turn EXCEPT ![t] = r]
        BY <2>1 DEF Begin, NoTurn
      <3> HIDE DEF r
      <3> QED BY <3>1, <3>2
    <2>2. CASE asked # None
      <3> DEFINE p == Resolved(asked)
                 r == [stage |-> "send", asked |-> asked, to |-> CloudRoute(p), steps |-> 0]
      <3>1. p \in Providers /\ cloud[p] \in Account
        BY <2>2 DEF Begin, Configured, RInv, CloudOK
      <3>2. CloudRoute(p) \in Route
        BY <3>1 DEF CloudRoute, Route, Account
      <3>3. r \in TurnRecord /\ r.steps = 0
        BY <3>2 DEF TurnRecord
      <3>4. [NoTurn EXCEPT !.stage = "send", !.asked = asked, !.to = CloudRoute(p)] = r
        BY CloudTurn
      <3>5. turn' = [turn EXCEPT ![t] = r]
        BY <2>2, <3>4 DEF Begin
      <3> HIDE DEF r
      <3> QED BY <3>3, <3>5
    <2> QED BY <2>1, <2>2
  <1> QED BY <1>1 DEF RInv, TurnsOK

LEMMA OverTypes ==
    ASSUME RInv, NEW t \in Turns, turn' = [turn EXCEPT ![t] = NoTurn],
           request' = [request EXCEPT ![t] = NoRequest], UNCHANGED <<textTools, refused>>
    PROVE  TurnsOK' /\ RequestsOK'
  <1>1. NoTurn.stage = "idle"
    BY DEF NoTurn
  <1>2. TurnsOK'
    BY <1>1, Records DEF RInv, TurnsOK
  <1>3. RequestsOK'
    BY Records DEF RInv, RequestsOK
  <1> QED BY <1>2, <1>3

LEMMA TurnTypes ==
    ASSUME RInv, IInv, NEW t \in Turns, Ready(t) \/ Send(t) \/ AnotherStep(t)
    PROVE  TurnsOK' /\ RequestsOK'
  <1>1. turn[t] \in TurnRecord /\ request[t] \in RequestRecord /\ Good(t)
    BY DEF RInv, TurnsOK, RequestsOK, IInv
  <1>2. CASE Ready(t)
    <2>1. turn' = [turn EXCEPT ![t].stage = "send"] /\ turn[t].stage = "check"
      BY <1>2 DEF Ready
    <2>2. [turn[t] EXCEPT !.stage = "send"] \in TurnRecord
      BY <1>1 DEF TurnRecord
    <2>3. TurnsOK'
      BY <1>1, <2>1, <2>2 DEF RInv, TurnsOK, TurnRecord
    <2> QED BY <1>2, <2>3, Unchanged DEF Ready, RInv
  <1>3. CASE Send(t)
    <2>1. /\ turn' = [turn EXCEPT ![t].stage = "asking", ![t].steps = @ + 1]
          /\ turn[t].stage = "send" /\ turn[t].steps \in 0..MaxSteps /\ turn[t].steps < MaxSteps
      BY <1>1, <1>3 DEF Send, RInv, TurnsOK, TurnRecord
    <2>2. [turn[t] EXCEPT !.stage = "asking", !.steps = @ + 1] \in TurnRecord
      <3>1. turn[t].steps + 1 \in 0..MaxSteps
        BY <2>1
      <3>2. [turn[t] EXCEPT !.stage = "asking", !.steps = @ + 1]
            = [stage |-> "asking", asked |-> turn[t].asked, to |-> turn[t].to,
               steps |-> turn[t].steps + 1]
        BY <1>1, NextStepTurn DEF Good, RecordsOf
      <3>3. turn[t].asked \in Asked /\ turn[t].to \in Route \cup {NoRoute}
        BY <1>1 DEF TurnRecord
      <3> QED BY <3>1, <3>2, <3>3 DEF TurnRecord
    <2>3. TurnsOK'
      BY <1>1, <2>1, <2>2 DEF RInv, TurnsOK, TurnRecord
    <2>4. RouteOf(t) \in Route
      <3>1. CASE turn[t].to.kind = "cloud"
        BY <1>1, <3>1 DEF RouteOf, TurnRecord, NoRoute
      <3>2. CASE turn[t].to.kind # "cloud"
        <4>1. HasActive /\ Active.model # None
          BY <1>1, <1>3, <2>1, <3>2 DEF Send, Good, Resolves
        <4>2. Active.url \in Hosts /\ Active.model \in Models
          BY <4>1, ActiveEntry DEF RInv
        <4> QED BY <3>2, <4>2 DEF RouteOf, LocalRoute, Route
      <3> QED BY <3>1, <3>2
    <2>5. PICK options \in Options : Open(t, RouteOf(t), options)
      <3>1. HasActive => Active.options \in Options
        BY ActiveEntry DEF RInv
      <3>2. NoRequest.options \in Options
        BY DEF NoRequest, Options
      <3> QED BY <1>3, <3>1, <3>2 DEF Send
    <2>6. PICK r : /\ r = [stage |-> "opening", to |-> RouteOf(t), options |-> options,
                           tries |-> 1, complete |-> FALSE]
                   /\ request' = [request EXCEPT ![t] = r]
      BY <2>5 DEF Open
    <2>7. r \in RequestRecord /\ r.to \in Route
      BY <2>4, <2>5, <2>6 DEF RequestRecord, Stages
    <2>8. RequestsOK'
      BY <2>5, <2>6, <2>7 DEF RInv, RequestsOK, Open
    <2> QED BY <2>3, <2>8
  <1>4. CASE AnotherStep(t)
    <2>1. PICK stage \in {"check", "send"} : turn' = [turn EXCEPT ![t].stage = stage]
      BY <1>4 DEF AnotherStep
    <2>2. turn[t].steps < MaxSteps /\ [turn[t] EXCEPT !.stage = stage] \in TurnRecord
      BY <1>1, <1>4 DEF AnotherStep, TurnRecord
    <2>3. TurnsOK'
      BY <1>1, <2>1, <2>2 DEF RInv, TurnsOK, TurnRecord
    <2>4. RequestsOK'
      BY <1>4, Records DEF AnotherStep, RInv, RequestsOK
    <2> QED BY <2>3, <2>4
  <1> QED BY <1>2, <1>3, <1>4

LEMMA AskingTypes ==
    ASSUME RInv, NEW t \in Turns, RequestNext(t)
    PROVE  RequestsOK'
  <1>1. request[t] \in RequestRecord
    BY DEF RInv, RequestsOK
  <1>2. ASSUME NEW stage \in Stages, request[t].stage # "none", EndsAs(t, stage)
        PROVE  RequestsOK'
    <2>1. [request[t] EXCEPT !.stage = stage] \in RequestRecord
      BY <1>1 DEF RequestRecord
    <2> QED BY <1>1, <1>2, <2>1 DEF EndsAs, RInv, RequestsOK, RequestRecord
  <1>3. ASSUME NEW options \in Options, request[t].stage # "none", Retry(t, options),
               textTools' = textTools, refused' \subseteq Route
        PROVE  RequestsOK'
    <2>1. [request[t] EXCEPT !.to = Again(t), !.options = options, !.tries = 2]
              \in RequestRecord
      <3>1. request[t].to \in Route \cup {NoRoute} /\ 2 \in 0..2
        BY <1>1 DEF RequestRecord
      <3> QED BY <1>1, <3>1 DEF RequestRecord, Again
    <2> QED BY <1>1, <1>3, <2>1 DEF Retry, RInv, RequestsOK, RequestRecord, Again
  <1>4. CASE OutOfMemory(t)
    <2>1. /\ request[t].options \in Options
          /\ [request[t].options EXCEPT !.small = TRUE] \in Options
          /\ [request[t].options EXCEPT !.cpu = TRUE] \in Options
      BY <1>1 DEF RequestRecord, Options
    <2>2. request[t].stage # "none"
      BY <1>4 DEF OutOfMemory
    <2>3. \/ EndsAs(t, "exhausted")
          \/ /\ \E options \in Options : Retry(t, options)
             /\ UNCHANGED <<textTools, refused>>
      BY <1>4, <2>1 DEF OutOfMemory
    <2>4. refused \subseteq Route
      BY DEF RInv, RequestsOK
    <2> QED BY <1>2, <1>3, <2>2, <2>3, <2>4 DEF Stages
  <1>5. CASE ToolsRefused(t)
    <2>1. request[t].options \in Options
      BY <1>1 DEF RequestRecord
    <2>2. request[t].stage # "none"
      BY <1>5 DEF ToolsRefused
    <2>3. \/ EndsAs(t, "failed")
          \/ /\ Retry(t, request[t].options)
             /\ textTools' = textTools /\ refused' = refused \cup {request[t].to}
      BY <1>5 DEF ToolsRefused
    <2>4. refused \cup {request[t].to} \subseteq Route
      BY <2>2 DEF RInv, RequestsOK
    <2> QED BY <1>2, <1>3, <2>1, <2>2, <2>3, <2>4 DEF Stages
  <1>6. CASE Refused(t) \/ EndOfStream(t) \/ StreamFails(t)
    BY <1>2, <1>6 DEF Refused, EndOfStream, StreamFails, Stages
  <1>7. CASE Opened(t)
    <2>1. [request[t] EXCEPT !.stage = "streaming"] \in RequestRecord
      BY <1>1 DEF RequestRecord, Stages
    <2>2. /\ request' = [request EXCEPT ![t].stage = "streaming"]
          /\ request[t].stage # "none"
      BY <1>7 DEF Opened
    <2>3. /\ request' \in [Turns -> RequestRecord]
          /\ \A u \in Turns : request'[u].stage # "none" => request'[u].to \in Route
      BY <1>1, <2>1, <2>2 DEF RInv, RequestsOK, RequestRecord
    <2>4. /\ textTools' \subseteq Providers \X Models
          /\ refused' \subseteq Route
      <3>1. request[t].to \in Route
        BY <2>2 DEF RInv, RequestsOK
      <3>2. request[t].to.kind = "cloud" => Remembered(t) \in Providers \X Models
        BY <3>1 DEF Route, Remembered
      <3> QED BY <1>7, <3>2 DEF Opened, RInv, RequestsOK
    <2> QED BY <2>3, <2>4 DEF RequestsOK
  <1>8. CASE FinishReason(t) \/ LastLine(t)
    <2>1. PICK stage \in {"streaming", "answered"} :
              request' = [request EXCEPT ![t] =
                  [request[t] EXCEPT !.complete = TRUE, !.stage = stage]]
      <3>1. CASE FinishReason(t)
        <4>1. [request[t] EXCEPT !.complete = TRUE, !.stage = "streaming"]
              = [request[t] EXCEPT !.complete = TRUE]
          BY <1>1, <3>1 DEF FinishReason, RequestRecord
        <4> QED BY <3>1, <4>1 DEF FinishReason
      <3>2. CASE LastLine(t)
        <4>1. request' = [request EXCEPT ![t] =
                  [request[t] EXCEPT !.complete = TRUE, !.stage = "answered"]]
          BY <1>1, <3>2 DEF LastLine, RInv, RequestsOK
        <4> QED BY <4>1
      <3> QED BY <1>8, <3>1, <3>2
    <2>2. [request[t] EXCEPT !.complete = TRUE, !.stage = stage] \in RequestRecord
      BY <1>1 DEF RequestRecord, Stages
    <2>3. request[t].stage # "none" /\ UNCHANGED <<textTools, refused>>
      BY <1>8 DEF FinishReason, LastLine
    <2> QED BY <1>1, <2>1, <2>2, <2>3 DEF RInv, RequestsOK, RequestRecord
  <1> QED BY <1>4, <1>5, <1>6, <1>7, <1>8 DEF RequestNext

-----------------------------------------------------------------------------
(* The parts under the commands of chats, clients and the owner. *)

(* What ChatSelectsWhereItLooked says of one step. *)
SelectsThere ==
    \A i \in DOMAIN servers :
        /\ select[Bridge].stage = "looking" /\ select'[Bridge].stage = "idle"
        /\ DOMAIN servers' = DOMAIN servers
        /\ servers'[i].model # servers[i].model
        => servers[i].name = select[Bridge].name

LEMMA CountTypes ==
    ASSUME RInv, Count, UNCHANGED <<waiting, choices>>
    PROVE  ChatsOK'
  BY DEF Count, RInv, ChatsOK

LEMMA ConfigureCloud ==
    ASSUME CloudOK, NEW p \in Providers, NEW u \in Addresses[p], NEW m \in Models,
           Configure(p, u, m), route' = route
    PROVE  CloudOK'
  <1>1. [url |-> u, model |-> m] \in Account
    BY DEF Account, Urls
  <1>2. [url |-> u, model |-> m] # NoAccount
    BY DEF NoAccount
  <1> QED BY <1>1, <1>2 DEF Configure, CloudOK, Configured

LEMMA SetModelCloud ==
    ASSUME CloudOK, NEW p \in Providers, NEW m \in Models, SetCloudModel(p, m), route' = route
    PROVE  CloudOK'
  <1>1. cloud[p] \in Account
    BY DEF SetCloudModel, CloudOK, Configured
  <1>2. [url |-> cloud[p].url, model |-> m] \in Account
    BY <1>1 DEF Account
  <1>3. [url |-> cloud[p].url, model |-> m] # NoAccount
    BY DEF NoAccount
  <1> QED BY <1>2, <1>3 DEF SetCloudModel, CloudOK, Configured

LEMMA ChatTypes ==
    ASSUME RInv, NEW c \in Chats,
           \/ ChatSends(c) \/ UseLocal(c) \/ \E p \in Providers : UseCloud(c, p)
           \/ ListCloudModels(c)
           \/ \E m \in Models : PressModel(c, m) \/ NameModel(c, m)
    PROVE  RInv' /\ select' = select
  <1>0. FileOK /\ CloudOK /\ TurnsOK /\ RequestsOK /\ ChatsOK /\ SelectOK
    BY DEF RInv
  <1>1. CASE ChatSends(c)
    <2>1. ChatsOK'
      <3>1. /\ waiting' = [waiting EXCEPT ![c] = waiting[c] + 1] /\ choices' = choices
            /\ commands < MaxCommands /\ commands' = commands + 1
        BY <1>1 DEF ChatSends, Count
      <3> QED BY <1>0, <3>1 DEF ChatsOK
    <2> QED BY <1>0, <1>1, <2>1, Unchanged DEF ChatSends, RInv, configVars, ollamaVars, cloudVars
  <1>2. ASSUME NEW p \in Providers \cup {None}, route' = [route EXCEPT ![c] = p],
               p # None => p \in Configured,
               UNCHANGED <<configVars, requestVars, turn, waiting, choices, select, commands>>
        PROVE  RInv' /\ select' = select
    <2>1. CloudOK'
      BY <1>0, <1>2 DEF CloudOK, Configured, configVars
    <2> QED BY <1>0, <1>2, <2>1, Unchanged DEF RInv, configVars, ollamaVars
  <1>3. CASE UseLocal(c)
    BY <1>2, <1>3 DEF UseLocal
  <1>4. ASSUME NEW p \in Providers, UseCloud(c, p) PROVE RInv' /\ select' = select
    BY <1>2, <1>4 DEF UseCloud
  <1>5. CASE ListCloudModels(c)
    <2>1. route[c] \in Providers /\ cloud[route[c]].model \in Models
      BY <1>0, <1>5 DEF ListCloudModels, CloudOK, Configured, Account
    <2>2. \A offered \in Offered(route[c]) : offered \subseteq Models
      BY <2>1 DEF Offered
    <2>3. ChatsOK'
      BY <1>0, <1>5, <2>2 DEF ListCloudModels, ChatsOK
    <2> QED BY <1>0, <1>5, <2>3, Unchanged
        DEF ListCloudModels, RInv, configVars, ollamaVars, cloudVars
  <1>6. ASSUME NEW m \in Models, PressModel(c, m) \/ NameModel(c, m)
        PROVE  RInv' /\ select' = select
    <2>1. /\ SetCloudModel(route[c], m) /\ Count /\ route[c] \in Providers
          /\ UNCHANGED <<requestVars, turnVars, select>>
      BY <1>0, <1>6 DEF PressModel, NameModel, CloudOK
    <2>2. CloudOK'
      BY <1>0, <2>1, SetModelCloud DEF turnVars
    <2>3. ChatsOK'
      BY <2>1, CountTypes DEF turnVars
    <2> QED BY <1>0, <2>1, <2>2, <2>3, Unchanged DEF SetCloudModel, RInv, turnVars
  <1> QED BY <1>1, <1>3, <1>4, <1>5, <1>6

LEMMA LookAtTypes ==
    ASSUME RInv, NEW s \in Consoles \cup {Bridge}, NEW m \in Models, LookAt(s, m)
    PROVE  RInv' /\ SelectsThere
  <1>0. FileOK /\ CloudOK /\ TurnsOK /\ RequestsOK /\ ChatsOK /\ SelectOK
    BY DEF RInv
  <1>1. Active.url \in Hosts /\ Active.name \in Names
    BY <1>0, ActiveEntry DEF LookAt
  <1>2. PICK r : /\ r = [stage |-> "looking", host |-> Active.url, model |-> m,
                         name |-> IF s = Bridge THEN Active.name ELSE None]
                 /\ select' = [select EXCEPT ![s] = r]
    BY DEF LookAt
  <1>3. r \in SelectRecord /\ r.model \in Models /\ (s = Bridge => r.name \in Names)
    BY <1>1, <1>2 DEF SelectRecord
  <1>4. SelectOK'
    BY <1>0, <1>2, <1>3 DEF SelectOK
  <1>5. ChatsOK'
    BY CountTypes DEF LookAt, turnVars
  <1>6. FileOK' /\ CloudOK' /\ TurnsOK' /\ RequestsOK'
    BY <1>0, Unchanged DEF LookAt, configVars, ollamaVars, cloudVars, turnVars
  <1>7. servers' = servers
    BY DEF LookAt, configVars
  <1> QED BY <1>4, <1>5, <1>6, <1>7 DEF RInv, SelectsThere

LEMMA LookEndTypes ==
    ASSUME RInv, NEW s \in Consoles \cup {Bridge}, Looked(s) \/ LookFails(s)
    PROVE  RInv' /\ SelectsThere
  <1>0. FileOK /\ CloudOK /\ TurnsOK /\ RequestsOK /\ ChatsOK /\ SelectOK
    BY DEF RInv
  <1>1. select' = [select EXCEPT ![s] = NoSelection] /\ select[s].stage = "looking"
    BY DEF Looked, LookFails
  <1>2. SelectOK'
    BY <1>0, <1>1, Records DEF SelectOK
  <1>3. CASE LookFails(s)
    <2>1. FileOK' /\ CloudOK' /\ TurnsOK' /\ RequestsOK' /\ ChatsOK' /\ servers' = servers
      BY <1>0, <1>3, Unchanged DEF LookFails, configVars, ollamaVars, cloudVars, turnVars
    <2> QED BY <1>2, <2>1 DEF RInv, SelectsThere
  <1>4. CASE Looked(s)
    <2>1. select[s].model \in Models /\ SetLocalModel(select[s].name, select[s].model)
      BY <1>0, <1>1, <1>4 DEF Looked, Recorded, SelectOK
    <2>2. /\ FileOK' /\ DOMAIN servers' = DOMAIN servers
          /\ \A i \in DOMAIN servers : servers'[i].model # servers[i].model =>
                 servers[i].name = Target(select[s].name)
      BY <1>0, <2>1, LocalModelFile
    <2>3. CloudOK' /\ TurnsOK' /\ RequestsOK' /\ ChatsOK'
      BY <1>0, <1>4, <2>1, Unchanged DEF Looked, SetLocalModel, turnVars
    <2>4. SelectsThere
      <3>1. s # Bridge => select'[Bridge] = select[Bridge]
        BY <1>0, <1>1 DEF SelectOK
      <3>2. s = Bridge => Target(select[s].name) = select[Bridge].name
        BY <1>0, <1>1 DEF SelectOK, Target
      <3> QED BY <2>2, <3>1, <3>2 DEF SelectsThere
    <2> QED BY <1>2, <2>2, <2>3, <2>4 DEF RInv
  <1> QED BY <1>3, <1>4

LEMMA OwnerTypes ==
    ASSUME RInv, OwnerEdits
    PROVE  RInv' /\ select' = select
  <1>0. FileOK /\ CloudOK /\ TurnsOK /\ RequestsOK /\ ChatsOK /\ SelectOK
    BY DEF RInv
  <1>1. ChatsOK' /\ TurnsOK' /\ RequestsOK' /\ SelectOK' /\ select' = select /\ route' = route
    BY <1>0, CountTypes, Unchanged DEF OwnerEdits, turnVars
  <1>2. CASE UNCHANGED cloudVars
    <2>1. \/ \E n \in Names, u \in Hosts : AddServer(n, u)
          \/ \E n \in Names : RemoveServer(n)
          \/ \E n \in Names : SetDefault(n)
          \/ \E n \in Names, o \in Options : SetOptions(n, o)
          \/ UNCHANGED ollamaVars
      BY DEF OwnerEdits, ConfigCommand, Configure, SetCloudModel
    <2>2. ASSUME NEW n \in Names, SetDefault(n) PROVE FileOK'
      <3>1. servers' = servers /\ Known(default')
        BY <2>2 DEF SetDefault
      <3> QED BY <1>0, <3>1, SameNames DEF FileOK
    <2>3. FileOK'
      BY <1>0, <2>1, <2>2, AddServerFile, RemoveServerFile, OptionsFile, Unchanged
    <2>4. CloudOK'
      BY <1>0, <1>1, <1>2, Unchanged
    <2> QED BY <1>1, <2>3, <2>4 DEF RInv
  <1>3. CASE UNCHANGED ollamaVars
    <2>1. \/ \E p \in Providers, m \in Models : \E u \in Addresses[p] : Configure(p, u, m)
          \/ \E p \in Providers, m \in Models : SetCloudModel(p, m)
          \/ UNCHANGED cloudVars
      BY DEF OwnerEdits, ConfigCommand, AddServer, RemoveServer, SetDefault, SetOptions
    <2>2. CloudOK'
      BY <1>0, <1>1, <2>1, ConfigureCloud, SetModelCloud, Unchanged
    <2> QED BY <1>0, <1>1, <1>3, <2>2, Unchanged DEF RInv
  <1>4. UNCHANGED cloudVars \/ UNCHANGED ollamaVars
    BY DEF OwnerEdits, ConfigCommand, AddServer, RemoveServer, SetDefault, SetOptions,
           Configure, SetCloudModel
  <1> QED BY <1>2, <1>3, <1>4

-----------------------------------------------------------------------------
(* Everything together. *)

LEMMA NextKeeps == IInv /\ [Next]_vars => Keeps
  <1> SUFFICES ASSUME IInv, [Next]_vars PROVE Keeps
    OBVIOUS
  <1>1. CASE UNCHANGED vars
    BY <1>1, NoTurnMoves DEF vars, turnVars
  <1>2. ASSUME NEW t \in Turns, NEW asked, TerminalAsks(t, asked) PROVE Keeps
    BY <1>2, BeginKeeps DEF TerminalAsks
  <1>3. ASSUME NEW t \in Turns, NotReady(t) \/ NoModel(t) \/ TurnEnds(t) \/ Cancel(t)
        PROVE  Keeps
    <2>1. Over(t)
      BY <1>3 DEF NotReady, NoModel, TurnEnds, Cancel
    <2> QED BY <2>1, OverKeeps DEF Over
  <1>4. ASSUME NEW t \in Turns, Ready(t) \/ Send(t) \/ Asking(t) \/ AnotherStep(t)
        PROVE  Keeps
    BY <1>4, ReadyKeeps, SendKeeps, AskingKeeps, AnotherStepKeeps
  <1>5. ASSUME NEW c \in Chats, ReplyBegins(c) PROVE Keeps
    <2>1. Begin(c, route[c]) /\ UNCHANGED requestVars /\ c \in Turns
      BY <1>5 DEF ReplyBegins
    <2> QED BY <2>1, BeginKeeps
  <1>6. ASSUME NEW c \in Chats, CancelChat(c) PROVE Keeps
    <2>1. c \in Turns
      OBVIOUS
    <2> QED BY <1>6, <2>1, OverKeeps DEF CancelChat
  <1>7. ASSUME NEW c \in Chats,
               \/ ChatSends(c)
               \/ UseLocal(c)
               \/ \E p \in Providers : UseCloud(c, p)
               \/ ListCloudModels(c)
               \/ \E m \in Models : PressModel(c, m) \/ NameModel(c, m)
               \/ \E m \in Models : ChatSelects(c, m)
        PROVE  Keeps
    <2>1. turn' = turn /\ UNCHANGED requestVars
      BY <1>7 DEF ChatSends, UseLocal, UseCloud, ListCloudModels, PressModel, NameModel,
                  ChatSelects, LookAt, turnVars
    <2> QED BY <2>1, NoTurnMoves
  <1>8. ASSUME NEW s, \/ \E m \in Models : ConsoleSelects(s, m)
                      \/ Looked(s)
                      \/ LookFails(s)
        PROVE  Keeps
    <2>1. turn' = turn /\ UNCHANGED requestVars
      BY <1>8 DEF ConsoleSelects, LookAt, Looked, LookFails, turnVars
    <2> QED BY <2>1, NoTurnMoves
  <1>9. CASE OwnerEdits
    BY <1>9, NoTurnMoves DEF OwnerEdits, turnVars
  <1> QED BY <1>1, <1>2, <1>3, <1>4, <1>5, <1>6, <1>7, <1>8, <1>9 DEF Next

LEMMA NextRegistries == IInv /\ RInv /\ [Next]_vars => RInv' /\ SelectsThere
  <1> SUFFICES ASSUME IInv, RInv, [Next]_vars PROVE RInv' /\ SelectsThere
    OBVIOUS
  <1>0. FileOK /\ CloudOK /\ TurnsOK /\ RequestsOK /\ ChatsOK /\ SelectOK
    BY DEF RInv
  <1> USE DEF configVars, ollamaVars, cloudVars, turnVars
  <1>1. SelectsThere \/ select' # select
    BY <1>0 DEF SelectsThere, SelectOK, SelectRecord
  <1>2. CASE UNCHANGED vars
    BY <1>0, <1>1, <1>2, Unchanged DEF RInv, vars
  <1>3. ASSUME NEW t \in Turns, NEW asked \in Asked, TerminalAsks(t, asked)
        PROVE  RInv' /\ SelectsThere
    BY <1>0, <1>1, <1>3, BeginTypes, CountTypes, Unchanged DEF TerminalAsks, RInv
  <1>4. ASSUME NEW t \in Turns, NotReady(t) \/ NoModel(t) \/ TurnEnds(t) \/ Cancel(t)
        PROVE  RInv' /\ SelectsThere
    <2>1. Over(t)
      BY <1>4 DEF NotReady, NoModel, TurnEnds, Cancel
    <2> QED BY <1>0, <1>1, <2>1, OverTypes, Unchanged DEF Over, RInv
  <1>5. ASSUME NEW t \in Turns, Ready(t) \/ Send(t) \/ AnotherStep(t)
        PROVE  RInv' /\ SelectsThere
    <2>1. UNCHANGED <<servers, default, cloud, preferred, route, waiting, choices, select, commands>>
      BY <1>5 DEF Ready, Send, Open, AnotherStep
    <2> QED BY <1>0, <1>1, <1>5, <2>1, TurnTypes, Unchanged DEF RInv
  <1>6. ASSUME NEW t \in Turns, Asking(t) PROVE RInv' /\ SelectsThere
    <2>1. UNCHANGED <<servers, default, cloud, preferred>>
      BY <1>6 DEF Asking, RequestNext, OutOfMemory, ToolsRefused, Refused, Opened, FinishReason,
                  LastLine, EndOfStream, StreamFails, EndsAs
    <2> QED BY <1>0, <1>1, <1>6, <2>1, AskingTypes, Unchanged DEF Asking, RInv
  <1>7. ASSUME NEW c \in Chats, ReplyBegins(c) PROVE RInv' /\ SelectsThere
    <2>1. TurnsOK'
      <3>1. route[c] \in Asked /\ c \in Turns
        BY <1>0 DEF CloudOK, Asked
      <3> QED BY <1>7, <3>1, BeginTypes DEF ReplyBegins
    <2>2. ChatsOK'
      BY <1>0, <1>7 DEF ReplyBegins, ChatsOK
    <2> QED BY <1>0, <1>1, <1>7, <2>1, <2>2, Unchanged DEF ReplyBegins, RInv
  <1>8. ASSUME NEW c \in Chats, CancelChat(c) PROVE RInv' /\ SelectsThere
    <2>1. TurnsOK' /\ RequestsOK'
      <3>1. c \in Turns
        OBVIOUS
      <3> QED BY <1>8, <3>1, OverTypes DEF CancelChat
    <2>2. ChatsOK'
      BY <1>0, <1>8 DEF CancelChat, ChatsOK
    <2> QED BY <1>0, <1>1, <1>8, <2>1, <2>2, Unchanged DEF CancelChat, RInv
  <1>9. ASSUME NEW c \in Chats,
               \/ ChatSends(c) \/ UseLocal(c) \/ \E p \in Providers : UseCloud(c, p)
               \/ ListCloudModels(c)
               \/ \E m \in Models : PressModel(c, m) \/ NameModel(c, m)
        PROVE  RInv' /\ SelectsThere
    BY <1>1, <1>9, ChatTypes
  <1>10. ASSUME NEW s \in Consoles \cup {Bridge}, NEW m \in Models, LookAt(s, m)
         PROVE  RInv' /\ SelectsThere
    BY <1>10, LookAtTypes
  <1>11. ASSUME NEW s \in Consoles \cup {Bridge}, Looked(s) \/ LookFails(s)
         PROVE  RInv' /\ SelectsThere
    BY <1>11, LookEndTypes
  <1>12. CASE OwnerEdits
    BY <1>1, <1>12, OwnerTypes
  <1> QED BY <1>2, <1>3, <1>4, <1>5, <1>6, <1>7, <1>8, <1>9, <1>10, <1>11, <1>12
      DEF Next, ConsoleSelects, ChatSelects

LEMMA RegistriesInvariance == Spec => [](IInv /\ RInv)
  <1>1. Init => IInv /\ RInv
    BY InitIInv, InitRInv
  <1>2. IInv /\ RInv /\ [Next]_vars => (IInv /\ RInv)'
    BY NextKeeps, NextRegistries DEF Keeps
  <1> QED BY <1>1, <1>2, PTL DEF Spec

LEMMA Invariance == Spec => []IInv
  <1>1. IInv /\ [Next]_vars => IInv'
    BY NextKeeps DEF Keeps
  <1> QED BY InitIInv, <1>1, PTL DEF Spec

(* No reply that its endpoint did not say was finished is ever taken for an   *)
(* answer, on any wire format (providers.py, ollama.py).                      *)
THEOREM AnswersComplete == Spec => []AnswersAreComplete
  <1>1. IInv => AnswersAreComplete
    BY DEF IInv, Good, Complete, AnswersAreComplete
  <1> QED BY Invariance, <1>1, PTL

(* What makes the registry withhold native tools from a provider and a model  *)
(* is always a refusal of that model, by the address it had in the turn that  *)
(* was refused, whatever the owner configured between the refusal and the     *)
(* second attempt's answer (providers.py, stream).                            *)
THEOREM TextToolsRemembered == Spec => []RememberedWasRefused
  <1>1. IInv => RememberedWasRefused
    BY DEF IInv
  <1> QED BY Invariance, <1>1, PTL

(* Prompts leave the machine exactly when their turn asked for it, and for    *)
(* the provider that it asked for (agent.py, providers.py resolve).           *)
THEOREM CloudAsAsked == Spec => []CloudOnlyAsAsked
  <1>1. IInv => CloudOnlyAsAsked
    BY DEF IInv, Good, Follows, CloudOnlyAsAsked
  <1> QED BY Invariance, <1>1, PTL

(* A second attempt goes where the first one went, and there is no third      *)
(* (ollama.py, providers.py).                                                 *)
THEOREM RecoveryStays == Spec => RecoveryStaysPut
  <1>1. IInv /\ [Next]_vars =>
            [\A t \in Turns :
                request[t].stage = "opening" /\ request'[t].stage # "none" =>
                    /\ request'[t].to = request[t].to
                    /\ request'[t].tries > request[t].tries => request[t].tries = 1
            ]_<<configVars, requestVars>>
    BY NextKeeps DEF Keeps, Recovers
  <1> QED BY Invariance, <1>1, PTL DEF Spec, RecoveryStaysPut
(* The variables have their types: a turn never asks the model more often than *)
(* it has steps, and a request under way always has an address and a model    *)
(* (agent.py, ollama.py, providers.py).                                       *)
THEOREM TypeCorrect == Spec => []TypeOK
  BY RegistriesInvariance, RInvTypes, PTL

(* Whatever the owner adds, removes and chooses, and whichever models are      *)
(* selected meanwhile, the default of ollama.json is one of its servers       *)
(* (ollama.py, remove_server).                                                *)
THEOREM DefaultServer == Spec => []DefaultIsAServer
  <1>1. RInv => DefaultIsAServer
    BY DEF RInv, FileOK
  <1> QED BY <1>1, RegistriesInvariance, PTL

(* A local prompt goes to the URL of a server of the file, with the model that *)
(* is recorded for it at that moment (ollama.py, runtime.py).                 *)
THEOREM ModelOfServer == Spec => ModelOfItsServer
  <1>1. ASSUME IInv, RInv, [Next]_vars, NEW t \in Turns, Sends(t),
               request'[t].to.kind = "local"
        PROVE  \E i \in DOMAIN servers : /\ servers[i].url = request'[t].to.at
                                         /\ servers[i].model = request'[t].to.model
    <2>1. Send(t)
      BY <1>1, NextKeeps DEF Keeps, Opens
    <2>2. PICK options : Open(t, RouteOf(t), options)
      BY <2>1 DEF Send
    <2>3. request'[t].to = RouteOf(t)
      BY <1>1, <2>2 DEF Open, IInv, Shape
    <2>4. RouteOf(t) = LocalRoute /\ turn[t].to.kind # "cloud"
      BY <1>1, <2>3 DEF RouteOf
    <2>5. HasActive
      BY <1>1, <2>1, <2>4 DEF Send, IInv, Good, Resolves
    <2>6. PICK i \in DOMAIN servers : Active = servers[i]
      BY <1>1, <2>5, ActiveFacts DEF RInv
    <2> QED BY <2>3, <2>4, <2>6 DEF LocalRoute
  <1>2. IInv /\ RInv /\ [Next]_vars =>
            [\A t \in Turns : Sends(t) /\ request'[t].to.kind = "local" =>
                \E i \in DOMAIN servers : /\ servers[i].url = request'[t].to.at
                                          /\ servers[i].model = request'[t].to.model]_vars
    BY <1>1
  <1> QED BY <1>2, RegistriesInvariance, PTL DEF Spec, ModelOfItsServer

(* The model that a chat selects is recorded for the server whose models were  *)
(* looked at, also when the default or the servers changed while the bridge   *)
(* waited for the host (telegram.py, /model).                                 *)
THEOREM ChatSelectsThere == Spec => ChatSelectsWhereItLooked
  <1>1. IInv /\ RInv /\ [Next]_vars =>
            [\A i \in DOMAIN servers :
                /\ select[Bridge].stage = "looking" /\ select'[Bridge].stage = "idle"
                /\ DOMAIN servers' = DOMAIN servers
                /\ servers'[i].model # servers[i].model
                => servers[i].name = select[Bridge].name]_vars
    BY NextRegistries DEF SelectsThere
  <1> QED BY <1>1, RegistriesInvariance, PTL DEF Spec, ChatSelectsWhereItLooked
=============================================================================
