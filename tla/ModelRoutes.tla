----------------------------- MODULE ModelRoutes -----------------------------
(***************************************************************************)
(* Who decides where a prompt goes: the turns of Agent.run (agent.py), the *)
(* route each Telegram chat has chosen (telegram.py, _command, _reply) and *)
(* the clients' commands that edit the two registries (rpc.py), on top of  *)
(* ModelConfig and ModelRequest.                                           *)
(*                                                                         *)
(* A terminal client sends its route with every prompt.  A Telegram chat   *)
(* has its route in the bridge, and a prompt that waits for the chat's     *)
(* lock looks it up only when its turn begins.  A cloud provider is        *)
(* resolved once per turn, the local server again for every request.       *)
(***************************************************************************)
EXTENDS ModelRequest

CONSTANTS
    Chats,      (* Telegram chats; the other turns are those of terminals      *)
    Consoles,   (* clients with an ollama_select_model under way               *)
    Bridge,     (* the Telegram bridge, which selects models for its chats     *)
    Installed,  (* the models each host has downloaded                         *)
    Catalogue,  (* the models each provider lists                              *)
    Tunings,    (* options an owner sets for a server                          *)
    Default,    (* a terminal that asks for "the" cloud provider               *)
    MaxCommands, (* prompts and commands that change a registry: a bound of    *)
                (* the model                                                   *)
    MaxSteps    (* Agent.run: steps of a turn                                  *)

ASSUME RoutesAssumption ==
    /\ Chats \subseteq Turns
    /\ Bridge \notin Consoles
    /\ Installed \in [Hosts -> SUBSET Models]
    /\ Catalogue \in [Providers -> SUBSET Models]
    /\ Tunings \subseteq Options
    /\ Default \notin Providers \cup {None}
    /\ MaxCommands \in Nat /\ MaxSteps \in Nat \ {0}

VARIABLES
    turn,     (* per turn: what was asked for and how far it is                *)
    route,    (* per chat: _chat_providers, None is the local route            *)
    waiting,  (* per chat: the prompts that wait for its lock                  *)
    choices,  (* per chat: _cloud_model_choices, the models under its buttons  *)
    select,   (* per console and for the bridge: a selection under way         *)
    commands  (* prompts and edits so far                                      *)

turnVars == <<turn, route, waiting, choices>>
vars == <<configVars, requestVars, turnVars, select, commands>>

Asked == Providers \cup {None, Default}
NoTurn == [stage |-> "idle", asked |-> None, to |-> NoRoute, steps |-> 0]
NoSelection == [stage |-> "idle", host |-> None, name |-> None, model |-> None]

Init ==
    /\ ConfigInit
    /\ RequestInit
    /\ turn = [t \in Turns |-> NoTurn]
    /\ route = [c \in Chats |-> None]
    /\ waiting = [c \in Chats |-> 0]
    /\ choices = [c \in Chats |-> {}]
    /\ select = [s \in Consoles \cup {Bridge} |-> NoSelection]
    /\ commands = 0

Count == commands < MaxCommands /\ commands' = commands + 1

-----------------------------------------------------------------------------
(* A turn.  resolve: the provider as it is configured now, for all its steps. *)
CloudRoute(p) ==
    [kind |-> "cloud", at |-> p, url |-> cloud[p].url, model |-> cloud[p].model]

Resolved(asked) == IF asked = Default THEN preferred ELSE asked

Begin(t, asked) ==
    /\ turn[t].stage = "idle"
    /\ IF asked = None
       THEN turn' = [turn EXCEPT ![t] = [NoTurn EXCEPT !.stage = "check"]]
       ELSE /\ Resolved(asked) \in Configured
            /\ turn' = [turn EXCEPT ![t] =
                   [NoTurn EXCEPT !.stage = "send", !.asked = asked,
                                  !.to = CloudRoute(Resolved(asked))]]

(* RPCServer: the route is part of the request.  A provider that is not        *)
(* configured fails the request before it is a turn.                           *)
TerminalAsks(t, asked) ==
    /\ t \notin Chats
    /\ Count
    /\ Begin(t, asked)
    /\ UNCHANGED <<configVars, requestVars, route, waiting, choices, select>>

(* _start_reply: the prompt waits for the lock of the chat. *)
ChatSends(c) ==
    /\ select[Bridge].stage = "idle"
    /\ Count
    /\ waiting' = [waiting EXCEPT ![c] = @ + 1]
    /\ UNCHANGED <<configVars, requestVars, turn, route, choices, select>>

(* _reply: the route of the chat is looked up under the lock. *)
ReplyBegins(c) ==
    /\ waiting[c] > 0
    /\ Begin(c, route[c])
    /\ waiting' = [waiting EXCEPT ![c] = @ - 1]
    /\ UNCHANGED <<configVars, requestVars, route, choices, select, commands>>

(* Seeded fault: a local server that does not answer is replaced. *)
CloudFallback(t) ==
    /\ turn[t].stage = "check"
    /\ preferred \in Configured
    /\ turn' = [turn EXCEPT ![t].stage = "send", ![t].to = CloudRoute(preferred)]
    /\ UNCHANGED <<configVars, requestVars, route, waiting, choices, select, commands>>

(* The turn is over: delivered, failed or cancelled. *)
Over(t) ==
    /\ turn' = [turn EXCEPT ![t] = NoTurn]
    /\ request' = [request EXCEPT ![t] = NoRequest]
    /\ UNCHANGED <<configVars, textTools, refused, route, waiting, choices, select, commands>>

(* ensure_ready: nothing is configured, or the server does not answer. *)
NotReady(t) ==
    /\ turn[t].stage = "check"
    /\ Over(t)

Ready(t) ==
    /\ turn[t].stage = "check"
    /\ HasActive
    /\ turn' = [turn EXCEPT ![t].stage = "send"]
    /\ UNCHANGED <<configVars, requestVars, route, waiting, choices, select, commands>>

RouteOf(t) == IF turn[t].to.kind = "cloud" THEN turn[t].to ELSE LocalRoute

(* One step asks the model; the local route needs a server and its model. *)
Send(t) ==
    /\ turn[t].stage = "send"
    /\ turn[t].asked = None => HasActive /\ Active.model # None
    /\ Open(t, RouteOf(t), IF HasActive THEN Active.options ELSE NoRequest.options)
    /\ turn' = [turn EXCEPT ![t].stage = "asking", ![t].steps = @ + 1]
    /\ UNCHANGED <<route, waiting, choices, select, commands>>

(* "no model is selected on this Ollama server", or no server any more. *)
NoModel(t) ==
    /\ turn[t].stage = "send"
    /\ turn[t].asked = None
    /\ HasActive => Active.model = None
    /\ Over(t)

(* The reply holds tool calls, or is sent back: another step. *)
AnotherStep(t) ==
    /\ turn[t].stage = "asking"
    /\ request[t].stage = "answered"
    /\ turn[t].steps < MaxSteps
    /\ turn' = [turn EXCEPT ![t].stage = IF turn[t].asked = None THEN "check" ELSE "send"]
    /\ request' = [request EXCEPT ![t] = NoRequest]
    /\ UNCHANGED <<configVars, textTools, refused, route, waiting, choices, select, commands>>

(* The answer is delivered, or the request has failed. *)
TurnEnds(t) ==
    /\ turn[t].stage = "asking"
    /\ request[t].stage \in {"answered", "failed", "exhausted"}
    /\ Over(t)

(* The terminal leaves. *)
Cancel(t) ==
    /\ t \notin Chats
    /\ turn[t].stage # "idle"
    /\ Over(t)

Asking(t) ==
    /\ turn[t].stage = "asking"
    /\ RequestNext(t)
    /\ UNCHANGED <<turnVars, select, commands>>

-----------------------------------------------------------------------------
(* Commands of a Telegram chat; the poll loop takes one at a time and waits   *)
(* for it.                                                                    *)
Listens == select[Bridge].stage = "idle"

(* /cancel: the reply under way and those that wait for the lock. *)
CancelChat(c) ==
    /\ Listens
    /\ turn[c].stage # "idle" \/ waiting[c] > 0
    /\ turn' = [turn EXCEPT ![c] = NoTurn]
    /\ request' = [request EXCEPT ![c] = NoRequest]
    /\ waiting' = [waiting EXCEPT ![c] = 0]
    /\ UNCHANGED <<configVars, textTools, refused, route, choices, select, commands>>

(* /local, and /switch on the cloud route. *)
UseLocal(c) ==
    /\ Listens
    /\ route[c] # None
    /\ route' = [route EXCEPT ![c] = None]
    /\ UNCHANGED <<configVars, requestVars, turn, waiting, choices, select, commands>>

(* /cloud NAME, and the button cloudprovider: of a provider. *)
UseCloud(c, p) ==
    /\ Listens
    /\ p \in Configured
    /\ route[c] # p
    /\ route' = [route EXCEPT ![c] = p]
    /\ UNCHANGED <<configVars, requestVars, turn, waiting, choices, select, commands>>

(* list_models of the registry: the provider's catalogue with the configured   *)
(* model, or that model alone if the catalogue cannot be fetched.              *)
Offered(p) == { known \cup {cloud[p].model} : known \in {Catalogue[p], {}} }

(* /models on the cloud route.  The bridge waits for the list, so nobody reads *)
(* the old one while it is fetched.                                            *)
ListCloudModels(c) ==
    /\ Listens
    /\ route[c] # None
    /\ \E offered \in Offered(route[c]) : choices' = [choices EXCEPT ![c] = offered]
    /\ UNCHANGED <<configVars, requestVars, turn, route, waiting, select, commands>>

(* The button cloudmodel: the model is one of the list shown last, the         *)
(* provider is the chat's now, which may be another one than the list's.       *)
PressModel(c, m) ==
    /\ Listens
    /\ Count
    /\ route[c] # None
    /\ m \in choices[c]
    /\ SetCloudModel(route[c], m)
    /\ UNCHANGED <<requestVars, turnVars, select>>

(* /model NAME on the cloud route: any name is taken. *)
NameModel(c, m) ==
    /\ Listens
    /\ Count
    /\ route[c] # None
    /\ SetCloudModel(route[c], m)
    /\ UNCHANGED <<requestVars, turnVars, select>>

-----------------------------------------------------------------------------
(* Selecting a local model: its host is asked for its models in a thread. *)
LookAt(s, m) ==
    /\ select[s].stage = "idle"
    /\ Count
    /\ HasActive
    /\ select' = [select EXCEPT ![s] =
           [stage |-> "looking", host |-> Active.url, model |-> m,
            name |-> IF s = Bridge THEN Active.name ELSE None]]
    /\ UNCHANGED <<configVars, requestVars, turnVars>>

(* ollama_select_model of a client, /model NAME of a chat on the local route. *)
ConsoleSelects(s, m) == s # Bridge /\ LookAt(s, m)
ChatSelects(c, m) == route[c] = None /\ LookAt(Bridge, m)

(* Seeded fault: the bridge leaves the choice of the server to set_model. *)
AnyServer(s) == None

(* The server set_model is told to write to. *)
Recorded(s) == select[s].name

(* The model is there: it is recorded, unless the server is gone. *)
Looked(s) ==
    /\ select[s].stage = "looking"
    /\ select[s].model \in Installed[select[s].host]
    /\ SetLocalModel(Recorded(s), select[s].model)
    /\ select' = [select EXCEPT ![s] = NoSelection]
    /\ UNCHANGED <<requestVars, turnVars, commands>>

(* The model is not there, the host does not answer, or the server is gone. *)
LookFails(s) ==
    /\ select[s].stage = "looking"
    /\ select' = [select EXCEPT ![s] = NoSelection]
    /\ UNCHANGED <<configVars, requestVars, turnVars, commands>>

(* The commands of a client that edit a registry in one piece. *)
ConfigCommand ==
    \/ \E n \in Names, u \in Hosts : AddServer(n, u)
    \/ \E n \in Names : RemoveServer(n)
    \/ \E n \in Names : SetDefault(n)
    \/ \E n \in Names, o \in Tunings : SetOptions(n, o)
    \/ \E p \in Providers, m \in Models : \E u \in Addresses[p] : Configure(p, u, m)
    \/ \E p \in Providers, m \in Models : SetCloudModel(p, m)

OwnerEdits == Count /\ ConfigCommand /\ UNCHANGED <<requestVars, turnVars, select>>

Next ==
    \/ \E t \in Turns :
        \/ \E asked \in Asked : TerminalAsks(t, asked)
        \/ NotReady(t)
        \/ Ready(t)
        \/ Send(t)
        \/ NoModel(t)
        \/ Asking(t)
        \/ AnotherStep(t)
        \/ TurnEnds(t)
        \/ Cancel(t)
    \/ \E c \in Chats :
        \/ ChatSends(c)
        \/ ReplyBegins(c)
        \/ CancelChat(c)
        \/ UseLocal(c)
        \/ \E p \in Providers : UseCloud(c, p)
        \/ ListCloudModels(c)
        \/ \E m \in Models : PressModel(c, m) \/ NameModel(c, m)
        \/ \E m \in Models : ChatSelects(c, m)
    \/ \E s \in Consoles \cup {Bridge} :
        \/ \E m \in Models : ConsoleSelects(s, m)
        \/ Looked(s)
        \/ LookFails(s)
    \/ OwnerEdits

Spec == Init /\ [][Next]_vars

-----------------------------------------------------------------------------
TypeOK ==
    /\ ConfigTypeOK
    /\ RequestTypeOK
    /\ turn \in [Turns -> [stage : {"idle", "check", "send", "asking"}, asked : Asked,
                           to : Route \cup {NoRoute}, steps : 0..MaxSteps]]
    /\ route \in [Chats -> Providers \cup {None}]
    /\ waiting \in [Chats -> 0..MaxCommands]
    /\ choices \in [Chats -> SUBSET Models]
    /\ select \in [Consoles \cup {Bridge} ->
           [stage : {"idle", "looking"}, host : Hosts \cup {None}, name : Names \cup {None},
            model : Models \cup {None}]]
    /\ commands \in 0..MaxCommands

(* A prompt goes to a cloud provider exactly when its turn asked for one, and *)
(* to that one, in every step and however the requests before have failed     *)
(* (agent.py, "never selected automatically, and never as a fallback when the *)
(* local model is slow or fails, so no prompt leaves the machine unbidden").  *)
CloudOnlyAsAsked ==
    \A t \in Turns : request[t].stage # "none" =>
        /\ (request[t].to.kind = "cloud") <=> (turn[t].asked # None)
        /\ turn[t].asked \in Providers => request[t].to.at = turn[t].asked

(* The host and the model of a local request belong together when it is sent: *)
(* the model is the one recorded for a server with that URL, also when the    *)
(* owner moves to another server between two steps of the turn (ollama.py,    *)
(* "the model chosen on one host has no meaning on another").                 *)
Sends(t) == request[t].stage = "none" /\ request'[t].stage = "opening"

ModelOfItsServer ==
    [][\A t \in Turns : Sends(t) /\ request'[t].to.kind = "local" =>
          \E i \in DOMAIN servers : /\ servers[i].url = request'[t].to.at
                                    /\ servers[i].model = request'[t].to.model]_vars

(* A model that a chat selects is recorded for the server whose models were   *)
(* looked at, whatever has become the default in the meantime (telegram.py,   *)
(* /model).                                                                   *)
ChatSelectsWhereItLooked ==
    [][\A i \in DOMAIN servers :
          /\ select[Bridge].stage = "looking" /\ select'[Bridge].stage = "idle"
          /\ DOMAIN servers' = DOMAIN servers
          /\ servers'[i].model # servers[i].model
          => servers[i].name = select[Bridge].name]_vars
=============================================================================
