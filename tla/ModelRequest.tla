---------------------------- MODULE ModelRequest ----------------------------
(***************************************************************************)
(* One model request of a turn: OllamaRuntime.chat_stream and              *)
(* OllamaClient.chat_stream on the local route (runtime.py, ollama.py),    *)
(* ProviderRegistry.stream on the cloud route (providers.py).              *)
(*                                                                         *)
(* The HTTP call runs in a thread, so the owner's commands run between its *)
(* start and its answer.  A request that is refused may be sent once more: *)
(* locally with less memory, on a cloud endpoint with the tools written    *)
(* into the prompt.  The endpoint is outside of the program: it answers    *)
(* any of the ways the code tells apart.  Requests offer tools.            *)
(***************************************************************************)
EXTENDS ModelConfig

CONSTANTS
    Turns,      (* chats that may have a turn under way                        *)
    Anthropic   (* providers with a wire protocol of their own                 *)

ASSUME RequestAssumption == Anthropic \subseteq Providers

VARIABLES
    request,   (* per turn: its model request                                  *)
    textTools, (* ProviderRegistry._text_tool_models                           *)
    refused    (* history: where a request with tools was refused for them     *)

requestVars == <<request, textTools, refused>>

Route ==    [kind : {"local"}, at : Hosts, model : Models]
       \cup [kind : {"cloud"}, at : Providers, url : Urls, model : Models]
NoRoute == [kind |-> "none", at |-> None, model |-> None]

Stages == {"none", "opening", "streaming", "answered", "failed", "exhausted"}
NoRequest == [stage |-> "none", to |-> NoRoute, options |-> [small |-> FALSE, cpu |-> FALSE],
              tries |-> 0, complete |-> FALSE]

RequestInit ==
    /\ request = [t \in Turns |-> NoRequest]
    /\ textTools = {}
    /\ refused = {}

EndsAs(t, stage) ==
    /\ request' = [request EXCEPT ![t].stage = stage]
    /\ UNCHANGED <<configVars, textTools, refused>>

-----------------------------------------------------------------------------
(* Seeded fault: the client is made for the first server of the file. *)
FirstHost == [kind |-> "local", at |-> servers[1].url, model |-> Active.model]

(* Model, options and client are read in one piece, after the last await.     *)
LocalRoute == [kind |-> "local", at |-> Active.url, model |-> Active.model]

Open(t, to, options) ==
    /\ request' = [request EXCEPT ![t] =
           [stage |-> "opening", to |-> to, options |-> options, tries |-> 1,
            complete |-> FALSE]]
    /\ UNCHANGED <<configVars, textTools, refused>>

(* Seeded fault: the second attempt asks for the active server again. *)
AgainAnywhere(t) == IF request[t].to.kind = "local" THEN LocalRoute ELSE request[t].to

(* The second attempt sends the payload of the first one to the same address. *)
Again(t) == request[t].to

Retry(t, options) ==
    request' = [request EXCEPT ![t] = [@ EXCEPT !.to = Again(t), !.options = options,
                                                !.tries = 2]]

(* HTTP 500 "out of memory": a smaller batch, or else the CPU, or else nothing. *)
OutOfMemory(t) ==
    LET o == request[t].options IN
    /\ request[t].stage = "opening"
    /\ request[t].to.kind = "local"
    /\ IF request[t].tries = 1 /\ ~(o.small /\ o.cpu)
       THEN /\ Retry(t, IF ~o.small THEN [o EXCEPT !.small = TRUE]
                        ELSE [o EXCEPT !.cpu = TRUE])
            /\ UNCHANGED <<configVars, textTools, refused>>
       ELSE EndsAs(t, "exhausted")

(* HTTP 400, 415 or 422 about tools or functions. *)
ToolsRefused(t) ==
    /\ request[t].stage = "opening"
    /\ request[t].to.kind = "cloud"
    /\ IF request[t].tries = 1 /\ request[t].to.at \notin Anthropic
       THEN /\ Retry(t, request[t].options)
            /\ refused' = refused \cup {request[t].to}
            /\ UNCHANGED <<configVars, textTools>>
       ELSE EndsAs(t, "failed")

(* Any other refusal, and an endpoint that cannot be reached. *)
Refused(t) ==
    /\ request[t].stage = "opening"
    /\ EndsAs(t, "failed")

(* Seeded fault: the model the provider has now is remembered. *)
ConfiguredNow(t) == <<request[t].to.at, cloud[request[t].to.at].model>>

(* A second attempt that was taken is remembered under the provider and model *)
(* of this turn; the address is no part of it.                                *)
Remembered(t) == <<request[t].to.at, request[t].to.model>>

(* The endpoint starts to answer. *)
Opened(t) ==
    /\ request[t].stage = "opening"
    /\ request' = [request EXCEPT ![t].stage = "streaming"]
    /\ textTools' = IF request[t].to.kind = "cloud" /\ request[t].tries = 2
                    THEN textTools \cup {Remembered(t)} ELSE textTools
    /\ UNCHANGED <<configVars, refused>>

-----------------------------------------------------------------------------
(* "finish_reason" of a cloud endpoint: the stream goes on to its end. *)
FinishReason(t) ==
    /\ request[t].stage = "streaming"
    /\ request[t].to.kind = "cloud"
    /\ request[t].to.at \notin Anthropic
    /\ request' = [request EXCEPT ![t].complete = TRUE]
    /\ UNCHANGED <<configVars, textTools, refused>>

(* "done" of Ollama, "[DONE]", "message_stop" of Anthropic. *)
LastLine(t) ==
    /\ request[t].stage = "streaming"
    /\ request' = [request EXCEPT ![t].complete = TRUE, ![t].stage = "answered"]
    /\ UNCHANGED <<configVars, textTools, refused>>

(* Seeded fault: the end of the stream is the end of the answer. *)
EofAnswers(t) == TRUE

Answers(t) == request[t].to.kind = "cloud" /\ request[t].complete

(* The stream ends without a last line. *)
EndOfStream(t) ==
    /\ request[t].stage = "streaming"
    /\ EndsAs(t, IF Answers(t) THEN "answered" ELSE "failed")

(* An error line, or a read that fails or times out. *)
StreamFails(t) ==
    /\ request[t].stage = "streaming"
    /\ EndsAs(t, "failed")

RequestNext(t) ==
    \/ OutOfMemory(t)
    \/ ToolsRefused(t)
    \/ Refused(t)
    \/ Opened(t)
    \/ FinishReason(t)
    \/ LastLine(t)
    \/ EndOfStream(t)
    \/ StreamFails(t)

-----------------------------------------------------------------------------
RequestTypeOK ==
    /\ request \in [Turns -> [stage : Stages, to : Route \cup {NoRoute}, options : Options,
                              tries : 0..2, complete : BOOLEAN]]
    /\ textTools \subseteq Providers \X Models
    /\ refused \subseteq Route

(* A reply is taken for an answer only if the endpoint said that it was       *)
(* finished: text before the connection broke is never one (providers.py,     *)
(* "partial output is not a successful answer"; ollama.py, "chat stream ended *)
(* without a completion response").                                           *)
AnswersAreComplete ==
    \A t \in Turns : request[t].stage = "answered" => request[t].complete

(* A provider and a model are remembered as taking tools only as text after   *)
(* tools were refused for that very model, never for the one the provider was *)
(* switched to between the refusal and the second attempt's answer            *)
(* (providers.py, stream).  The refusal may have come from an address the     *)
(* provider no longer has: nothing forgets it then.                           *)
RememberedWasRefused ==
    \A known \in textTools : \E r \in refused : known = <<r.at, r.model>>

(* A request that is sent again goes where it went before, with the same      *)
(* model, and only once, although the owner may have chosen another server in *)
(* the meantime (docs/wiki/Ollama.md, "It never loops, changes model, changes *)
(* endpoint, or calls a cloud provider").                                     *)
RecoveryStaysPut ==
    [][\A t \in Turns :
          request[t].stage = "opening" /\ request'[t].stage # "none" =>
              /\ request'[t].to = request[t].to
              /\ request'[t].tries > request[t].tries => request[t].tries = 1]_<<configVars, requestVars>>
=============================================================================
