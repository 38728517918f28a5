---------------------------- MODULE ModelConfig ----------------------------
(***************************************************************************)
(* Where inference may run: the Ollama servers of ollama.json (ollama.py,  *)
(* OllamaConfig) and the cloud providers of providers.json (providers.py,  *)
(* ProviderRegistry).  Both files are read again for every question, so    *)
(* whoever asks twice may get two answers.                                 *)
(*                                                                         *)
(* A dict keeps its insertion order and json keeps the dict's, so the      *)
(* servers are a sequence: "the first one left" has a meaning.  Files are  *)
(* those the program writes: every entry is enabled and has a valid URL,   *)
(* every provider has a key and an https address.                          *)
(***************************************************************************)
EXTENDS Naturals, Sequences, SequencesExt

CONSTANTS
    Names,          (* names the owner gives to Ollama servers                 *)
    Hosts,          (* URLs of Ollama servers                                  *)
    Models,         (* model names                                             *)
    Providers,      (* names of cloud providers                                *)
    Addresses,      (* per provider: the base URLs it may be configured with:  *)
                    (* the catalogue's one, one per Cloudflare account, any    *)
                    (* https address of a custom provider                      *)
    None,           (* the empty string of the files                           *)
    InitialServers, (* contents of ollama.json before the daemon starts        *)
    InitialCloud    (* contents of providers.json at that time                 *)

VARIABLES
    servers,   (* OllamaConfig: the entries in the order of the file           *)
    default,   (* OllamaConfig: the "default" key                              *)
    cloud,     (* ProviderRegistry: address and model of every provider        *)
    preferred  (* ProviderRegistry: the "default" key                          *)

configVars == <<servers, default, cloud, preferred>>
ollamaVars == <<servers, default>>
cloudVars  == <<cloud, preferred>>

Options == [small : BOOLEAN, cpu : BOOLEAN]  \* num_batch <= 32, num_gpu = 0
Entry   == [name : Names, url : Hosts, model : Models \cup {None}, options : Options]
Urls    == UNION {Addresses[p] : p \in Providers}
Account == [url : Urls, model : Models]
NoAccount == [url |-> None, model |-> None]

ASSUME ConfigAssumption ==
    /\ None \notin Names \cup Hosts \cup Models \cup Providers
    /\ InitialServers \subseteq Seq(Entry)
    /\ \A file \in InitialServers : \A i, j \in DOMAIN file :
           file[i].name = file[j].name => i = j
    /\ InitialCloud \subseteq [Providers -> Account \cup {NoAccount}]

Named(n, file) == { i \in DOMAIN file : file[i].name = n }
Known(n) == Named(n, servers) # {}
Configured == { p \in Providers : cloud[p] # NoAccount }

ConfigInit ==
    /\ servers \in InitialServers
    /\ default = IF servers = <<>> THEN None ELSE servers[1].name
    /\ cloud \in InitialCloud
    /\ preferred \in IF Configured = {} THEN {None} ELSE Configured

(* default_name and active: the default, or the first server of the file. *)
HasActive == servers # <<>>
Active ==
    IF Known(default) THEN servers[CHOOSE i \in Named(default, servers) : TRUE]
    ELSE servers[1]

-----------------------------------------------------------------------------
(* add_server: a known name keeps its place, its model and its options, also  *)
(* when the URL is another one.                                               *)
AddServer(n, u) ==
    /\ servers' = IF Known(n)
                  THEN [i \in DOMAIN servers |-> IF servers[i].name = n
                           THEN [servers[i] EXCEPT !.url = u] ELSE servers[i]]
                  ELSE Append(servers, [name |-> n, url |-> u, model |-> None,
                                        options |-> [small |-> FALSE, cpu |-> FALSE]])
    /\ default' = IF default = None THEN n ELSE default
    /\ UNCHANGED cloudVars

(* del servers[name]: the others keep their order. *)
Without(n) == RemoveAt(servers, CHOOSE i \in Named(n, servers) : TRUE)

(* Seeded fault: the default is not moved when its server is removed. *)
RemoveKeepsDefault(n) ==
    /\ Known(n)
    /\ servers' = Without(n)
    /\ UNCHANGED <<default, cloudVars>>

(* remove_server: the first server left becomes the default. *)
RemoveServer(n) ==
    /\ Known(n)
    /\ servers' = Without(n)
    /\ default' = IF default # n THEN default
                  ELSE IF servers' = <<>> THEN None ELSE servers'[1].name
    /\ UNCHANGED cloudVars

SetDefault(n) ==
    /\ Known(n)
    /\ default' = n
    /\ UNCHANGED <<servers, cloudVars>>

SetOptions(n, o) ==
    /\ Known(n)
    /\ servers' = [i \in DOMAIN servers |->
                      IF servers[i].name = n THEN [servers[i] EXCEPT !.options = o]
                      ELSE servers[i]]
    /\ UNCHANGED <<default, cloudVars>>

(* set_model: without a name the "default" key is taken as it is, not the      *)
(* active server; a name that is not in the file is refused.                   *)
Target(n) == IF n = None THEN default ELSE n

SetLocalModel(n, m) ==
    /\ Known(Target(n))
    /\ servers' = [i \in DOMAIN servers |->
                      IF servers[i].name = Target(n) THEN [servers[i] EXCEPT !.model = m]
                      ELSE servers[i]]
    /\ UNCHANGED <<default, cloudVars>>

-----------------------------------------------------------------------------
(* configure and configure_custom write the whole entry, which may move a      *)
(* known provider to another address, and make it the preferred one.          *)
Configure(p, u, m) ==
    /\ u \in Addresses[p]
    /\ cloud' = [cloud EXCEPT ![p] = [url |-> u, model |-> m]]
    /\ preferred' = p
    /\ UNCHANGED ollamaVars

(* set_model of the registry: the provider must be configured. *)
SetCloudModel(p, m) ==
    /\ p \in Configured
    /\ cloud' = [cloud EXCEPT ![p] = [url |-> cloud[p].url, model |-> m]]
    /\ UNCHANGED <<preferred, ollamaVars>>

-----------------------------------------------------------------------------
ConfigTypeOK ==
    /\ servers \in Seq(Entry)
    /\ default \in Names \cup {None}
    /\ cloud \in [Providers -> Account \cup {NoAccount}]
    /\ preferred \in Providers \cup {None}

(* After any sequence of adding, removing and choosing, the default names a   *)
(* server of the file, and is empty only with the file: the server that       *)
(* set_model(None) writes to is the one that requests go to (ollama.py,       *)
(* remove_server, set_model and default_name).                                *)
DefaultIsAServer ==
    /\ HasActive => Known(default)
    /\ ~HasActive => default = None
=============================================================================
