------------------------------ MODULE McpHost ------------------------------
(***************************************************************************)
(* The MCP host: LocalMcpHttpService over SimpleWebHttpHost, the bearer    *)
(* credentials in mcp-host.json, and the window's rotation of a token.     *)
(* The window's thread starts, stops and rotates; the server's pool        *)
(* threads answer requests meanwhile; the process may die between any two  *)
(* steps, and only the file survives.                                      *)
(***************************************************************************)
EXTENDS FiniteSets, Naturals

CONSTANTS
  Clients,
  Tokens,         \* what the CSPRNG draws in this instance; never one twice
  NoToken, NoClient,
  Threads,        \* the pool; thread_pool_size is maximum_connections
  MaxOperations,  \* how many processes and rotations are started (a bound)
  MaxCrashes      \* how often the process dies (a bound)

ASSUME McpHostAssumption ==
  /\ NoToken \notin Tokens /\ NoClient \notin Clients
  /\ IsFiniteSet(Threads) /\ IsFiniteSet(Clients)
  /\ MaxOperations \in Nat /\ MaxCrashes \in Nat

VARIABLES
  configuration,    \* mcp-host.json
  profiles,         \* the ids of the client profiles the process loaded
  ui,               \* where the window's thread is, and what it has loaded
  launching,        \* the server thread has not come to its acceptor yet
  accepting,        \* the server hands requests to its threads
  running,          \* running_
  clients,          \* clients_: the token each client must present
  request,          \* what each pool thread is doing
  active_requests,
  operations, crashes,
  \* history
  drawn,            \* tokens that exist
  revoked           \* tokens a saved rotation replaced

fileVars == <<configuration, drawn, revoked>>
serverVars == <<launching, accepting, running, clients>>
requestVars == <<request, active_requests>>
boundVars == <<operations, crashes>>
vars == <<fileVars, profiles, ui, serverVars, requestVars, boundVars>>

MaximumConnections == Cardinality(Threads)

Configurations ==
  [enabled : BOOLEAN, client_credentials : [Clients -> Tokens \cup {NoToken}],
   legacy_bearer_token : Tokens \cup {NoToken}]

NoTokens == [c \in Clients |-> NoToken]
NoConfiguration == [enabled |-> FALSE, client_credentials |-> NoTokens, legacy_bearer_token |-> NoToken]

At(pc, conf, client) == [pc |-> pc, configuration |-> conf, client |-> client]

Waiting == [pc |-> "idle", token |-> NoToken, client |-> NoClient]

(* The staged template holds no credential; an old installation (schema    *)
(* version 1) holds one token for everybody.                               *)
Init ==
  /\ configuration \in {conf \in Configurations : conf.client_credentials = NoTokens}
  /\ drawn = {configuration.legacy_bearer_token} \ {NoToken}
  /\ profiles = {}
  /\ ui = At("down", NoConfiguration, NoClient)
  /\ launching = FALSE /\ accepting = FALSE /\ running = FALSE /\ clients = NoTokens
  /\ request = [t \in Threads |-> Waiting] /\ active_requests = 0
  /\ operations = 0 /\ crashes = 0 /\ revoked = {}

Goto(pc) == ui' = [ui EXCEPT !.pc = pc]

(* The end of start or of regenerate, whether it failed or not. *)
Return == ui' = At("idle", NoConfiguration, NoClient)

-----------------------------------------------------------------------------
(* ensure_client_credentials. *)

(* The legacy token becomes the token of the only profile. *)
Migrated(conf) ==
  IF conf.legacy_bearer_token = NoToken THEN conf
  ELSE [conf EXCEPT
         !.client_credentials = [c \in Clients |-> IF c \in profiles THEN conf.legacy_bearer_token
                                                                     ELSE NoToken],
         !.legacy_bearer_token = NoToken]

(* Mutant of Ensurable: a legacy token for whoever is configured. *)
EnsurableShared(conf) == \A c \in Clients \ profiles : conf.client_credentials[c] = NoToken

(* The legacy token needs a single profile, a credential a known one. *)
Ensurable(conf) ==
  /\ conf.legacy_bearer_token # NoToken => Cardinality(profiles) = 1
  /\ \A c \in Clients \ profiles : conf.client_credentials[c] = NoToken

(* Mutant of Missing: everybody gets a new token at every start. *)
MissingAlways(conf) == profiles

Missing(conf) == {c \in profiles : Migrated(conf).client_credentials[c] = NoToken}

(* Every profile without a credential gets a token of its own. *)
Ensured(conf) ==
  {[Migrated(conf) EXCEPT !.client_credentials =
      [c \in Clients |-> IF c \in Missing(conf) THEN fresh[c]
                         ELSE Migrated(conf).client_credentials[c]]] :
     fresh \in {f \in [Missing(conf) -> Tokens \ drawn] :
                  \A a, b \in Missing(conf) : f[a] = f[b] => a = b}}

TokensOf(conf) == {conf.client_credentials[c] : c \in Clients} \ {NoToken}

-----------------------------------------------------------------------------
(* LocalMcpHttpService::start, from the composition root or a rotation.    *)

(* A new process reads profiles and settings that may have been edited. *)
Boot(ids, enabled) ==
  /\ ui.pc = "down" /\ operations < MaxOperations
  /\ operations' = operations + 1
  /\ profiles' = ids
  /\ configuration' = [configuration EXCEPT !.enabled = enabled]
  /\ ui' = At("stop", NoConfiguration, NoClient)
  /\ UNCHANGED <<drawn, revoked, serverVars, requestVars, crashes>>

(* Mutant of StopServer: the join is left to end the listening as well. *)
StopLeavesAccepting ==
  /\ ui.pc \in {"stop", "startup_failed"}
  /\ Goto(IF ui.pc = "stop" THEN "join" ELSE "join_failed")
  /\ UNCHANGED <<fileVars, profiles, serverVars, requestVars, boundVars>>

(* stop, or the clean-up of a server that did not come up in five seconds. *)
(* Only an acceptor that exists is closed: a server thread that has not    *)
(* come to its own goes on to open it.                                     *)
StopServer ==
  /\ ui.pc \in {"stop", "startup_failed"}
  /\ accepting' = FALSE
  /\ Goto(IF ui.pc = "stop" THEN "join" ELSE "join_failed")
  /\ UNCHANGED <<fileVars, profiles, launching, running, clients, requestVars, boundVars>>

Unjoined == TRUE  \* mutant of Joined: the pool is left to itself

(* The server thread ends when it need not listen and no handler runs. *)
Joined == ~launching /\ ~accepting /\ \A t \in Threads : request[t] = Waiting

JoinServer ==
  /\ ui.pc \in {"join", "join_failed"}
  /\ Joined
  /\ running' = FALSE
  /\ clients' = NoTokens
  /\ IF ui.pc = "join" THEN Goto("load") ELSE Return
  /\ UNCHANGED <<fileVars, profiles, launching, accepting, requestVars, boundVars>>

(* The host stays stopped: disabled, no profile, or a file, a token or a   *)
(* random generator that fails.                                            *)
GiveUp ==
  /\ ui.pc \in {"load", "save"}
  /\ Return
  /\ UNCHANGED <<fileVars, profiles, serverVars, requestVars, boundVars>>

LoadConfiguration ==
  /\ ui.pc = "load"
  /\ configuration.enabled /\ profiles # {} /\ Ensurable(configuration)
  /\ \E conf \in Ensured(configuration) :
       /\ drawn' = drawn \cup TokensOf(conf)
       /\ ui' = At(IF conf = configuration THEN "bind" ELSE "save", conf, ui.client)
  /\ UNCHANGED <<configuration, revoked, profiles, serverVars, requestVars, boundVars>>

(* Mutant of SaveCredentials: new tokens are served, not saved. *)
ServeUnsaved ==
  /\ ui.pc = "save"
  /\ Goto("bind")
  /\ UNCHANGED <<fileVars, profiles, serverVars, requestVars, boundVars>>

(* The new file replaces the old one in one rename. *)
SaveCredentials ==
  /\ ui.pc = "save"
  /\ configuration' = ui.configuration
  /\ Goto("bind")
  /\ UNCHANGED <<drawn, revoked, profiles, serverVars, requestVars, boundVars>>

Bind ==
  /\ ui.pc = "bind"
  /\ clients' = [c \in Clients |-> IF c \in profiles THEN ui.configuration.client_credentials[c]
                                                     ELSE NoToken]
  /\ active_requests' = 0
  /\ launching' = TRUE
  /\ Goto("starting")
  /\ UNCHANGED <<fileVars, profiles, accepting, running, request, boundVars>>

(* The server thread, which the window gives five seconds: wherever the    *)
(* window is by then, it opens its acceptor, or fails on a port taken.     *)
Listen ==
  /\ launching
  /\ launching' = FALSE /\ accepting' = TRUE
  /\ UNCHANGED <<fileVars, profiles, ui, running, clients, requestVars, boundVars>>

ListenFails ==
  /\ launching
  /\ launching' = FALSE
  /\ UNCHANGED <<fileVars, profiles, ui, accepting, running, clients, requestVars, boundVars>>

Started ==
  /\ ui.pc = "starting" /\ accepting
  /\ running' = TRUE
  /\ Return
  /\ UNCHANGED <<fileVars, profiles, launching, accepting, clients, requestVars, boundVars>>

(* The server thread reports an error, or five seconds went by. *)
StartupFails ==
  /\ ui.pc = "starting"
  /\ Goto("startup_failed")
  /\ UNCHANGED <<fileVars, profiles, serverVars, requestVars, boundVars>>

-----------------------------------------------------------------------------
(* DesktopUiState::regenerate_mcp_bearer_token.                            *)

(* Load, ensure and replace the token in memory, or fail and return. *)
Regenerate(c) ==
  /\ ui.pc = "idle" /\ operations < MaxOperations
  /\ operations' = operations + 1
  /\ c \in profiles /\ Ensurable(configuration)
  /\ \E conf \in Ensured(configuration) :
       \E fresh \in Tokens \ (drawn \cup TokensOf(conf)) :
         LET rotated == [conf EXCEPT !.client_credentials[c] = fresh]
         IN /\ drawn' = drawn \cup TokensOf(conf) \cup {fresh}
            /\ ui' = At("save_rotated", rotated, c)
  /\ UNCHANGED <<configuration, revoked, profiles, serverVars, requestVars, crashes>>

(* The token the file holds for the client before its rotation is saved.   *)
Replaced(c) == Migrated(configuration).client_credentials[c]

(* Mutant of RestartNeeded: the host goes on with its table. *)
NeverRestart == FALSE

RestartNeeded == running

SaveRotated ==
  /\ ui.pc = "save_rotated"
  /\ \/ /\ configuration' = ui.configuration
        /\ revoked' = revoked \cup ({Replaced(ui.client)} \ {NoToken})
        /\ IF RestartNeeded THEN Goto("stop") ELSE Return
     \/ /\ UNCHANGED <<configuration, revoked>>
        /\ Return
  /\ UNCHANGED <<drawn, profiles, serverVars, requestVars, boundVars>>

-----------------------------------------------------------------------------
(* SimpleWebHttpHost's dispatch and LocalMcpHttpService::handle.           *)

(* With maximum_connections requests active the answer is 429 and the      *)
(* counter as before.                                                      *)
Receive(t, token) ==
  /\ accepting /\ request[t] = Waiting
  /\ active_requests < MaximumConnections
  /\ active_requests' = active_requests + 1
  /\ request' = [request EXCEPT ![t] = [@ EXCEPT !.pc = "received", !.token = token]]
  /\ UNCHANGED <<fileVars, profiles, ui, serverVars, boundVars>>

(* The client of the presented token.  The host's other reasons to refuse  *)
(* a request are left out: they read nothing that changes.  Every profile  *)
(* counts as enabled: the model serves what the code serves, and more.     *)
Authenticate(t) ==
  /\ request[t].pc = "received"
  /\ \E c \in Clients :
       /\ clients[c] = request[t].token
       /\ request' = [request EXCEPT ![t].pc = "authorized", ![t].client = c]
  /\ UNCHANGED <<fileVars, profiles, ui, serverVars, active_requests, boundVars>>

(* Mutant of Respond: an exception skips the release of the slot. *)
RespondAndLeak(t) ==
  /\ request[t] # Waiting
  /\ request' = [request EXCEPT ![t] = Waiting]
  /\ active_requests' \in {active_requests, active_requests - 1}
  /\ UNCHANGED <<fileVars, profiles, ui, serverVars, boundVars>>

(* The result, a refusal or the 500 of an exception. *)
Respond(t) ==
  /\ request[t] # Waiting
  /\ request' = [request EXCEPT ![t] = Waiting]
  /\ active_requests' = active_requests - 1
  /\ UNCHANGED <<fileVars, profiles, ui, serverVars, boundVars>>

(* The process dies. *)
Crash ==
  /\ ui.pc # "down" /\ crashes < MaxCrashes
  /\ crashes' = crashes + 1
  /\ ui' = At("down", NoConfiguration, NoClient)
  /\ launching' = FALSE /\ accepting' = FALSE /\ running' = FALSE /\ clients' = NoTokens
  /\ request' = [t \in Threads |-> Waiting] /\ active_requests' = 0
  /\ UNCHANGED <<fileVars, profiles, operations>>

WindowStep ==
  \/ StopServer \/ JoinServer \/ LoadConfiguration \/ GiveUp \/ SaveCredentials
  \/ Bind \/ Started \/ StartupFails \/ SaveRotated

ServerStep == Listen \/ ListenFails

HandlerStep(t) == Authenticate(t) \/ Respond(t)

Next ==
  \/ \E ids \in SUBSET Clients, enabled \in BOOLEAN : Boot(ids, enabled)
  \/ \E c \in Clients : Regenerate(c)
  \/ WindowStep
  \/ ServerStep
  \/ \E t \in Threads : HandlerStep(t) \/ \E token \in drawn : Receive(t, token)
  \/ Crash

(* The window's thread waits for nothing but the join and a bounded wait   *)
(* for the server; the server thread comes to its acceptor at some time; a *)
(* handler ends because every wait of the port is bounded.                 *)
Fairness ==
  WF_vars(WindowStep) /\ WF_vars(ServerStep) /\ \A t \in Threads : WF_vars(Respond(t))

Spec == Init /\ [][Next]_vars
FairSpec == Spec /\ Fairness

-----------------------------------------------------------------------------
Steps == {"down", "idle", "stop", "join", "load", "save", "bind", "starting",
          "startup_failed", "join_failed", "save_rotated"}

TypeOK ==
  /\ configuration \in Configurations
  /\ profiles \subseteq Clients
  /\ ui \in [pc : Steps, configuration : Configurations, client : Clients \cup {NoClient}]
  /\ launching \in BOOLEAN /\ accepting \in BOOLEAN /\ running \in BOOLEAN
  /\ clients \in [Clients -> Tokens \cup {NoToken}]
  /\ request \in [Threads -> [pc : {"idle", "received", "authorized"},
                              token : Tokens \cup {NoToken}, client : Clients \cup {NoClient}]]
  /\ active_requests \in 0..MaximumConnections
  /\ drawn \subseteq Tokens /\ revoked \subseteq drawn
  /\ operations \in 0..MaxOperations /\ crashes \in 0..MaxCrashes

(* The slots of the host are exactly its busy threads, through restarts    *)
(* and exceptions: a leaked slot would lock a client out for good, a reset *)
(* under a running handler would wrap the unsigned counter.                *)
(* (SimpleWebHttpHost.cpp:115-120)                                         *)
SlotsAreBusyThreads ==
  active_requests = Cardinality({t \in Threads : request[t] # Waiting})

(* Whatever is accepted is on disk: a token a client was given (or reads   *)
(* from the Server page) is good after a crash at any point.  The one gap  *)
(* is a rotation between its save and its stop.                            *)
ServedIsSaved ==
  accepting /\ ui.pc # "stop" =>
    \A c \in Clients :
      clients[c] = IF c \in profiles THEN configuration.client_credentials[c] ELSE NoToken

(* "rotation immediately invalidates its old token" (README.md:81): once   *)
(* the window has its answer no request runs, or can run, on a token that  *)
(* was replaced, though requests were under way during the rotation.       *)
RotationIsImmediate ==
  ui.pc \in {"idle", "down"} =>
    /\ \A c \in Clients : clients[c] \notin revoked
    /\ \A t \in Threads : request[t].pc = "authorized" => request[t].token \notin revoked

(* No start, migration or crash costs a client its token: only its own     *)
(* rotation does, and the token of an old installation goes to a sole      *)
(* profile, "never silently assigned across several profiles"              *)
(* (docs/architecture.md:84-87).                                           *)
TokensAreKept ==
  [][/\ \A c \in Clients :
          configuration.client_credentials[c] \notin
            {NoToken, configuration'.client_credentials[c]} => ui.client = c
     /\ LET legacy == configuration.legacy_bearer_token
        IN legacy # NoToken /\ configuration'.legacy_bearer_token # legacy =>
             \E c \in Clients :
               /\ profiles = {c}
               /\ configuration'.client_credentials[c] = legacy \/ ui.client = c]_vars

(* The host keeps ServedClients's promise, on which the policy check of a  *)
(* write relies.                                                           *)
Promise ==
  INSTANCE ServedClients WITH
    Credentials <- Tokens \cup {NoToken},
    Nobody <- NoToken,
    served <- clients,
    working <- [t \in Threads |-> IF request[t].pc = "authorized" THEN request[t].client
                                                                  ELSE NoToken]

KeepsPromise == Promise!ServedSpec

(* A server that opened its acceptor after the window gave it up and found *)
(* nothing to close: it serves, and the join of it does not end.           *)
LateServer == ui.pc = "join_failed" /\ accepting

(* Start and rotation come back: the join cannot wait for ever on requests *)
(* that keep arriving, only on a late server.                              *)
(* (SimpleWebHttpHost.cpp:161-169)                                         *)
WindowReturns ==
  ui.pc \notin {"idle", "down"} ~> ui.pc \in {"idle", "down"} \/ LateServer

(* What the code says of a server it gave up ("HTTP host did not start     *)
(* within 5 seconds", SimpleWebHttpHost.cpp:147): start comes back with    *)
(* that answer.                                                            *)
GivenUpReturns == ui.pc = "startup_failed" ~> ui.pc \in {"idle", "down"}
=============================================================================
