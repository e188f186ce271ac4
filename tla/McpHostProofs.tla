--------------------------- MODULE McpHostProofs ---------------------------
(***************************************************************************)
(* What the host serves is on disk and not revoked, its slots are its busy *)
(* threads, and its table changes under no request: for every number of    *)
(* clients, tokens, threads, rotations and crashes.                        *)
(***************************************************************************)
EXTENDS McpHost, FiniteSetTheorems, TLAPS

Request ==
  [pc : {"idle", "received", "authorized"}, token : Tokens \cup {NoToken}, client : Clients \cup {NoClient}]

Requests == [Threads -> Request]

(* TypeOK without the limit of the slots, which follows from what they are.*)
Typed ==
  /\ configuration \in Configurations
  /\ profiles \subseteq Clients
  /\ ui \in [pc : Steps, configuration : Configurations, client : Clients \cup {NoClient}]
  /\ launching \in BOOLEAN /\ accepting \in BOOLEAN /\ running \in BOOLEAN
  /\ clients \in [Clients -> Tokens \cup {NoToken}]
  /\ request \in Requests
  /\ active_requests \in Nat
  /\ drawn \subseteq Tokens /\ revoked \subseteq drawn
  /\ operations \in 0..MaxOperations /\ crashes \in 0..MaxCrashes

(* Nothing is served and nobody works. *)
Quiet == Joined /\ ~running /\ clients = NoTokens

TableIsSaved ==
  \A c \in Clients :
    clients[c] = IF c \in profiles THEN configuration.client_credentials[c] ELSE NoToken

(* What the window's thread has achieved where it stands; a server thread  *)
(* of its own making that is not listening yet will serve what is saved.   *)
Phases ==
  /\ launching => ~accepting /\ ui.pc \in {"starting", "startup_failed", "join_failed"}
  /\ ui.pc \in {"down", "join"} => ~accepting
  /\ ui.pc \in {"load", "save", "bind"} => Quiet
  /\ ui.pc \in {"idle", "save_rotated"} /\ ~running => Quiet
  /\ ui.pc \in {"bind", "starting"} => configuration = ui.configuration
  /\ launching \/ ui.pc = "starting" \/ (accepting /\ ui.pc # "stop") => TableIsSaved

Busy == {t \in Threads : request[t] # Waiting}

LEMMA Constants ==
  /\ NoToken \notin Tokens /\ NoClient \notin Clients
  /\ IsFiniteSet(Threads) /\ IsFiniteSet(Clients)
  /\ MaxOperations \in Nat /\ MaxCrashes \in Nat
  BY McpHostAssumption

LEMMA NoConfigurationType == NoConfiguration \in Configurations
  BY DEF NoConfiguration, NoTokens, Configurations

LEMMA WaitingType == [t \in Threads |-> Waiting] \in Requests
  BY DEF Waiting, Requests, Request

-----------------------------------------------------------------------------
(* ensure_client_credentials keeps what there is and adds fresh tokens.    *)

(* No two clients have one token, and the token of an old installation     *)
(* stands alone.                                                           *)
Proper(conf) ==
  /\ \A c, d \in Clients :
       conf.client_credentials[c] = conf.client_credentials[d] /\ conf.client_credentials[c] # NoToken => c = d
  /\ conf.legacy_bearer_token # NoToken => conf.client_credentials = NoTokens

Known(conf) ==
  /\ \A c \in Clients : conf.client_credentials[c] \in drawn \cup {NoToken}
  /\ conf.legacy_bearer_token \in drawn \cup {NoToken}

Live(conf) ==
  /\ \A c \in Clients : conf.client_credentials[c] \notin revoked
  /\ conf.legacy_bearer_token \notin revoked

LEMMA MigratedIsProper ==
  ASSUME Typed, Proper(configuration), Known(configuration), Live(configuration), Ensurable(configuration)
  PROVE  LET conf == Migrated(configuration)
         IN /\ conf \in Configurations /\ Proper(conf) /\ Known(conf) /\ Live(conf)
            /\ conf.legacy_bearer_token = NoToken
<1>1. CASE configuration.legacy_bearer_token = NoToken
  BY <1>1 DEF Migrated, Typed
<1>2. CASE configuration.legacy_bearer_token # NoToken
  <2>1. PICK x : profiles = {x}
    BY <1>2, Constants, FS_Singleton, FS_Subset DEF Ensurable, Typed
  <2>2. /\ Migrated(configuration).client_credentials =
             [c \in Clients |-> IF c = x THEN configuration.legacy_bearer_token ELSE NoToken]
        /\ Migrated(configuration).legacy_bearer_token = NoToken
        /\ Migrated(configuration) \in Configurations
    BY <1>2, <2>1 DEF Migrated, Typed, Configurations
  <2>3. NoToken \notin revoked
    BY Constants DEF Typed
  <2> QED
    BY <1>2, <2>2, <2>3 DEF Proper, Known, Live
<1> QED
  BY <1>1, <1>2

LEMMA EnsuredIsProper ==
  ASSUME Typed, Proper(configuration), Known(configuration), Live(configuration), Ensurable(configuration),
         NEW conf \in Ensured(configuration)
  PROVE  /\ conf \in Configurations /\ Proper(conf) /\ Live(conf)
         /\ conf.legacy_bearer_token = NoToken
         /\ \A c \in Clients :
              \/ conf.client_credentials[c] = Migrated(configuration).client_credentials[c]
              \/ /\ Migrated(configuration).client_credentials[c] = NoToken
                 /\ conf.client_credentials[c] \in Tokens \ drawn
<1> DEFINE old == Migrated(configuration)
           missing == Missing(configuration)
<1>1. old \in Configurations /\ Proper(old) /\ Known(old) /\ Live(old) /\ old.legacy_bearer_token = NoToken
  BY MigratedIsProper
<1>2. PICK fresh \in [missing -> Tokens \ drawn] :
        /\ \A a, b \in missing : fresh[a] = fresh[b] => a = b
        /\ conf = [old EXCEPT !.client_credentials =
                     [c \in Clients |-> IF c \in missing THEN fresh[c] ELSE old.client_credentials[c]]]
  BY DEF Ensured
<1>3. \A c \in missing : c \in Clients /\ old.client_credentials[c] = NoToken
  BY DEF Missing, Typed
<1> HIDE DEF old, missing
<1>4. conf \in Configurations /\ conf.legacy_bearer_token = NoToken
  BY <1>1, <1>2 DEF Configurations
<1>5. \A c \in Clients : conf.client_credentials[c] = IF c \in missing THEN fresh[c] ELSE old.client_credentials[c]
  BY <1>1, <1>2 DEF Configurations
<1>6. Live(conf)
  BY <1>1, <1>2, <1>4, <1>5, Constants DEF Live, Typed
<1>7. Proper(conf)
  BY <1>1, <1>2, <1>4, <1>5, Constants DEF Proper, Known
<1> QED
  BY <1>2, <1>3, <1>4, <1>5, <1>6, <1>7 DEF old

-----------------------------------------------------------------------------
(* The inductive invariant.                                                *)

(* What is saved, and what the window is about to save or to serve, is     *)
(* known and not revoked; a rotation leaves no trace of the token it       *)
(* replaces; what was replaced outlives only the stop that follows.        *)
Secrets ==
  /\ Proper(configuration) /\ Known(configuration) /\ Live(configuration)
  /\ ui.pc \in {"save", "bind", "starting", "save_rotated"} =>
       Proper(ui.configuration) /\ Known(ui.configuration) /\ Live(ui.configuration)
  /\ ui.pc = "save_rotated" =>
       /\ ui.client \in Clients /\ ui.configuration.legacy_bearer_token = NoToken
       /\ Replaced(ui.client) # NoToken =>
            \A c \in Clients : ui.configuration.client_credentials[c] # Replaced(ui.client)
       /\ Replaced(ui.client) \in drawn \cup {NoToken}
  /\ \A t \in Threads : request[t].pc = "received" => request[t].token \in drawn
  /\ ui.pc \notin {"stop", "join"} =>
       /\ \A c \in Clients : clients[c] \notin revoked
       /\ \A t \in Threads : request[t].pc = "authorized" => request[t].token \notin revoked

HostInv == Typed /\ SlotsAreBusyThreads /\ Phases /\ Secrets

(* Sixteen actions leave the slots alone or free or take one.              *)
LEMMA SameSlots ==
  ASSUME SlotsAreBusyThreads, UNCHANGED requestVars
  PROVE  SlotsAreBusyThreads'
  BY DEF SlotsAreBusyThreads, requestVars

LEMMA IdleSlots ==
  ASSUME active_requests' = 0, request' = [t \in Threads |-> Waiting]
  PROVE  SlotsAreBusyThreads'
<1>1. {t \in Threads : request'[t] # Waiting} = {}
  OBVIOUS
<1> QED
  BY <1>1, FS_EmptySet DEF SlotsAreBusyThreads

LEMMA UiType ==
  ASSUME NEW pc \in Steps, NEW conf \in Configurations, NEW c \in Clients \cup {NoClient}
  PROVE  At(pc, conf, c) \in [pc : Steps, configuration : Configurations, client : Clients \cup {NoClient}]
  BY DEF At

LEMMA GotoType ==
  ASSUME Typed, NEW pc \in Steps, Goto(pc)
  PROVE  /\ ui' \in [pc : Steps, configuration : Configurations, client : Clients \cup {NoClient}]
         /\ ui'.pc = pc /\ ui'.configuration = ui.configuration /\ ui'.client = ui.client
  BY DEF Typed, Goto

LEMMA ReturnType ==
  ASSUME Return
  PROVE  /\ ui' \in [pc : Steps, configuration : Configurations, client : Clients \cup {NoClient}]
         /\ ui'.pc = "idle"
  BY NoConfigurationType DEF Return, At, Steps

LEMMA InitHolds == Init => HostInv
<1> SUFFICES ASSUME Init PROVE HostInv
  OBVIOUS
<1>1. /\ configuration \in Configurations /\ configuration.client_credentials = NoTokens
      /\ NoTokens \in [Clients -> Tokens \cup {NoToken}]
      /\ ui = [pc |-> "down", configuration |-> NoConfiguration, client |-> NoClient]
      /\ configuration.legacy_bearer_token \in Tokens \cup {NoToken}
  BY DEF Init, NoTokens, At, Configurations
<1>2. Typed
  <2>1. ui \in [pc : Steps, configuration : Configurations, client : Clients \cup {NoClient}]
    BY <1>1, NoConfigurationType DEF Steps
  <2>2. request \in Requests /\ clients \in [Clients -> Tokens \cup {NoToken}]
    BY <1>1, WaitingType DEF Init
  <2>3. operations \in 0..MaxOperations /\ crashes \in 0..MaxCrashes /\ active_requests \in Nat
    BY Constants DEF Init
  <2>4. drawn \subseteq Tokens /\ revoked \subseteq drawn /\ profiles \subseteq Clients
    BY <1>1 DEF Init
  <2>5. launching \in BOOLEAN /\ accepting \in BOOLEAN /\ running \in BOOLEAN
    BY DEF Init
  <2> QED
    BY <1>1, <2>1, <2>2, <2>3, <2>4, <2>5 DEF Typed
<1>3. SlotsAreBusyThreads
  <2>1. {t \in Threads : request[t] # Waiting} = {}
    BY DEF Init
  <2> QED
    BY <2>1, FS_EmptySet DEF SlotsAreBusyThreads, Init
<1>4. Phases
  BY <1>1 DEF Init, Phases
<1>5. Secrets
  BY <1>1, Constants DEF Init, Secrets, Proper, Known, Live, NoTokens, Waiting, Configurations
<1> QED
  BY <1>2, <1>3, <1>4, <1>5 DEF HostInv

-----------------------------------------------------------------------------
(* The window's thread.                                                    *)

LEMMA BootKeepsInv ==
  ASSUME HostInv, NEW ids \in SUBSET Clients, NEW enabled \in BOOLEAN, Boot(ids, enabled)
  PROVE  HostInv'
<1> USE DEF HostInv
<1>1. /\ ui'.pc = "stop" /\ ui' = At("stop", NoConfiguration, NoClient)
      /\ configuration' \in Configurations
      /\ configuration'.client_credentials = configuration.client_credentials
      /\ configuration'.legacy_bearer_token = configuration.legacy_bearer_token
  BY DEF Boot, At, Typed, Configurations
<1>2. Typed'
  BY <1>1, NoConfigurationType, UiType, Constants
     DEF Boot, Typed, Steps, serverVars, requestVars
<1>3. SlotsAreBusyThreads'
  BY SameSlots DEF Boot
<1>4. Phases'
  BY <1>1 DEF Phases, Boot, serverVars
<1>5. Secrets'
  BY <1>1 DEF Secrets, Proper, Known, Live, Boot, requestVars
<1> QED
  BY <1>2, <1>3, <1>4, <1>5

LEMMA StopServerKeepsInv == HostInv /\ StopServer => HostInv'
<1> SUFFICES ASSUME HostInv, StopServer PROVE HostInv'
  OBVIOUS
<1> USE DEF HostInv
<1>1. /\ ui' \in [pc : Steps, configuration : Configurations, client : Clients \cup {NoClient}]
      /\ ui'.pc = IF ui.pc = "stop" THEN "join" ELSE "join_failed"
  BY GotoType DEF StopServer, Steps
<1>2. Typed'
  BY <1>1 DEF StopServer, Typed, fileVars, requestVars, boundVars
<1>3. SlotsAreBusyThreads'
  BY SameSlots DEF StopServer
<1>4. Phases'
  BY <1>1 DEF Phases, StopServer, TableIsSaved, fileVars
<1>5. Secrets'
  BY <1>1 DEF Secrets, Proper, Known, Live, StopServer, fileVars, requestVars
<1> QED
  BY <1>2, <1>3, <1>4, <1>5

LEMMA JoinServerKeepsInv == HostInv /\ JoinServer => HostInv'
<1> SUFFICES ASSUME HostInv, JoinServer PROVE HostInv'
  OBVIOUS
<1> USE DEF HostInv
<1>1. /\ ui' \in [pc : Steps, configuration : Configurations, client : Clients \cup {NoClient}]
      /\ ui'.pc \in {"load", "idle"}
  BY GotoType, ReturnType DEF JoinServer, Steps
<1>2. Typed'
  BY <1>1 DEF JoinServer, Typed, NoTokens, fileVars, requestVars, boundVars
<1>3. SlotsAreBusyThreads'
  BY SameSlots DEF JoinServer
<1>4. Phases'
  BY <1>1 DEF Phases, JoinServer, Quiet, Joined, requestVars
<1>5. \A c \in Clients : clients'[c] \notin revoked
  BY Constants DEF JoinServer, NoTokens, Typed
<1>6. \A t \in Threads : request[t].pc = "idle"
  BY DEF JoinServer, Joined, Waiting
<1>7. Secrets'
  BY <1>1, <1>5, <1>6 DEF Secrets, Proper, Known, Live, JoinServer, fileVars, requestVars
<1> QED
  BY <1>2, <1>3, <1>4, <1>7

LEMMA GiveUpKeepsInv == HostInv /\ GiveUp => HostInv'
<1> SUFFICES ASSUME HostInv, GiveUp PROVE HostInv'
  OBVIOUS
<1> USE DEF HostInv
<1>1. /\ ui' \in [pc : Steps, configuration : Configurations, client : Clients \cup {NoClient}]
      /\ ui'.pc = "idle"
  BY ReturnType DEF GiveUp
<1>2. Typed'
  BY <1>1 DEF GiveUp, Typed, fileVars, serverVars, requestVars, boundVars
<1>3. SlotsAreBusyThreads'
  BY SameSlots DEF GiveUp
<1>4. Phases'
  BY <1>1 DEF Phases, GiveUp, Quiet, Joined, serverVars, requestVars
<1>5. Secrets'
  BY <1>1 DEF Secrets, Proper, Known, Live, GiveUp, fileVars, serverVars, requestVars
<1> QED
  BY <1>2, <1>3, <1>4, <1>5

LEMMA LoadConfigurationKeepsInv == HostInv /\ LoadConfiguration => HostInv'
<1> SUFFICES ASSUME HostInv, LoadConfiguration PROVE HostInv'
  OBVIOUS
<1> USE DEF HostInv
<1>1. PICK conf \in Ensured(configuration) :
        /\ drawn' = drawn \cup TokensOf(conf)
        /\ ui' = At(IF conf = configuration THEN "bind" ELSE "save", conf, ui.client)
  BY DEF LoadConfiguration
<1>2. conf \in Configurations /\ Proper(conf) /\ Live(conf) /\ conf.legacy_bearer_token = NoToken
  BY EnsuredIsProper DEF LoadConfiguration, Secrets
<1>3. ui'.pc \in {"bind", "save"} /\ ui'.configuration = conf
      /\ (ui'.pc = "bind" => conf = configuration)
  BY <1>1 DEF At
<1>4. /\ \A c \in Clients : conf.client_credentials[c] \in Tokens \cup {NoToken}
      /\ drawn \subseteq drawn' /\ drawn' \subseteq Tokens
      /\ \A c \in Clients : conf.client_credentials[c] \in drawn' \cup {NoToken}
  BY <1>1, <1>2 DEF TokensOf, Configurations, Typed
<1>5. Typed'
  <2>1. ui' \in [pc : Steps, configuration : Configurations, client : Clients \cup {NoClient}]
    BY <1>1, <1>2, UiType DEF Typed, Steps
  <2> QED
    BY <1>4, <2>1 DEF LoadConfiguration, Typed, serverVars, requestVars, boundVars
<1>6. SlotsAreBusyThreads'
  BY SameSlots DEF LoadConfiguration
<1>7. Phases'
  BY <1>3 DEF Phases, LoadConfiguration, Quiet, Joined, serverVars, requestVars
<1>8. Secrets'
  BY <1>2, <1>3, <1>4 DEF Secrets, Proper, Known, Live, LoadConfiguration, serverVars, requestVars
<1> QED
  BY <1>5, <1>6, <1>7, <1>8

LEMMA SaveCredentialsKeepsInv == HostInv /\ SaveCredentials => HostInv'
<1> SUFFICES ASSUME HostInv, SaveCredentials PROVE HostInv'
  OBVIOUS
<1> USE DEF HostInv
<1>1. /\ ui' \in [pc : Steps, configuration : Configurations, client : Clients \cup {NoClient}]
      /\ ui'.pc = "bind" /\ ui'.configuration = ui.configuration
  BY GotoType DEF SaveCredentials, Steps
<1>2. Typed'
  BY <1>1 DEF SaveCredentials, Typed, serverVars, requestVars, boundVars
<1>3. SlotsAreBusyThreads'
  BY SameSlots DEF SaveCredentials
<1>4. Phases'
  BY <1>1 DEF Phases, SaveCredentials, Quiet, Joined, serverVars, requestVars
<1>5. Secrets'
  BY <1>1 DEF Secrets, Proper, Known, Live, SaveCredentials, serverVars, requestVars
<1> QED
  BY <1>2, <1>3, <1>4, <1>5

LEMMA BindKeepsInv == HostInv /\ Bind => HostInv'
<1> SUFFICES ASSUME HostInv, Bind PROVE HostInv'
  OBVIOUS
<1> USE DEF HostInv
<1>1. /\ ui' \in [pc : Steps, configuration : Configurations, client : Clients \cup {NoClient}]
      /\ ui'.pc = "starting" /\ ui'.configuration = ui.configuration
      /\ configuration = ui.configuration /\ Quiet
  BY GotoType DEF Bind, Steps, Phases
<1>2. /\ clients' \in [Clients -> Tokens \cup {NoToken}]
      /\ \A c \in Clients :
           clients'[c] = IF c \in profiles THEN configuration.client_credentials[c] ELSE NoToken
  BY <1>1 DEF Bind, Typed, Configurations
<1>3. Typed'
  BY <1>1, <1>2 DEF Bind, Typed, fileVars, boundVars
<1>4. SlotsAreBusyThreads'
  <2>1. {t \in Threads : request'[t] # Waiting} = {}
    BY <1>1 DEF Bind, Quiet, Joined
  <2> QED
    BY <2>1, FS_EmptySet DEF Bind, SlotsAreBusyThreads
<1>5. Phases'
  BY <1>1, <1>2 DEF Phases, Quiet, Joined, Bind, TableIsSaved, fileVars
<1>6. \A t \in Threads : request'[t].pc = "idle"
  BY <1>1 DEF Bind, Quiet, Joined, Waiting
<1>7. \A c \in Clients : clients'[c] \notin revoked
  BY <1>2, Constants DEF Secrets, Live, Typed
<1>8. Secrets'
  BY <1>1, <1>6, <1>7 DEF Secrets, Proper, Known, Live, Bind, fileVars
<1> QED
  BY <1>3, <1>4, <1>5, <1>8

LEMMA ListenKeepsInv == HostInv /\ Listen => HostInv'
<1> SUFFICES ASSUME HostInv, Listen PROVE HostInv'
  OBVIOUS
<1> USE DEF HostInv
<1>1. Typed'
  BY DEF Listen, Typed, fileVars, requestVars, boundVars
<1>2. SlotsAreBusyThreads'
  BY SameSlots DEF Listen
<1>3. Phases'
  BY DEF Phases, Quiet, Joined, Listen, TableIsSaved, fileVars
<1>4. Secrets'
  BY DEF Secrets, Proper, Known, Live, Replaced, Migrated, Listen, fileVars, requestVars
<1> QED
  BY <1>1, <1>2, <1>3, <1>4

LEMMA ListenFailsKeepsInv == HostInv /\ ListenFails => HostInv'
<1> SUFFICES ASSUME HostInv, ListenFails PROVE HostInv'
  OBVIOUS
<1> USE DEF HostInv
<1>1. Typed'
  BY DEF ListenFails, Typed, fileVars, requestVars, boundVars
<1>2. SlotsAreBusyThreads'
  BY SameSlots DEF ListenFails
<1>3. Phases'
  BY DEF Phases, Quiet, Joined, ListenFails, TableIsSaved, fileVars
<1>4. Secrets'
  BY DEF Secrets, Proper, Known, Live, Replaced, Migrated, ListenFails, fileVars, requestVars
<1> QED
  BY <1>1, <1>2, <1>3, <1>4

LEMMA StartedKeepsInv == HostInv /\ Started => HostInv'
<1> SUFFICES ASSUME HostInv, Started PROVE HostInv'
  OBVIOUS
<1> USE DEF HostInv
<1>1. /\ ui' \in [pc : Steps, configuration : Configurations, client : Clients \cup {NoClient}]
      /\ ui'.pc = "idle"
  BY ReturnType DEF Started
<1>2. Typed'
  BY <1>1 DEF Started, Typed, fileVars, requestVars, boundVars
<1>3. SlotsAreBusyThreads'
  BY SameSlots DEF Started
<1>4. Phases'
  BY <1>1 DEF Phases, Started, TableIsSaved, fileVars
<1>5. Secrets'
  BY <1>1 DEF Secrets, Proper, Known, Live, Started, fileVars, requestVars
<1> QED
  BY <1>2, <1>3, <1>4, <1>5

LEMMA StartupFailsKeepsInv == HostInv /\ StartupFails => HostInv'
<1> SUFFICES ASSUME HostInv, StartupFails PROVE HostInv'
  OBVIOUS
<1> USE DEF HostInv
<1>1. /\ ui' \in [pc : Steps, configuration : Configurations, client : Clients \cup {NoClient}]
      /\ ui'.pc = "startup_failed"
  BY GotoType DEF StartupFails, Steps
<1>2. Typed'
  BY <1>1 DEF StartupFails, Typed, fileVars, serverVars, requestVars, boundVars
<1>3. SlotsAreBusyThreads'
  BY SameSlots DEF StartupFails
<1>4. Phases'
  BY <1>1 DEF Phases, StartupFails, TableIsSaved, fileVars, serverVars
<1>5. Secrets'
  BY <1>1 DEF Secrets, Proper, Known, Live, StartupFails, fileVars, serverVars, requestVars
<1> QED
  BY <1>2, <1>3, <1>4, <1>5

LEMMA RegenerateKeepsInv ==
  ASSUME HostInv, NEW c \in Clients, Regenerate(c)
  PROVE  HostInv'
<1> USE DEF HostInv
<1>1. PICK conf \in Ensured(configuration) : \E fresh \in Tokens \ (drawn \cup TokensOf(conf)) :
        LET rotated == [conf EXCEPT !.client_credentials[c] = fresh]
        IN /\ drawn' = drawn \cup TokensOf(conf) \cup {fresh}
           /\ ui' = At("save_rotated", rotated, c)
  BY DEF Regenerate
<1>2. PICK fresh \in Tokens \ (drawn \cup TokensOf(conf)) :
        LET rotated == [conf EXCEPT !.client_credentials[c] = fresh]
        IN /\ drawn' = drawn \cup TokensOf(conf) \cup {fresh}
           /\ ui' = At("save_rotated", rotated, c)
  BY <1>1
<1> DEFINE rotated == [conf EXCEPT !.client_credentials[c] = fresh]
<1>3. /\ conf \in Configurations /\ Proper(conf) /\ Live(conf) /\ conf.legacy_bearer_token = NoToken
      /\ \A d \in Clients :
           \/ conf.client_credentials[d] = Migrated(configuration).client_credentials[d]
           \/ /\ Migrated(configuration).client_credentials[d] = NoToken
              /\ conf.client_credentials[d] \in Tokens \ drawn
  BY EnsuredIsProper DEF Regenerate, Secrets
<1>4. /\ rotated \in Configurations /\ rotated.legacy_bearer_token = NoToken
      /\ \A d \in Clients :
           rotated.client_credentials[d] = IF d = c THEN fresh ELSE conf.client_credentials[d]
  BY <1>3 DEF Configurations
<1>5. ui'.pc = "save_rotated" /\ ui'.configuration = rotated /\ ui'.client = c
  BY <1>2 DEF At
<1>6. /\ drawn \subseteq drawn' /\ drawn' \subseteq Tokens /\ fresh \in drawn' /\ fresh \notin drawn
      /\ \A d \in Clients : conf.client_credentials[d] \in drawn' \cup {NoToken}
      /\ \A d \in Clients : conf.client_credentials[d] # fresh
  BY <1>2, <1>3, Constants DEF TokensOf, Configurations, Typed
<1>7. Proper(rotated)' /\ Known(rotated)' /\ Live(rotated)'
  <2>1. revoked' = revoked /\ fresh \notin revoked /\ NoToken \notin revoked
    BY <1>6, Constants DEF Regenerate, Typed
  <2> HIDE DEF rotated
  <2> QED
    BY <1>3, <1>4, <1>6, <2>1 DEF Proper, Known, Live
<1>8. LET old == Migrated(configuration).client_credentials[c]
      IN /\ old \in drawn \cup {NoToken}
         /\ old # NoToken => \A d \in Clients : rotated.client_credentials[d] # old
  <2>1. Proper(Migrated(configuration)) /\ Known(Migrated(configuration))
    BY MigratedIsProper DEF Regenerate, Secrets
  <2> HIDE DEF rotated
  <2> QED
    BY <1>3, <1>4, <1>6, <2>1 DEF Proper, Known
<1> HIDE DEF rotated
<1>9. Typed'
  <2>1. ui' \in [pc : Steps, configuration : Configurations, client : Clients \cup {NoClient}]
    BY <1>2, <1>4, UiType DEF rotated, Steps
  <2>2. operations' \in 0..MaxOperations
    BY Constants DEF Regenerate, Typed
  <2> QED
    BY <1>6, <2>1, <2>2 DEF Regenerate, Typed, serverVars, requestVars
<1>10. SlotsAreBusyThreads'
  BY SameSlots DEF Regenerate
<1>11. Phases'
  BY <1>5 DEF Phases, Regenerate, Quiet, Joined, TableIsSaved, serverVars, requestVars
<1>12. Replaced(c)' = Migrated(configuration).client_credentials[c]
  BY DEF Regenerate, Replaced, Migrated
<1>13. Secrets'
  <2>1. Proper(configuration)' /\ Known(configuration)' /\ Live(configuration)'
    BY <1>6 DEF Secrets, Proper, Known, Live, Regenerate
  <2> QED
    BY <1>4, <1>5, <1>6, <1>7, <1>8, <1>12, <2>1 DEF Secrets, Regenerate, serverVars, requestVars
<1> QED
  BY <1>9, <1>10, <1>11, <1>13

LEMMA SaveRotatedKeepsInv == HostInv /\ SaveRotated => HostInv'
<1> SUFFICES ASSUME HostInv, SaveRotated PROVE HostInv'
  OBVIOUS
<1> USE DEF HostInv
<1>1. SlotsAreBusyThreads'
  BY SameSlots DEF SaveRotated
<1>2. CASE /\ configuration' = ui.configuration
           /\ revoked' = revoked \cup ({Replaced(ui.client)} \ {NoToken})
           /\ IF RestartNeeded THEN Goto("stop") ELSE Return
  <2>1. /\ ui' \in [pc : Steps, configuration : Configurations, client : Clients \cup {NoClient}]
        /\ ui'.pc = IF running THEN "stop" ELSE "idle"
    BY <1>2, GotoType, ReturnType DEF RestartNeeded, Steps
  <2>2. revoked' \subseteq drawn
    BY <1>2 DEF SaveRotated, Secrets, Typed
  <2>3. Typed'
    BY <1>2, <2>1, <2>2 DEF SaveRotated, Typed, serverVars, requestVars, boundVars
  <2>4. Phases'
    BY <2>1 DEF Phases, SaveRotated, Quiet, Joined, serverVars, requestVars
  <2>5. Proper(configuration)' /\ Known(configuration)'
    BY <1>2 DEF SaveRotated, Secrets, Proper, Known
  <2>6. Live(configuration)'
    BY <1>2, Constants DEF SaveRotated, Secrets, Live, Typed
  <2>7. ~running => /\ \A c \in Clients : clients[c] = NoToken
                    /\ \A t \in Threads : request[t].pc = "idle"
    BY DEF SaveRotated, Phases, Quiet, Joined, Waiting, NoTokens
  <2>8. NoToken \notin revoked'
    BY <2>2, Constants DEF Typed
  <2>9. Secrets'
    BY <2>1, <2>5, <2>6, <2>7, <2>8 DEF Secrets, SaveRotated, serverVars, requestVars
  <2> QED
    BY <1>1, <2>3, <2>4, <2>9
<1>3. CASE UNCHANGED <<configuration, revoked>> /\ Return
  <2>1. /\ ui' \in [pc : Steps, configuration : Configurations, client : Clients \cup {NoClient}]
        /\ ui'.pc = "idle"
    BY <1>3, ReturnType
  <2>2. Typed'
    BY <1>3, <2>1 DEF SaveRotated, Typed, serverVars, requestVars, boundVars
  <2>3. Phases'
    BY <1>3, <2>1 DEF Phases, SaveRotated, Quiet, Joined, TableIsSaved, serverVars, requestVars
  <2>4. Secrets'
    BY <1>3, <2>1 DEF Secrets, Proper, Known, Live, SaveRotated, serverVars, requestVars
  <2> QED
    BY <1>1, <2>2, <2>3, <2>4
<1> QED
  BY <1>2, <1>3 DEF SaveRotated

-----------------------------------------------------------------------------
(* The pool.                                                               *)

LEMMA ReceiveKeepsInv ==
  ASSUME HostInv, NEW t \in Threads, NEW token \in drawn, Receive(t, token)
  PROVE  HostInv'
<1> USE DEF HostInv
<1> DEFINE new == [request[t] EXCEPT !.pc = "received", !.token = token]
<1>1. request' = [request EXCEPT ![t] = new]
  BY DEF Receive
<1>2. new \in Request /\ new.pc = "received" /\ new.token = token
  BY DEF Typed, Requests, Request
<1> HIDE DEF new
<1>3. request' \in Requests
  BY <1>1, <1>2 DEF Typed, Requests
<1>4. \A u \in Threads :
        /\ u # t => request'[u] = request[u]
        /\ request'[t].pc = "received" /\ request'[t].token = token
  BY <1>1, <1>2 DEF Typed, Requests
<1>5. Typed'
  BY <1>3 DEF Receive, Typed, fileVars, serverVars, boundVars
<1>6. SlotsAreBusyThreads'
  <2>1. {u \in Threads : request'[u] # Waiting} = Busy \cup {t} /\ t \notin Busy
    <3>1. request'[t] # Waiting
      BY <1>4 DEF Waiting
    <3> QED
      BY <1>4, <3>1 DEF Busy, Receive
  <2>2. IsFiniteSet(Busy)
    BY Constants, FS_Subset DEF Busy
  <2> QED
    BY <2>1, <2>2, FS_AddElement DEF SlotsAreBusyThreads, Busy, Receive
<1>7. ~Quiet
  BY DEF Quiet, Joined, Receive
<1>8. Phases'
  BY <1>7 DEF Phases, Receive, TableIsSaved, fileVars, serverVars
<1>9. Secrets'
  BY <1>4 DEF Secrets, Proper, Known, Live, Replaced, Migrated, Receive, fileVars, serverVars
<1> QED
  BY <1>5, <1>6, <1>8, <1>9

LEMMA AuthenticateKeepsInv ==
  ASSUME HostInv, NEW t \in Threads, Authenticate(t)
  PROVE  HostInv'
<1> USE DEF HostInv
<1>1. PICK c \in Clients :
        /\ clients[c] = request[t].token
        /\ request' = [request EXCEPT ![t].pc = "authorized", ![t].client = c]
  BY DEF Authenticate
<1> DEFINE new == [request[t] EXCEPT !.pc = "authorized", !.client = c]
<1>2. request' = [request EXCEPT ![t] = new]
  BY <1>1 DEF Typed, Requests
<1>3. new \in Request /\ new.pc = "authorized" /\ new.token = request[t].token
  BY DEF Typed, Requests, Request
<1> HIDE DEF new
<1>4. request' \in Requests
  BY <1>2, <1>3 DEF Typed, Requests
<1>5. \A u \in Threads :
        /\ u # t => request'[u] = request[u]
        /\ request'[t].pc = "authorized" /\ request'[t].token = request[t].token
  BY <1>2, <1>3 DEF Typed, Requests
<1>6. Typed'
  BY <1>4 DEF Authenticate, Typed, fileVars, serverVars, boundVars
<1>7. SlotsAreBusyThreads'
  <2>1. {u \in Threads : request'[u] # Waiting} = {u \in Threads : request[u] # Waiting}
    <3>1. request'[t].pc = "authorized" /\ request[t].pc = "received"
      BY <1>5 DEF Authenticate
    <3>2. request'[t] # Waiting /\ request[t] # Waiting
      BY <3>1 DEF Waiting
    <3> QED
      BY <1>5, <3>2
  <2> QED
    BY <2>1 DEF SlotsAreBusyThreads, Authenticate
<1>8. ~Quiet
  BY DEF Quiet, Joined, Authenticate, Waiting
<1>9. Phases'
  BY <1>8 DEF Phases, Authenticate, TableIsSaved, fileVars, serverVars
<1>10. ui.pc \notin {"stop", "join"} => request[t].token \notin revoked
  BY <1>1 DEF Secrets
<1>11. Secrets'
  <2> USE DEF Authenticate, fileVars, serverVars
  <2>1. \A u \in Threads :
          /\ request'[u].pc = "received" => request'[u].token \in drawn
          /\ ui.pc \notin {"stop", "join"} /\ request'[u].pc = "authorized" => request'[u].token \notin revoked
    BY <1>5, <1>10 DEF Secrets
  <2>2. Proper(configuration)' /\ Known(configuration)' /\ Live(configuration)'
    BY DEF Secrets, Proper, Known, Live
  <2> QED
    BY <2>1, <2>2 DEF Secrets, Proper, Known, Live, Replaced, Migrated
<1> QED
  BY <1>6, <1>7, <1>9, <1>11

LEMMA RespondKeepsInv ==
  ASSUME HostInv, NEW t \in Threads, Respond(t)
  PROVE  HostInv'
<1> USE DEF HostInv
<1>1. /\ \A u \in Threads : u # t => request'[u] = request[u]
      /\ request'[t] = Waiting /\ request' \in Requests
  BY DEF Respond, Typed, Requests, Request, Waiting
<1>2. /\ {u \in Threads : request'[u] # Waiting} = Busy \ {t} /\ t \in Busy
  BY <1>1 DEF Busy, Respond
<1>3. IsFiniteSet(Busy)
  BY Constants, FS_Subset DEF Busy
<1>4. active_requests' \in Nat /\ SlotsAreBusyThreads'
  <2>1. IsFiniteSet(Busy \ {t}) /\ Cardinality(Busy \ {t}) = Cardinality(Busy) - 1
    BY <1>2, <1>3, FS_RemoveElement
  <2>2. Cardinality(Busy \ {t}) \in Nat
    BY <2>1, FS_CardinalityType
  <2>3. active_requests' = Cardinality(Busy) - 1
    BY DEF SlotsAreBusyThreads, Busy, Respond
  <2> QED
    BY <1>2, <2>1, <2>2, <2>3 DEF SlotsAreBusyThreads
<1>5. Typed'
  BY <1>1, <1>4 DEF Respond, Typed, fileVars, serverVars, boundVars
<1>6. ~Quiet
  BY DEF Quiet, Joined, Respond
<1>7. Phases'
  BY <1>6 DEF Phases, Respond, TableIsSaved, fileVars, serverVars
<1>8. Secrets'
  BY <1>1 DEF Secrets, Proper, Known, Live, Replaced, Migrated, Waiting, Respond, fileVars, serverVars
<1> QED
  BY <1>4, <1>5, <1>7, <1>8

LEMMA CrashKeepsInv == HostInv /\ Crash => HostInv'
<1> SUFFICES ASSUME HostInv, Crash PROVE HostInv'
  OBVIOUS
<1> USE DEF HostInv
<1>1. ui'.pc = "down" /\ ui' = At("down", NoConfiguration, NoClient)
  BY DEF Crash, At
<1>2. Typed'
  <2>1. ui' \in [pc : Steps, configuration : Configurations, client : Clients \cup {NoClient}]
    BY <1>1, NoConfigurationType, UiType DEF Steps
  <2>2. clients' \in [Clients -> Tokens \cup {NoToken}] /\ request' \in Requests
    BY WaitingType DEF Crash, NoTokens
  <2>3. crashes' \in 0..MaxCrashes /\ active_requests' \in Nat
    BY Constants DEF Crash, Typed
  <2> QED
    BY <2>1, <2>2, <2>3 DEF Crash, Typed, fileVars
<1>3. SlotsAreBusyThreads'
  BY IdleSlots DEF Crash
<1>4. Phases'
  BY <1>1 DEF Crash, Phases
<1>5. Secrets'
  BY <1>1, Constants DEF Secrets, Proper, Known, Live, Crash, Waiting, NoTokens, Typed, fileVars
<1> QED
  BY <1>2, <1>3, <1>4, <1>5

-----------------------------------------------------------------------------
LEMMA StepKeepsInv == HostInv /\ [Next]_vars => HostInv'
<1> SUFFICES ASSUME HostInv, [Next]_vars PROVE HostInv'
  OBVIOUS
<1>1. ASSUME NEW ids \in SUBSET Clients, NEW enabled \in BOOLEAN, Boot(ids, enabled) PROVE HostInv'
  BY <1>1, BootKeepsInv
<1>2. ASSUME NEW c \in Clients, Regenerate(c) PROVE HostInv'
  BY <1>2, RegenerateKeepsInv
<1>3. CASE WindowStep
  BY <1>3, StopServerKeepsInv, JoinServerKeepsInv, LoadConfigurationKeepsInv, GiveUpKeepsInv,
     SaveCredentialsKeepsInv, BindKeepsInv, StartedKeepsInv, StartupFailsKeepsInv,
     SaveRotatedKeepsInv DEF WindowStep
<1>4. CASE ServerStep
  BY <1>4, ListenKeepsInv, ListenFailsKeepsInv DEF ServerStep
<1>5. ASSUME NEW t \in Threads, HandlerStep(t) \/ \E token \in drawn : Receive(t, token) PROVE HostInv'
  BY <1>5, AuthenticateKeepsInv, RespondKeepsInv, ReceiveKeepsInv DEF HandlerStep
<1>6. CASE Crash
  BY <1>6, CrashKeepsInv
<1>7. CASE UNCHANGED vars
  <2> USE <1>7 DEF vars, HostInv
  <2>1. Typed'
    BY DEF Typed, fileVars, serverVars, requestVars, boundVars
  <2>2. SlotsAreBusyThreads'
    BY SameSlots
  <2>3. Phases'
    BY DEF Phases, Quiet, Joined, TableIsSaved, fileVars, serverVars, requestVars
  <2>4. Secrets'
    BY DEF Secrets, Proper, Known, Live, Replaced, Migrated, fileVars, serverVars, requestVars
  <2> QED
    BY <2>1, <2>2, <2>3, <2>4
<1> QED
  BY <1>1, <1>2, <1>3, <1>4, <1>5, <1>6, <1>7 DEF Next

LEMMA InvHolds == Spec => []HostInv
  BY InitHolds, StepKeepsInv, PTL DEF Spec

LEMMA InvImpliesProperties ==
  HostInv => TypeOK /\ SlotsAreBusyThreads /\ ServedIsSaved /\ RotationIsImmediate
<1> SUFFICES ASSUME HostInv PROVE TypeOK /\ ServedIsSaved /\ RotationIsImmediate
  BY DEF HostInv
<1> USE DEF HostInv
<1>1. active_requests \in 0..MaximumConnections
  <2>1. Cardinality(Busy) <= Cardinality(Threads) /\ Cardinality(Busy) \in Nat /\ Cardinality(Threads) \in Nat
    BY Constants, FS_Subset, FS_CardinalityType DEF Busy
  <2> QED
    BY <2>1 DEF SlotsAreBusyThreads, Busy, MaximumConnections
<1>2. TypeOK
  BY <1>1 DEF TypeOK, Typed, Requests, Request
<1>3. ServedIsSaved
  BY DEF ServedIsSaved, Phases, TableIsSaved
<1>4. RotationIsImmediate
  BY DEF RotationIsImmediate, Secrets
<1> QED
  BY <1>2, <1>3, <1>4

(* The host has its type; in particular it never has more requests under   *)
(* way than slots (SimpleWebHttpHost::dispatch).                           *)
THEOREM HostTypeCorrect == Spec => []TypeOK
  BY InvHolds, InvImpliesProperties, PTL

(* The slots are the busy threads, through restarts, crashes and           *)
(* exceptions: none leaks and the unsigned counter never wraps             *)
(* (SimpleWebHttpHost::start, dispatch).                                   *)
THEOREM SlotsAreBusyThreadsHolds == Spec => []SlotsAreBusyThreads
  BY InvHolds, InvImpliesProperties, PTL

(* What is accepted is on disk, wherever the process dies                  *)
(* (LocalMcpHttpService::start, DesktopUiState::regenerate_mcp_bearer_token).*)
THEOREM ServedIsSavedHolds == Spec => []ServedIsSaved
  BY InvHolds, InvImpliesProperties, PTL

(* After a rotation no request runs, or can run, on the token it replaced  *)
(* (DesktopUiState::regenerate_mcp_bearer_token, README.md:81).            *)
THEOREM RotationIsImmediateHolds == Spec => []RotationIsImmediate
  BY InvHolds, InvImpliesProperties, PTL

-----------------------------------------------------------------------------
(* No token is lost.                                                       *)

(* What is about to be saved keeps every credential but the rotated one,   *)
(* and the token of an old installation goes to the only profile.          *)
Kept ==
  ui.pc \in {"save", "save_rotated"} =>
    /\ \A c \in Clients :
         configuration.client_credentials[c] # NoToken =>
           \/ ui.configuration.client_credentials[c] = configuration.client_credentials[c]
           \/ ui.client = c
    /\ configuration.legacy_bearer_token # NoToken =>
         \E c \in Clients :
           /\ profiles = {c}
           /\ \/ ui.configuration.client_credentials[c] = configuration.legacy_bearer_token
              \/ ui.client = c

LEMMA EnsuredKeeps ==
  ASSUME HostInv, Ensurable(configuration), NEW conf \in Ensured(configuration)
  PROVE  /\ \A c \in Clients :
              configuration.client_credentials[c] # NoToken =>
                conf.client_credentials[c] = configuration.client_credentials[c]
         /\ configuration.legacy_bearer_token # NoToken =>
              \E c \in Clients :
                profiles = {c} /\ conf.client_credentials[c] = configuration.legacy_bearer_token
<1>1. \A c \in Clients :
        Migrated(configuration).client_credentials[c] # NoToken =>
          conf.client_credentials[c] = Migrated(configuration).client_credentials[c]
  BY EnsuredIsProper DEF HostInv, Secrets
<1>2. CASE configuration.legacy_bearer_token = NoToken
  BY <1>1, <1>2 DEF Migrated
<1>3. CASE configuration.legacy_bearer_token # NoToken
  <2>1. PICK x \in Clients : profiles = {x}
    BY <1>3, Constants, FS_Singleton, FS_Subset DEF Ensurable, HostInv, Typed
  <2>2. Migrated(configuration).client_credentials[x] = configuration.legacy_bearer_token
    BY <1>3, <2>1 DEF Migrated, HostInv, Typed, Configurations
  <2>3. \A c \in Clients : configuration.client_credentials[c] = NoToken
    BY <1>3 DEF HostInv, Secrets, Proper, NoTokens
  <2> QED
    BY <1>1, <1>3, <2>1, <2>2, <2>3
<1> QED
  BY <1>2, <1>3

LEMMA KeptIsKept == HostInv /\ Kept /\ [Next]_vars => Kept'
<1> SUFFICES ASSUME HostInv, Kept, [Next]_vars, ui'.pc \in {"save", "save_rotated"} PROVE Kept'
  BY DEF Kept
<1>1. CASE LoadConfiguration
  <2>1. PICK conf \in Ensured(configuration) :
          ui' = At(IF conf = configuration THEN "bind" ELSE "save", conf, ui.client)
    BY <1>1 DEF LoadConfiguration
  <2>2. ui'.configuration = conf
    BY <2>1 DEF At
  <2> QED
    BY <1>1, <2>2, EnsuredKeeps DEF Kept, LoadConfiguration
<1>2. ASSUME NEW c \in Clients, Regenerate(c) PROVE Kept'
  <2>1. PICK conf \in Ensured(configuration) : \E fresh \in Tokens :
          ui' = At("save_rotated", [conf EXCEPT !.client_credentials[c] = fresh], c)
    BY <1>2 DEF Regenerate
  <2>2. conf \in Configurations
    BY <1>2, EnsuredIsProper DEF Regenerate, HostInv, Secrets
  <2>3. /\ \A d \in Clients :
             d # c => ui'.configuration.client_credentials[d] = conf.client_credentials[d]
        /\ ui'.client = c
    BY <2>1, <2>2 DEF At, Configurations
  <2> QED
    BY <1>2, <2>3, EnsuredKeeps DEF Kept, Regenerate
<1>3. CASE UNCHANGED <<configuration, profiles, ui>>
  BY <1>3 DEF Kept
<1>4. ASSUME NEW ids \in SUBSET Clients, NEW enabled \in BOOLEAN, Boot(ids, enabled) PROVE FALSE
  BY <1>4 DEF Boot, At
<1>5. CASE WindowStep /\ ~LoadConfiguration
  <2>1. ~Return
    BY DEF Return, At
  <2>2. \A pc : Goto(pc) => ui'.pc = pc
    BY DEF Goto, HostInv, Typed
  <2> QED
    BY <1>5, <2>1, <2>2
       DEF WindowStep, StopServer, JoinServer, GiveUp, SaveCredentials, Bind, Started, StartupFails, SaveRotated
<1>6. CASE Crash
  BY <1>6 DEF Crash, At
<1>7. ASSUME NEW t \in Threads, HandlerStep(t) \/ \E token \in drawn : Receive(t, token)
      PROVE  UNCHANGED <<configuration, profiles, ui>>
  BY <1>7 DEF HandlerStep, Authenticate, Respond, Receive, fileVars
<1>8. ServerStep \/ UNCHANGED vars => UNCHANGED <<configuration, profiles, ui>>
  BY DEF ServerStep, Listen, ListenFails, vars, fileVars
<1> QED
  BY <1>1, <1>2, <1>3, <1>4, <1>5, <1>6, <1>7, <1>8 DEF Next

(* No start, migration or crash costs a client its token, and the token of *)
(* an old installation goes to a sole profile or stays where it is         *)
(* (ensure_client_credentials, LocalMcpHttpService::start,                 *)
(* DesktopUiState::regenerate_mcp_bearer_token).                           *)
THEOREM TokensAreKeptHolds == Spec => TokensAreKept
<1> DEFINE Step ==
      /\ \A c \in Clients :
           configuration.client_credentials[c] \notin
             {NoToken, configuration'.client_credentials[c]} => ui.client = c
      /\ LET legacy == configuration.legacy_bearer_token
         IN legacy # NoToken /\ configuration'.legacy_bearer_token # legacy =>
              \E c \in Clients :
                /\ profiles = {c}
                /\ configuration'.client_credentials[c] = legacy \/ ui.client = c
<1>1. Init => Kept
  BY DEF Init, At, Kept
<1>2. HostInv /\ Kept /\ [Next]_vars => [Step]_vars
  <2> SUFFICES ASSUME HostInv, Kept, Next PROVE Step
    OBVIOUS
  <2>1. CASE /\ configuration'.client_credentials = configuration.client_credentials
             /\ configuration'.legacy_bearer_token = configuration.legacy_bearer_token
    BY <2>1
  <2>2. CASE configuration' = ui.configuration /\ ui.pc \in {"save", "save_rotated"}
    BY <2>2 DEF Kept
  <2>3. ASSUME NEW ids \in SUBSET Clients, NEW enabled \in BOOLEAN, Boot(ids, enabled)
        PROVE  /\ configuration'.client_credentials = configuration.client_credentials
               /\ configuration'.legacy_bearer_token = configuration.legacy_bearer_token
    BY <2>3 DEF Boot, HostInv, Typed, Configurations
  <2>4. CASE WindowStep
    BY <2>1, <2>2, <2>4 DEF WindowStep, StopServer, JoinServer, GiveUp, LoadConfiguration,
       SaveCredentials, Bind, Started, StartupFails, SaveRotated, fileVars
  <2>5. ASSUME NEW t \in Threads, HandlerStep(t) \/ \E token \in drawn : Receive(t, token)
        PROVE  configuration' = configuration
    BY <2>5 DEF HandlerStep, Authenticate, Respond, Receive, fileVars
  <2>6. ASSUME NEW c \in Clients, Regenerate(c) PROVE configuration' = configuration
    BY <2>6 DEF Regenerate
  <2>7. ServerStep \/ Crash => configuration' = configuration
    BY DEF ServerStep, Listen, ListenFails, Crash, fileVars
  <2> HIDE DEF Step
  <2> QED
    BY <2>1, <2>3, <2>4, <2>5, <2>6, <2>7 DEF Next
<1> QED
  BY <1>1, <1>2, InvHolds, KeptIsKept, PTL DEF Spec, TokensAreKept

-----------------------------------------------------------------------------
(* The host implements ServedClients.                                      *)

Working == [t \in Threads |-> IF request[t].pc = "authorized" THEN request[t].client ELSE NoToken]

LEMMA InitKeepsPromise == Init => Promise!ServedInit
  BY DEF Init, Waiting, NoTokens, Promise!ServedInit, Promise!Empty

LEMMA StepKeepsPromise == HostInv /\ [Next]_vars => [Promise!ServedNext]_(Promise!servedVars)
<1> SUFFICES ASSUME HostInv, [Next]_vars PROVE [Promise!ServedNext]_<<clients, Working>>
  BY DEF Promise!servedVars, Working
<1>1. CASE UNCHANGED <<clients, request>>
  BY <1>1 DEF Working
<1>2. ASSUME clients' \in [Clients -> Tokens \cup {NoToken}], request' = request, Joined
      PROVE  Promise!ServedNext
  <2>1. \A t \in Threads : Working[t] = NoToken
    BY <1>2 DEF Working, Joined, Waiting
  <2>2. Working' = Working
    BY <1>2 DEF Working
  <2> QED
    BY <1>2, <2>1, <2>2 DEF Promise!ServedNext, Promise!Replace, Working
<1>3. CASE JoinServer \/ Bind
  <2>1. HostInv' 
    BY <1>3, JoinServerKeepsInv, BindKeepsInv
  <2>2. Joined /\ request' = request
    BY <1>3 DEF JoinServer, Bind, HostInv, Phases, Quiet, requestVars
  <2> QED
    BY <1>2, <2>1, <2>2 DEF HostInv, Typed
<1>4. CASE Crash
  BY <1>4 DEF Crash, Promise!ServedNext, Promise!Perish, Promise!Empty, NoTokens, Waiting
<1>5. ASSUME NEW t \in Threads, NEW token \in drawn, Receive(t, token)
      PROVE  UNCHANGED <<clients, Working>>
  <2> DEFINE new == [request[t] EXCEPT !.pc = "received", !.token = token]
  <2>1. request' = [request EXCEPT ![t] = new] /\ new.pc = "received" /\ request[t].pc = "idle"
    BY <1>5 DEF Receive, HostInv, Typed, Requests, Request, Waiting
  <2> HIDE DEF new
  <2>2. \A u \in Threads : Working'[u] = Working[u]
    BY <2>1 DEF Working, HostInv, Typed, Requests
  <2> QED
    BY <1>5, <2>2 DEF Receive, Working, serverVars
<1>6. ASSUME NEW t \in Threads, Authenticate(t) PROVE Promise!ServedNext
  <2>1. PICK c \in Clients :
          /\ clients[c] = request[t].token
          /\ request' = [request EXCEPT ![t].pc = "authorized", ![t].client = c]
    BY <1>6 DEF Authenticate
  <2>2. Working[t] = NoToken /\ clients[c] # NoToken /\ clients' = clients
    BY <1>6, <2>1, Constants DEF Working, Authenticate, HostInv, Secrets, Typed, serverVars
  <2>3. /\ request'[t].pc = "authorized" /\ request'[t].client = c
        /\ \A u \in Threads : u # t => request'[u] = request[u]
    BY <2>1 DEF HostInv, Typed, Requests, Request
  <2>4. Working' = [Working EXCEPT ![t] = c]
    BY <2>3 DEF Working
  <2> QED
    BY <2>2, <2>4 DEF Promise!ServedNext, Promise!Admit, Working
<1>7. ASSUME NEW t \in Threads, Respond(t) PROVE Promise!ServedNext
  <2>1. /\ request'[t].pc = "idle" /\ clients' = clients
        /\ \A u \in Threads : u # t => request'[u] = request[u]
    BY <1>7 DEF Respond, HostInv, Typed, Requests, Waiting, serverVars
  <2>2. Working' = [Working EXCEPT ![t] = NoToken]
    BY <2>1 DEF Working
  <2> QED
    BY <2>1, <2>2 DEF Promise!ServedNext, Promise!Release, Working
<1>8. CASE WindowStep /\ ~JoinServer /\ ~Bind
  BY <1>1, <1>8 DEF WindowStep, StopServer, GiveUp, LoadConfiguration, SaveCredentials, Started,
     StartupFails, SaveRotated, serverVars, requestVars
<1>9. ASSUME NEW ids \in SUBSET Clients, NEW enabled \in BOOLEAN, Boot(ids, enabled)
      PROVE  UNCHANGED <<clients, request>>
  BY <1>9 DEF Boot, serverVars, requestVars
<1>10. ASSUME NEW c \in Clients, Regenerate(c) PROVE UNCHANGED <<clients, request>>
  BY <1>10 DEF Regenerate, serverVars, requestVars
<1>11. ServerStep \/ UNCHANGED vars => UNCHANGED <<clients, request>>
  BY DEF ServerStep, Listen, ListenFails, vars, serverVars, requestVars
<1> QED
  BY <1>1, <1>3, <1>4, <1>5, <1>6, <1>7, <1>8, <1>9, <1>10, <1>11 DEF Next, HandlerStep

(* A request runs under the client it was admitted as, through every       *)
(* restart and rotation: the host implements the promise that the policy   *)
(* check of a write relies on (LocalMcpHttpService::start, stop, handle).  *)
THEOREM HostKeepsPromise == Spec => KeepsPromise
  BY InitKeepsPromise, StepKeepsPromise, InvHolds, PTL DEF Spec, KeepsPromise, Promise!ServedSpec
=============================================================================
