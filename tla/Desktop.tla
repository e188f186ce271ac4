------------------------------ MODULE Desktop ------------------------------
(***************************************************************************)
(* The composition root (DesktopUiState) between the operator's files and  *)
(* the clients: RuntimeLayoutBootstrap stages the files of a first launch, *)
(* they are loaded once, the MCP host serves what was loaded, and the      *)
(* window writes two of the files back.  The operator edits the files with *)
(* any editor while the program is up or down - but not while a click of   *)
(* his own is being served - and the program may die between any two steps.*)
(* What happens inside a start of the host and inside a start of an        *)
(* authorization is in McpHost and in AccountStore; here each is a step.   *)
(***************************************************************************)
EXTENDS McpRequest, Configuration

CONSTANTS
  Templates,     \* the documents shipped with the program: file -> document
  EditedDocuments, \* what the operator may write: file -> documents
  Requests,      \* HTTP requests
  Texts,         \* texts of messages
  MaxAccounts, MaxEdits, MaxLaunches  \* bounds

ASSUME DesktopAssumption ==
  /\ {MaxAccounts, MaxEdits, MaxLaunches} \subseteq Nat
  /\ Requests \subseteq HttpRequest

VARIABLES
  files,     \* what is on disk
  ui,        \* where the window's thread is, and the file it is staging
  profiles, account_configurations,  \* as loaded, or Refused
  host,      \* the settings of the host while it listens
  exchange,  \* the last request with its answer, until something else happens
  edits, launches,
  accounts_edited  \* history: accounts.json was edited since it was loaded

memoryVars == <<profiles, account_configurations, host>>
vars == <<files, ui, memoryVars, exchange, edits, launches, accounts_edited>>

ClientProfiles == "client-profiles.json"
AccountsFile == "accounts.json"
HostFile == "mcp-host.json"
Staged == <<ClientProfiles, AccountsFile, HostFile>>  \* in this order
Files == ToSet(Staged)

Absent == [kind |-> "absent"]
Partial == [kind |-> "partial"]
Document(document) == [kind |-> "document", document |-> document]

Documents(file) ==
  CASE file = ClientProfiles -> ProfilesDocuments
    [] file = AccountsFile -> AccountsDocuments
    [] file = HostFile -> HostDocuments(Origins)

ASSUME DocumentsAssumption ==
  \A file \in Files : EditedDocuments[file] \cup {Templates[file]} \subseteq Documents(file)

Parse(file, document) ==
  CASE file = ClientProfiles -> ParseProfiles(document)
    [] file = AccountsFile -> ParseAccounts(document)
    [] file = HostFile -> ParseHost(document)

(* load: no file and half a file are refused like a file that is wrong. *)
Load(file) == IF files[file].kind = "document" THEN Parse(file, files[file].document) ELSE Refused

Off == [listening |-> FALSE]
Quiet == [tool |-> Nothing, outcome |-> "none"]
At(pc, k) == [pc |-> pc, file |-> k]
Idle == At("idle", 1)
Down == At("down", 1)

Init ==
  /\ files = [f \in Files |-> Absent]
  /\ ui = Down
  /\ profiles = Refused /\ account_configurations = Refused /\ host = Off
  /\ exchange = Quiet
  /\ edits = 0 /\ launches = 0 /\ accounts_edited = FALSE

Write(file, content) == files' = [files EXCEPT ![file] = content]

-----------------------------------------------------------------------------
(* RuntimeLayoutBootstrap::ensure, file by file. *)
Launch ==
  /\ ui = Down /\ launches < MaxLaunches
  /\ launches' = launches + 1
  /\ ui' = At("look", 1)
  /\ exchange' = Quiet
  /\ UNCHANGED <<files, memoryVars, edits, accounts_edited>>

NextFile == ui' = IF ui.file = Len(Staged) THEN At("load", 1) ELSE At("look", ui.file + 1)

Staging == UNCHANGED <<memoryVars, exchange, edits, launches, accounts_edited>>

LookForFile ==
  /\ ui.pc = "look"
  /\ IF files[Staged[ui.file]] = Absent THEN ui' = At("copy", ui.file) ELSE NextFile
  /\ UNCHANGED files /\ Staging

(* Mutant of CopyBegins: copy_options::overwrite_existing. *)
CopyOverwrites ==
  /\ ui.pc = "copy"
  /\ Write(Staged[ui.file], Partial)
  /\ ui' = At("copying", ui.file)
  /\ Staging

(* copy_options::none: a file that came in between is an error. *)
CopyBegins ==
  /\ ui.pc = "copy" /\ files[Staged[ui.file]] = Absent
  /\ Write(Staged[ui.file], Partial)
  /\ ui' = At("copying", ui.file)
  /\ Staging

CopyEnds ==
  /\ ui.pc = "copying"
  /\ Write(Staged[ui.file], Document(Templates[Staged[ui.file]]))
  /\ NextFile
  /\ Staging

(* No directory, no template, no space, or a file that came in between:    *)
(* the window opens without any configuration.                             *)
EnsureFails ==
  /\ ui.pc \in {"look", "copy", "copying"}
  /\ ui' = Idle
  /\ UNCHANGED files /\ Staging

-----------------------------------------------------------------------------
(* LocalMcpHttpService::start over the profiles that are in memory. *)
ProfileIds == IF profiles.ok THEN {profile.id : profile \in profiles.value} ELSE {}

Ensurable(conf, ids) ==
  /\ conf.legacy_bearer_token => Cardinality(ids) = 1
  /\ ToSet(conf.client_credentials) \subseteq ids

Ensured(conf, ids) ==
  [conf EXCEPT !.client_credentials = @ \o SetToSeq(ids \ ToSet(@)), !.legacy_bearer_token = FALSE]

Listening(conf, table) ==
  [listening |-> TRUE, allowed_origins |-> conf.allowed_origins, clients |-> table, configuration |-> conf]

(* Tokens, the disk or the port may fail; a file without a change to make  *)
(* is not written.                                                         *)
StartHost(table) ==
  LET loaded == Load(HostFile)
      ids == {profile.id : profile \in table}
      conf == Ensured(loaded.value, ids)
      written == IF conf = loaded.value THEN files[HostFile] ELSE Document(HostDocument(conf))
  IN \/ UNCHANGED files /\ host' = Off
     \/ /\ loaded.ok /\ table # {}
        /\ loaded.value.enabled /\ Ensurable(loaded.value, ids)
        /\ Write(HostFile, written)
        /\ host' \in {Off, Listening(conf, table)}

LoadConfiguration ==
  /\ ui.pc = "load"
  /\ ui' = Idle
  /\ profiles' = Load(ClientProfiles)
  /\ account_configurations' = Load(AccountsFile)
  /\ accounts_edited' = FALSE
  /\ IF profiles'.ok THEN StartHost(profiles'.value) ELSE UNCHANGED <<files, host>>
  /\ UNCHANGED <<exchange, edits, launches>>

-----------------------------------------------------------------------------
(* The window. *)

(* Start authorization in the row of an account: with a typed API hash or  *)
(* the stored one, a key is ensured and all accounts are saved.  The key   *)
(* or the save may fail; what is in memory by then stays there.            *)
StartAuthorization(k, typed, ensured) ==
  LET rows == account_configurations.value
  IN /\ ui = Idle /\ account_configurations.ok
     /\ k \in DOMAIN rows
     /\ typed \/ rows[k].api_hash
     /\ account_configurations' =
          Parsed([rows EXCEPT ![k].api_hash = TRUE, ![k].database_key = @ \/ ensured])
     /\ \/ UNCHANGED files
        \/ ensured /\ Write(AccountsFile, Document(AccountsDocument(account_configurations'.value)))
     /\ exchange' = Quiet
     /\ UNCHANGED <<ui, profiles, host, edits, launches, accounts_edited>>

(* Confirm rotation in the row of a client: mcp-host.json is read again,   *)
(* and the host restarted when it runs.                                    *)
RegenerateToken(c) ==
  LET loaded == Load(HostFile)
  IN /\ ui = Idle /\ c \in ProfileIds
     /\ loaded.ok /\ Ensurable(loaded.value, ProfileIds)
     /\ LET conf == Ensured(loaded.value, ProfileIds)
        IN /\ Write(HostFile, Document(HostDocument(conf)))
           /\ host' \in IF ~host.listening THEN {host}
                        ELSE {Off} \cup (IF conf.enabled THEN {Listening(conf, profiles.value)} ELSE {})
     /\ exchange' = Quiet
     /\ UNCHANGED <<ui, profiles, account_configurations, edits, launches, accounts_edited>>

-----------------------------------------------------------------------------
(* A client's request; what the use case returns is up to Telegram, the    *)
(* policy and the operator.  Nothing here depends on an earlier exchange.  *)
Exchange(q) ==
  /\ host.listening /\ exchange = Quiet
  /\ LET response == Handle(q, host)
     IN IF response.tool = Nothing
        THEN exchange' = [request |-> q, tool |-> Nothing, outcome |-> "none", response |-> response]
        ELSE \E outcome \in {"ok", "error"},
                texts \in (IF response.tool = GetMessagesTool THEN {{text} : text \in Texts} ELSE {{}}) :
               exchange' = [request |-> q, tool |-> response.tool, outcome |-> outcome,
                            response |-> IF outcome = "ok" THEN Completed(response, texts) ELSE response]
  /\ UNCHANGED <<files, ui, memoryVars, edits, launches, accounts_edited>>

(* The operator's editor replaces a file, which is not being copied. *)
OperatorEdits(file, document) ==
  /\ edits < MaxEdits
  /\ ~(ui.pc = "copying" /\ Staged[ui.file] = file)
  /\ edits' = edits + 1
  /\ Write(file, Document(document))
  /\ accounts_edited' = (accounts_edited \/ file = AccountsFile)
  /\ exchange' = Quiet
  /\ UNCHANGED <<ui, memoryVars, launches>>

(* The window is closed or the process dies. *)
Quit ==
  /\ ui # Down
  /\ ui' = Down
  /\ profiles' = Refused /\ account_configurations' = Refused /\ host' = Off
  /\ exchange' = Quiet
  /\ UNCHANGED <<files, edits, launches, accounts_edited>>

ProgramStep ==
  \/ Launch \/ LookForFile \/ CopyBegins \/ CopyEnds \/ EnsureFails \/ LoadConfiguration \/ Quit
  \/ \E k \in 1..MaxAccounts, typed, ensured \in BOOLEAN : StartAuthorization(k, typed, ensured)
  \/ \E c \in Clients : RegenerateToken(c)

Next ==
  \/ ProgramStep
  \/ \E q \in Requests : Exchange(q)
  \/ \E file \in Files : \E document \in EditedDocuments[file] : OperatorEdits(file, document)

Spec == Init /\ [][Next]_vars

-----------------------------------------------------------------------------
(* "Existing user configuration is never replaced" (RuntimeLayout.hpp): a  *)
(* template goes only where there was nothing, also when the operator puts *)
(* a file there during the launch; mcp-host.json and accounts.json are     *)
(* written only over or after a version that was understood, and what they *)
(* mean then differs from what they meant in tokens, hashes and keys only. *)
SameButCredentials(new, old) ==
  /\ new.ok /\ old.ok
  /\ new.value = [old.value EXCEPT !.client_credentials = new.value.client_credentials,
                                   !.legacy_bearer_token = FALSE]
  /\ IsPrefix(old.value.client_credentials, new.value.client_credentials)

SameButSecrets(new, old) ==
  /\ new.ok /\ old.ok
  /\ DOMAIN new.value = DOMAIN old.value
  /\ \A k \in DOMAIN new.value :
       new.value[k] = [old.value[k] EXCEPT !.api_hash = @ \/ new.value[k].api_hash,
                                           !.database_key = @ \/ new.value[k].database_key]

Kept(file) ==
  \/ files[file] = Absent
  \/ ui.pc = "copying" /\ Staged[ui.file] = file
  \/ file = HostFile /\ SameButCredentials(Load(file)', Load(file))
  \/ /\ file = AccountsFile
     /\ account_configurations.ok
     /\ accounts_edited \/ SameButSecrets(Load(file)', Load(file))

UserConfigurationKept ==
  [][\A file \in Files : edits' = edits /\ files'[file] # files[file] => Kept(file)]_vars

(* Whoever has no token of an enabled profile learns nothing and reaches   *)
(* nothing: only path, method and origin decide the answer, whatever else  *)
(* the request says.  Whoever reaches a use case has a token whose profile *)
(* lists the tool, and its headers name that very tool.                    *)
(* (LocalMcpHttpService.cpp:246-297; README.md "the JSON-RPC metadata must *)
(* agree with those headers")                                              *)
Exchanged == exchange # Quiet

BoundaryHolds ==
  Exchanged =>
    LET q == exchange.request
    IN /\ AuthenticatedClient(q, host) = {} =>
            /\ exchange.outcome = "none"
            /\ exchange.response = Handle(Stripped(q), host)
       /\ exchange.outcome # "none" =>
            /\ \E profile \in profiles.value :
                 /\ profile.id = q.bearer /\ profile.enabled
                 /\ exchange.tool \in profile.allowed_tools
            /\ q.method_header = "tools/call" /\ q.name_header = exchange.tool
            /\ q.origin \in host.allowed_origins \cup {NoOrigin}

(* What the host announces is what it grants: a tool is on the list of a   *)
(* client exactly when a call of it reaches the use case, and a browser's  *)
(* preflight succeeds exactly when its POST is not turned away.            *)
(* (ProtocolHandler.cpp:40-64, LocalMcpHttpService.cpp:235-249)            *)
AnnouncedIsGranted ==
  Exchanged =>
    LET q == exchange.request
        Granted(tool) == Handle([CallOf(q, tool) EXCEPT !.arguments_fit = TRUE], host).tool = tool
    IN /\ q.method = "tools/list" /\ exchange.response = Served(q, host) =>
            exchange.response.listed = {tool \in Tools : Granted(tool)}
       /\ q.verb = "OPTIONS" /\ q.path = "/mcp" =>
            (exchange.response.status = 200 <=> Handle([q EXCEPT !.verb = "POST"], host).status # 403
                                                /\ q.origin # NoOrigin)

(* Whatever numbers, ids and paths the files hold: the host listens on     *)
(* loopback, on a port that exists, within its limits, for clients with    *)
(* one id and one credential each; and no account leaves the data          *)
(* directory.  (McpHostConfigurationRepository.cpp:112-152,                *)
(* AccountRepository.cpp:72-135)                                           *)
AcceptedIsSafe ==
  /\ host.listening =>
       /\ host.configuration.bind_address \in {"127.0.0.1", "::1"}
       /\ 0 < host.configuration.port /\ host.configuration.port < 65536
       /\ host.configuration.max_request_body_bytes \in 1..MaximumBodyBytes
       /\ host.configuration.maximum_connections \in 1..128
       /\ ToSet(host.configuration.client_credentials) = {profile.id : profile \in host.clients}
       /\ \A p, r \in host.clients : p.id = r.id => p = r
  /\ account_configurations.ok =>
       \A path \in ToSet(Directories(account_configurations.value)) :
         ~path.absolute /\ Normal(path) # <<>> /\ Head(Normal(path)) = "data"

(* What the window tells the operator to do while it is open ("Set api_id  *)
(* in the local account configuration and enter the API hash below",       *)
(* DesktopController.cpp:70): the edit survives the start that follows.    *)
EditsSurvive ==
  [][edits' = edits /\ Load(AccountsFile).ok /\ files'[AccountsFile] # files[AccountsFile] =>
       SameButSecrets(Load(AccountsFile)', Load(AccountsFile))]_vars

(* "the read-only MCP tools return its chat list and text-message history" *)
(* (README.md:98): a read that Telegram answered and that the audit log    *)
(* calls ok is answered with a result.                                     *)
ReadsAreAnswered ==
  Exchanged =>
    (exchange.tool = GetMessagesTool /\ exchange.outcome = "ok" => exchange.response.code = 0)
=============================================================================
