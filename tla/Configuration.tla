--------------------------- MODULE Configuration ---------------------------
(***************************************************************************)
(* What the three configuration files mean: the parsers of client-profiles,*)
(* accounts and mcp-host (src/application/config) as pure functions from a *)
(* document to a configuration or a refusal, and the writer of mcp-host.   *)
(* "flaw" stands for every reason that does not depend on values: no JSON, *)
(* a field that is unknown, missing or of the wrong type, a plain secret.  *)
(***************************************************************************)
EXTENDS PolicyEngine, Integers, SequencesExt

CONSTANT EmptyId  \* the id ""

ASSUME EmptyIdAssumption == EmptyId \notin Clients \cup Accounts

Refused == [ok |-> FALSE]
Parsed(value) == [ok |-> TRUE, value |-> value]

(* A number is converted to the type of its field before it is checked:    *)
(* whatever is beyond the type comes back as something else within it.     *)
UnsignedShort(number) == number % 65536

IntType(number) ==
  LET high == UnsignedShort(number \div 65536)
  IN (IF high < 32768 THEN high ELSE high - 65536) * 65536 + UnsignedShort(number)

UniqueIds(entries) ==
  /\ \A k \in DOMAIN entries : entries[k].id # EmptyId
  /\ \A j, k \in DOMAIN entries : entries[j].id = entries[k].id => j = k

-----------------------------------------------------------------------------
(* ClientProfileRepository::parse.  A list that is absent is empty.        *)
Profile(entry) ==
  [entry EXCEPT !.enabled = entry.enabled # "false",
                !.write_policy = IF entry.write_policy = "absent" THEN "deny" ELSE entry.write_policy]

ProfileEntries ==
  [id : Clients \cup {EmptyId}, enabled : {"true", "false", "absent"},
   allowed_accounts : SUBSET Accounts, allowed_tools : SUBSET STRING,
   allowed_chats : SUBSET Chats, write_policy : STRING]

ProfilesDocuments ==
  [flaw : {"none", "malformed"}, schema_version : Int, clients : Seq(ProfileEntries)]

ParseProfiles(document) ==
  IF /\ document.flaw = "none" /\ IntType(document.schema_version) = 1
     /\ UniqueIds(document.clients)
     /\ \A k \in DOMAIN document.clients : Profile(document.clients[k]).write_policy \in WritePolicy
  THEN Parsed({Profile(document.clients[k]) : k \in DOMAIN document.clients})
  ELSE Refused

-----------------------------------------------------------------------------
(* AccountRepository::parse.  A path is the sequence of its components.    *)

Paths == [absolute : BOOLEAN, components : Seq(STRING)]

AccountConfigurations ==
  [id : Accounts \cup {EmptyId}, database_directory : Paths, files_directory : Paths,
   api_id : Int, api_hash : BOOLEAN, database_key : BOOLEAN]

AccountsDocuments ==
  [flaw : {"none", "malformed"}, schema_version : Int, accounts : Seq(AccountConfigurations)]

(* std::filesystem's lexically_normal of a relative path. *)
Normal(path) ==
  FoldLeft(LAMBDA done, part :
             CASE part \in {".", ""} -> done
               [] part = ".." /\ done # <<>> /\ Last(done) # ".." -> Front(done)
               [] part = ".." /\ (done = <<>> \/ Last(done) = "..") -> Append(done, part)
               [] part \notin {".", "", ".."} -> Append(done, part),
           <<>>, path.components)

IsSafeTdlibDataPath(path) ==
  /\ ~path.absolute
  /\ Normal(path) # <<>> /\ Head(Normal(path)) = "data"
  /\ ".." \notin ToSet(Normal(path))

(* The directories of all accounts as they are written, in file order. *)
Directories(entries) ==
  [k \in 1..2 * Len(entries) |-> IF k % 2 = 1 THEN entries[(k + 1) \div 2].database_directory
                                             ELSE entries[k \div 2].files_directory]

Account(entry) == [entry EXCEPT !.api_id = IntType(entry.api_id)]

ParseAccounts(document) ==
  LET accounts == [k \in DOMAIN document.accounts |-> Account(document.accounts[k])]
  IN IF /\ document.flaw = "none" /\ IntType(document.schema_version) = 1
        /\ UniqueIds(accounts)
        /\ \A k \in DOMAIN accounts : accounts[k].api_id >= 0
        /\ \A path \in ToSet(Directories(accounts)) : IsSafeTdlibDataPath(path)
        /\ IsInjective(Directories(accounts))
     THEN Parsed(accounts)
     ELSE Refused

(* save *)
AccountsDocument(accounts) == [flaw |-> "none", schema_version |-> 1, accounts |-> accounts]

-----------------------------------------------------------------------------
(* McpHostConfigurationRepository::parse.                                  *)
Credentials == Seq(Clients \cup {EmptyId})  \* who has one; tokens are in McpHost

HostDocuments(origins) ==
  [flaw : {"none", "malformed"}, schema_version : Int, enabled : BOOLEAN,
   bind_address : STRING, port : Int,
   max_request_body_bytes : Int, maximum_connections : Int, allowed_origins : SUBSET origins,
   client_credentials : Credentials, legacy_bearer_token : BOOLEAN]

MaximumBodyBytes == 16 * 1024 * 1024
SizeType(number) == IF number < 0 THEN MaximumBodyBytes + 1 ELSE number  \* wraps to a huge one

HostConfiguration(document) ==
  [enabled |-> document.enabled, bind_address |-> document.bind_address,
   port |-> UnsignedShort(document.port),
   max_request_body_bytes |-> SizeType(document.max_request_body_bytes),
   maximum_connections |-> SizeType(document.maximum_connections),
   allowed_origins |-> document.allowed_origins,
   client_credentials |-> IF IntType(document.schema_version) = 2 THEN document.client_credentials ELSE <<>>,
   legacy_bearer_token |-> IntType(document.schema_version) = 1 /\ document.legacy_bearer_token]

(* Mutant of Bounded: the port is checked before it is converted. *)
BoundedAsWritten(conf, document) ==
  /\ conf.bind_address \in {"127.0.0.1", "::1"}
  /\ document.port # 0
  /\ conf.max_request_body_bytes \in 1..MaximumBodyBytes /\ conf.maximum_connections \in 1..128

Bounded(conf, document) ==
  /\ conf.bind_address \in {"127.0.0.1", "::1"}
  /\ conf.port # 0
  /\ conf.max_request_body_bytes \in 1..MaximumBodyBytes /\ conf.maximum_connections \in 1..128

ParseHost(document) ==
  LET conf == HostConfiguration(document)
  IN IF /\ document.flaw = "none" /\ IntType(document.schema_version) \in {1, 2}
        /\ Bounded(conf, document)
        /\ UniqueIds([k \in DOMAIN conf.client_credentials |-> [id |-> conf.client_credentials[k]]])
     THEN Parsed(conf)
     ELSE Refused

(* save: what is written is of version 2 and has no legacy token. *)
HostDocument(conf) ==
  [flaw |-> "none", schema_version |-> 2, enabled |-> conf.enabled, bind_address |-> conf.bind_address,
   port |-> conf.port, max_request_body_bytes |-> conf.max_request_body_bytes,
   maximum_connections |-> conf.maximum_connections, allowed_origins |-> conf.allowed_origins,
   client_credentials |-> conf.client_credentials, legacy_bearer_token |-> FALSE]
=============================================================================
