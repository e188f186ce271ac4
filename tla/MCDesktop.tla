----------------------------- MODULE MCDesktop -----------------------------
(* Small instances of Desktop for TLC. *)
EXTENDS Desktop

CONSTANTS alice, bob, home, listed, foreign

MCClients == {alice, bob}
MCOrigins == {listed, foreign}

ReadTools == {ListChatsTool, GetMessagesTool}

Entry(id, enabled, tools, policy) ==
  [id |-> id, enabled |-> enabled, allowed_accounts |-> {}, allowed_tools |-> tools,
   allowed_chats |-> {}, write_policy |-> policy]

ProfilesDocument(clients) == [flaw |-> "none", schema_version |-> 1, clients |-> clients]

Path(components) == [absolute |-> FALSE, components |-> components]

OneAccount(database, api_id) ==
  AccountsDocument(<<[id |-> home, database_directory |-> Path(database),
                      files_directory |-> Path(<<"data", "files">>), api_id |-> api_id,
                      api_hash |-> FALSE, database_key |-> FALSE]>>)

Disabled ==
  [flaw |-> "none", schema_version |-> 2, enabled |-> FALSE, bind_address |-> "127.0.0.1",
   port |-> 8765, max_request_body_bytes |-> 1048576, maximum_connections |-> 16,
   allowed_origins |-> {}, client_credentials |-> <<>>, legacy_bearer_token |-> FALSE]

Enabled == [Disabled EXCEPT !.enabled = TRUE, !.allowed_origins = {listed}]

MCTemplates ==
  (ClientProfiles :> ProfilesDocument(<<Entry(alice, "true", Tools, "require_approval")>>)) @@
  (AccountsFile :> OneAccount(<<"data", "database">>, 0)) @@
  (HostFile :> Disabled)

MCEditedDocuments ==
  (ClientProfiles :>
     {ProfilesDocument(<<Entry(alice, "absent", ReadTools, "absent"), Entry(bob, "false", Tools, "deny")>>),
      ProfilesDocument(<<Entry(alice, "true", Tools, "always")>>),
      ProfilesDocument(<<Entry(alice, "true", {}, "deny"), Entry(alice, "true", Tools, "deny")>>)}) @@
  (AccountsFile :>
     {OneAccount(<<"data", "database">>, 1), OneAccount(<<"data", ".", "files">>, 1),
      OneAccount(<<"data", "..", "..", "database">>, 1), OneAccount(<<"data", "files">>, 1),
      [OneAccount(<<"data", "database">>, 1) EXCEPT !.flaw = "malformed"]}) @@
  (HostFile :>
     {Enabled,
      [Enabled EXCEPT !.port = 65536 + 8765], [Enabled EXCEPT !.port = 65536], [Enabled EXCEPT !.port = -1],
      [Enabled EXCEPT !.bind_address = "0.0.0.0"], [Enabled EXCEPT !.maximum_connections = -1],
      [Enabled EXCEPT !.schema_version = 1, !.legacy_bearer_token = TRUE],
      [Enabled EXCEPT !.client_credentials = <<bob>>]})

(* A request that is served, and what may be different about it.           *)
Item(type, quality) == [media_type |-> type, quality |-> quality]
BothTypes(quality) == {Item("application/json", quality), Item("text/event-stream", NoQuality)}

Request(method, name) ==
  [path |-> "/mcp", verb |-> "POST", origin |-> listed, bearer |-> alice,
   content_type |-> "application/json", accept |-> BothTypes(NoQuality), body |-> "rpc",
   version_header |-> ProtocolVersion, meta_version |-> ProtocolVersion, client_metadata |-> TRUE,
   method |-> method, method_header |-> method, name |-> name, name_header |-> name,
   arguments_fit |-> TRUE]

Differences ==
  [path |-> {"/"}, verb |-> {"OPTIONS"}, origin |-> {NoOrigin, foreign}, bearer |-> {bob, NoBearer},
   content_type |-> {"text/plain"}, accept |-> {{Item("*/*", NoQuality)}, BothTypes(0), BothTypes(5), BothTypes(-1)},
   body |-> {"not_json", "not_rpc"}, version_header |-> {Nothing, "2025-11-25"},
   meta_version |-> {"absent", "not_a_string"}, client_metadata |-> {FALSE},
   method |-> {"resources/list", "tools/list"}, method_header |-> {Nothing},
   name |-> {"telegram_delete"}, name_header |-> {Nothing, PrepareTool}, arguments_fit |-> {FALSE}]

ServedRequests ==
  {Request("tools/list", Nothing), Request("server/discover", Nothing),
   Request("tools/call", GetMessagesTool), Request("tools/call", PrepareTool)}

Altered(q) == {q} \cup UNION {{[q EXCEPT ![f] = v] : v \in Differences[f]} : f \in DOMAIN Differences}

(* One difference, and for one request a second one in who sends it from where. *)
MCRequests ==
  LET Sender(q) == UNION {{[q EXCEPT ![f] = v] : v \in Differences[f]} : f \in {"origin", "bearer"}}
  IN UNION {Altered(q) : q \in ServedRequests}
       \cup UNION {Sender(q) : q \in Altered(Request("tools/call", GetMessagesTool))}
       \cup {Request("resources/list", Nothing), Request("tools/call", "telegram_delete")}

(* Widths of characters; the limit is four bytes. *)
MCTexts == {<<1, 3>>, <<0, 2, 2, 1>>, <<3, 3>>}
=============================================================================
