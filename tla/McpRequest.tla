----------------------------- MODULE McpRequest -----------------------------
(***************************************************************************)
(* What LocalMcpHttpService and the 2026-07-28 protocol handler make of    *)
(* one HTTP request: a pure function of the request and of the host's      *)
(* settings, up to the call of the use case.  The checks come in a fixed   *)
(* order and the first that fails answers.  Headers and JSON are reduced   *)
(* to what the checks tell apart; a bearer token is the id of its client.  *)
(***************************************************************************)
EXTENDS PolicyEngine, Integers, SequencesExt

CONSTANTS
  Origins, NoOrigin,
  NoBearer,          \* no Authorization header, or a token of nobody
  MaximumTextBytes   \* 8192 in the code

ASSUME McpRequestAssumption ==
  NoOrigin \notin Origins /\ NoBearer \notin Clients /\ MaximumTextBytes \in Nat

HttpRequest ==
  [path : STRING, verb : STRING, origin : Origins \cup {NoOrigin}, bearer : Clients \cup {NoBearer},
   content_type : STRING, accept : SUBSET [media_type : STRING, quality : Int],
   body : {"not_json", "not_rpc", "rpc"}, version_header : STRING,
   meta_version : STRING, client_metadata : BOOLEAN, method : STRING, method_header : STRING,
   name : STRING, name_header : STRING, arguments_fit : BOOLEAN]

ProtocolVersion == "2026-07-28"
Methods == {"server/discover", "tools/list", "tools/call"}
Nothing == "none"

(* The q parameter of a media type, in tenths: absent, or in (0, 1]; what  *)
(* is no quality at all counts as -1.                                      *)
NoQuality == 100
PositiveQuality(quality) == quality = NoQuality \/ quality \in 1..10

Accepts(accept, media_type) ==
  \E item \in accept : item.media_type = media_type /\ PositiveQuality(item.quality)

(* The enabled profiles the bearer token belongs to: one or none. *)
AuthenticatedClient(q, host) ==
  {profile \in host.clients : profile.enabled /\ profile.id = q.bearer}

AllowedTools(q, host) ==
  Tools \cap UNION {profile.allowed_tools : profile \in AuthenticatedClient(q, host)}

Response(status, code) == [status |-> status, code |-> code, tool |-> Nothing, listed |-> {}]

(* Mutant of EnvelopeChecks: the body is looked at before the token. *)
BodyFirst(q, host) ==
  << <<q.verb = "POST", 405, 0>>,
     <<q.origin \in host.allowed_origins \cup {NoOrigin}, 403, 0>>,
     <<q.content_type = "application/json", 415, 0>>,
     <<AuthenticatedClient(q, host) # {}, 401, 0>> >>

(* Each check with the status and the JSON-RPC code of its refusal. *)
EnvelopeChecks(q, host) ==
  << <<q.verb = "POST", 405, 0>>,
     <<q.origin \in host.allowed_origins \cup {NoOrigin}, 403, 0>>,
     <<AuthenticatedClient(q, host) # {}, 401, 0>>,
     <<q.content_type = "application/json", 415, 0>>,
     <<\A type \in {"application/json", "text/event-stream"} : Accepts(q.accept, type), 406, 0>> >>

(* "rpc": an object with jsonrpc 2.0, a method and a proper id.            *)
BodyChecks(q) ==
  << <<q.body # "not_json", 400, -32700>>,
     <<q.body = "rpc", 400, -32600>>,
     <<q.version_header # Nothing, 400, -32020>>,
     <<q.version_header = ProtocolVersion, 400, -32022>>,
     <<q.meta_version # "not_a_string", 400, -32600>>,
     <<q.meta_version = q.version_header, 400, -32020>>,
     <<q.client_metadata, 400, -32602>>,
     <<q.method_header = q.method, 400, -32020>>,
     <<q.method = "tools/call" => q.name_header # Nothing /\ q.name_header = q.name, 400, -32020>>,
     <<q.method \in Methods, 404, -32601>> >>

(* handle_tool_call, for a tool that is named and called. *)
CallChecks(q, host) ==
  << <<q.name \in AllowedTools(q, host), 200, -32602>>,
     <<q.arguments_fit, 200, -32602>> >>

(* Mutant of ListedTools: every client is told of every tool. *)
AllTools(q, host) == Tools

ListedTools(q, host) == AllowedTools(q, host)

Served(q, host) ==
  [Response(200, 0) EXCEPT
     !.tool = IF q.method = "tools/call" THEN q.name ELSE Nothing,
     !.listed = IF q.method = "tools/list" THEN ListedTools(q, host) ELSE {}]

HandlePost(q, host) ==
  LET checks == EnvelopeChecks(q, host) \o BodyChecks(q) \o
                  (IF q.method = "tools/call" THEN CallChecks(q, host) ELSE <<>>)
      failed == {k \in DOMAIN checks : ~checks[k][1]}
      first == checks[Min(failed)]
  IN IF failed = {} THEN Served(q, host) ELSE Response(first[2], first[3])

Preflight(q, host) == Response(IF q.origin \in host.allowed_origins THEN 200 ELSE 403, 0)

Handle(q, host) ==
  CASE q.path # "/mcp" -> Response(404, 0)
    [] q.path = "/mcp" /\ q.verb = "OPTIONS" -> Preflight(q, host)
    [] q.path = "/mcp" /\ q.verb # "OPTIONS" -> HandlePost(q, host)

-----------------------------------------------------------------------------
(* A text is the sequence of the widths of its characters in UTF-8, with 0 *)
(* for a control character.  sanitize_external_text drops those, and       *)
(* resizes what is left by bytes.                                          *)
Bytes(text) == FoldLeft(LAMBDA sum, width : sum + width, 0, text)

Resized(text) == Bytes(text) > MaximumTextBytes

CutInCharacter(text) ==
  Resized(text) /\ \A k \in 0..Len(text) : Bytes(SubSeq(text, 1, k)) # MaximumTextBytes

(* What the client gets when the use case has returned: the JSON library   *)
(* refuses to write half a character, and its exception is taken for a     *)
(* malformed request.                                                      *)
Completed(response, texts) ==
  IF \E text \in texts : CutInCharacter(text) THEN Response(400, -32600) ELSE response

-----------------------------------------------------------------------------
(* The request without all that only the owner of a token has a say in.   *)
Stripped(q) ==
  [q EXCEPT !.content_type = Nothing, !.accept = {}, !.body = "not_json",
            !.version_header = Nothing, !.method_header = Nothing, !.name_header = Nothing]

(* The same client's call of a tool, with the headers to match. *)
CallOf(q, tool) ==
  [q EXCEPT !.method = "tools/call", !.method_header = "tools/call",
            !.name = tool, !.name_header = tool]
=============================================================================
