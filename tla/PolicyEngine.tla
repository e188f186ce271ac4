---------------------------- MODULE PolicyEngine ----------------------------
(***************************************************************************)
(* The policy decision of TgGate: a pure function of a client profile and  *)
(* a tool invocation (src/domain/policy).  Allow lists are sets: their     *)
(* order and repetitions do not matter to std::ranges::find.               *)
(***************************************************************************)
EXTENDS Naturals

CONSTANTS
  Clients,    \* ids of MCP client profiles
  Accounts,   \* ids of Telegram accounts
  Chats,      \* Telegram chat ids
  NoChat      \* an invocation without a chat_id (std::nullopt)

ASSUME NoChatAssumption == NoChat \notin Chats

(* The four tools the desktop host registers. *)
ListChatsTool == "telegram_list_chats"
GetMessagesTool == "telegram_get_messages"
PrepareTool == "telegram_prepare_send_message"
ExecuteTool == "telegram_execute_approved_action"
Tools == {ListChatsTool, GetMessagesTool, PrepareTool, ExecuteTool}

PolicyEffect == {"deny", "allow", "require_approval"}
WritePolicy == {"deny", "require_approval", "auto_approve"}

ToolInvocation ==
  [tool_name : Tools, account_id : Accounts,
   chat_id : Chats \cup {NoChat}, is_write : BOOLEAN]

McpClientProfile ==
  [id : Clients, enabled : BOOLEAN,
   allowed_accounts : SUBSET Accounts, allowed_tools : SUBSET Tools,
   allowed_chats : SUBSET Chats, write_policy : WritePolicy]

(* The allow lists of the profile cover the invocation. *)
Covers(profile, invocation) ==
  /\ profile.enabled
  /\ invocation.account_id \in profile.allowed_accounts
  /\ invocation.tool_name \in profile.allowed_tools
  /\ invocation.chat_id # NoChat => invocation.chat_id \in profile.allowed_chats

Evaluate(profile, invocation) ==
  CASE ~Covers(profile, invocation) -> "deny"
    [] Covers(profile, invocation) /\ ~invocation.is_write -> "allow"
    [] Covers(profile, invocation) /\ invocation.is_write ->
         CASE profile.write_policy = "auto_approve" -> "allow"
           [] profile.write_policy = "require_approval" -> "require_approval"
           [] profile.write_policy = "deny" -> "deny"

=============================================================================
