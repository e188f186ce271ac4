--------------------- MODULE TelegramApplicationService ---------------------
(***************************************************************************)
(* The use cases of TgGate (src/application) with the actors around them:  *)
(* HTTP workers that run MCP tool calls concurrently, the operator at the  *)
(* desktop window who approves, denies and locks down, the Telegram port,  *)
(* and the MCP host, whose restart replaces the profiles the calls use.    *)
(* A call is cut where it leaves a lock or waits for the port: between two *)
(* of its steps any other actor may move.                                  *)
(***************************************************************************)
EXTENDS ApprovalService, Sequences

CONSTANTS
  Workers,      \* threads of the HTTP host's pool
  NoProfile,    \* the client is not in the running host's table
  NoId,         \* an audit entry without action id
  Operations,   \* the tools clients call in this instance (a bound)
  MaxCalls,     \* how many calls are made (a bound)
  MaxRestarts   \* how many times the host is restarted (a bound)

ASSUME NullsAssumption == NoProfile \notin Profiles /\ NoId \notin ActionIds
ASSUME BoundsAssumption == /\ Operations \subseteq Tools
                           /\ MaxCalls \in Nat /\ MaxRestarts \in Nat

VARIABLES
  clients,          \* clients_: the profile served for each client
  call,             \* what each worker is doing
  audit,            \* entries_ of the audit service
  lockdown_active,  \* the flag the desktop window shows
  calls, restarts,  \* counters for the bounds
  \* history, read by properties only
  sends,            \* how often the port was asked to send an action
  disclosed,        \* action ids some client was told
  consented,        \* actions the operator approved
  withdrawn,        \* actions outstanding at some lockdown
  seen              \* <<client, chat>>: the client got content of the chat

callVars == <<clients, call, audit, lockdown_active, calls, restarts>>
historyVars == <<sends, disclosed, consented, withdrawn, seen>>
vars == <<approvalVars, callVars, historyVars>>

Idle == [pc |-> "idle"]
WriteCall == [pc : {"insert", "prepared", "send", "ok", "error"},
              client : Clients, id : ActionIds]
ReadCall == [pc : {"read"}, client : Clients, tool : {ListChatsTool, GetMessagesTool},
             chat : Chats \cup {NoChat}]

AuditEntry == [client_id : Clients, tool_name : Tools,
               result_status : {"denied", "error", "ok", "prepared"},
               action_id : ActionIds \cup {NoId}]

ServedTables ==
  {table \in [Clients -> Profiles \cup {NoProfile}] :
     \A c \in Clients : table[c] # NoProfile => table[c].id = c}

Init ==
  /\ ApprovalInit
  /\ clients \in ServedTables
  /\ call = [w \in Workers |-> Idle]
  /\ audit = <<>>
  /\ lockdown_active = FALSE
  /\ calls = 0 /\ restarts = 0
  /\ sends = [id \in ActionIds |-> 0]
  /\ disclosed = {} /\ consented = {} /\ withdrawn = {} /\ seen = {}

(* A bearer token resolves to an enabled profile, and the tool is listed.  *)
Available(client, tool) ==
  /\ clients[client] # NoProfile
  /\ clients[client].enabled
  /\ tool \in clients[client].allowed_tools

Dispatch(w, client, tool) ==
  /\ call[w] = Idle
  /\ tool \in Operations
  /\ Available(client, tool)
  /\ calls < MaxCalls
  /\ calls' = calls + 1
  /\ UNCHANGED <<clients, lockdown_active, restarts>>

Record(client, tool, status, id) ==
  audit' = Append(audit, [client_id |-> client, tool_name |-> tool,
                          result_status |-> status, action_id |-> id])

Become(w, state) == call' = [call EXCEPT ![w] = state]

Invocation(tool, account, chat) ==
  [tool_name |-> tool, account_id |-> account, chat_id |-> chat,
   is_write |-> tool = PrepareTool]

(* prepare_send_message with a text of legal length; the other texts are   *)
(* refused before anything happens.                                        *)
CallPrepare(w, client, account, chat) ==
  LET invocation == Invocation(PrepareTool, account, chat)
  IN /\ Dispatch(w, client, PrepareTool)
     /\ \/ /\ Evaluate(clients[client], invocation) = "deny"
           /\ Record(client, PrepareTool, "denied", NoId)
           /\ UNCHANGED <<approvalVars, call>>
        \/ /\ Evaluate(clients[client], invocation) # "deny"
           /\ \E id \in ActionIds :
                /\ PrepareStamp(client, invocation, id)
                /\ Become(w, [pc |-> "insert", client |-> client, id |-> id])
           /\ UNCHANGED audit
     /\ UNCHANGED historyVars

InsertPrepared(w) ==
  /\ call[w].pc = "insert"
  /\ \E action \in preparing : action.id = call[w].id /\ PrepareInsert(action)
  /\ Become(w, [call[w] EXCEPT !.pc = "prepared"])
  /\ UNCHANGED <<clients, audit, lockdown_active, calls, restarts, historyVars>>

(* Only the response tells the client the id of its action. *)
AnswerPrepared(w) ==
  /\ call[w].pc = "prepared"
  /\ Record(call[w].client, PrepareTool, "prepared", call[w].id)
  /\ disclosed' = disclosed \cup {call[w].id}
  /\ Become(w, Idle)
  /\ UNCHANGED <<approvalVars, clients, lockdown_active, calls, restarts,
                 sends, consented, withdrawn, seen>>

(* execute_approved_action, the part under the approval lock.  A take that *)
(* fails is answered with an error and not audited.  Clients present ids   *)
(* they were told; any other id is absent from the map.                    *)
CallExecute(w, client, id) ==
  /\ Dispatch(w, client, ExecuteTool)
  /\ id \in disclosed
  /\ TakeApprovedForExecution(id, clients[client])
  /\ Become(w, IF TakeSucceeds(id, clients[client])
               THEN [pc |-> "send", client |-> client, id |-> id]
               ELSE Idle)
  /\ UNCHANGED <<audit, historyVars>>

(* The port is called without any lock; it answers with a message or fails. *)
SendMessage(w) ==
  /\ call[w].pc = "send"
  /\ sends' = [sends EXCEPT ![call[w].id] = @ + 1]
  /\ \E outcome \in {"ok", "error"} : Become(w, [call[w] EXCEPT !.pc = outcome])
  /\ UNCHANGED <<approvalVars, clients, audit, lockdown_active, calls, restarts,
                 disclosed, consented, withdrawn, seen>>

(* Mutant of AnswerExecuted: a failed send is not audited. *)
AnswerExecutedQuietly(w) ==
  /\ call[w].pc \in {"ok", "error"}
  /\ IF call[w].pc = "ok" THEN Record(call[w].client, PrepareTool, "ok", call[w].id)
                          ELSE UNCHANGED audit
  /\ Become(w, Idle)
  /\ UNCHANGED <<approvalVars, clients, lockdown_active, calls, restarts, historyVars>>

AnswerExecuted(w) ==
  /\ call[w].pc \in {"ok", "error"}
  /\ Record(call[w].client, PrepareTool, call[w].pc, call[w].id)
  /\ Become(w, Idle)
  /\ UNCHANGED <<approvalVars, clients, lockdown_active, calls, restarts, historyVars>>

(* list_chats (no chat in the invocation) and get_messages. *)
CallRead(w, client, account, tool, chat) ==
  LET effect == Evaluate(clients[client], Invocation(tool, account, chat))
  IN /\ Dispatch(w, client, tool)
     /\ \/ /\ effect # "allow"
           /\ Record(client, tool, "denied", NoId)
           /\ UNCHANGED call
        \/ /\ effect = "allow"
           /\ Become(w, [pc |-> "read", client |-> client, tool |-> tool, chat |-> chat])
           /\ UNCHANGED audit
     /\ UNCHANGED <<approvalVars, historyVars>>

(* Mutant of Filtered: the backend is trusted to filter. *)
Unfiltered(client, chats) == chats

(* What a client sees of the chats a backend returned. *)
Filtered(client, chats) == chats \cap clients[client].allowed_chats

(* The port may answer with anything.  Only a list of chats is filtered;   *)
(* messages go to the client as they come, each with its own chat.         *)
AnswerRead(w) ==
  LET c == call[w].client
  IN /\ call[w].pc = "read"
     /\ \/ /\ Record(c, call[w].tool, "error", NoId)
           /\ UNCHANGED seen
        \/ /\ Record(c, call[w].tool, "ok", NoId)
           /\ \E chats \in SUBSET Chats :
                seen' = seen \cup ({c} \X (IF call[w].tool = ListChatsTool
                                           THEN Filtered(c, chats) ELSE chats))
     /\ Become(w, Idle)
     /\ UNCHANGED <<approvalVars, clients, lockdown_active, calls, restarts,
                    sends, disclosed, consented, withdrawn>>

(* The operator, at a row of the pending-actions table (which may be older *)
(* than the action's present state).                                       *)
OperatorApprove(id) ==
  /\ Approve(id)
  /\ consented' = IF Status(id)' = "approved" THEN consented \cup {id} ELSE consented
  /\ UNCHANGED <<callVars, sends, disclosed, withdrawn, seen>>

OperatorDeny(id) ==
  /\ Deny(id)
  /\ UNCHANGED <<callVars, historyVars>>

OperatorLockdown ==
  /\ Lockdown
  /\ lockdown_active' = TRUE
  /\ withdrawn' = withdrawn \cup OutstandingIds
  /\ UNCHANGED <<clients, call, audit, calls, restarts,
                 sends, disclosed, consented, seen>>

(* LocalMcpHttpService::start: the old host is stopped, which joins its    *)
(* workers, and a new table of profiles is served; an empty one when the   *)
(* start fails or the host is disabled.                                    *)
Unjoined == TRUE  \* mutant of Quiescent: the workers are not joined

Quiescent == \A w \in Workers : call[w] = Idle

RestartHost(table) ==
  /\ Quiescent
  /\ restarts < MaxRestarts
  /\ restarts' = restarts + 1
  /\ clients' = table
  /\ UNCHANGED <<approvalVars, call, audit, lockdown_active, calls, historyVars>>

ClockMoves == TickClock /\ UNCHANGED <<callVars, historyVars>>

(* The steps of a call that is under way. *)
WorkerStep(w) ==
  \/ InsertPrepared(w) \/ AnswerPrepared(w)
  \/ SendMessage(w) \/ AnswerExecuted(w)
  \/ AnswerRead(w)

ClientCall(w) ==
  \E c \in Clients :
    \/ \E a \in Accounts, chat \in Chats : CallPrepare(w, c, a, chat)
    \/ \E id \in ActionIds : CallExecute(w, c, id)
    \/ \E a \in Accounts : CallRead(w, c, a, ListChatsTool, NoChat)
    \/ \E a \in Accounts, chat \in Chats : CallRead(w, c, a, GetMessagesTool, chat)

Operator ==
  \/ \E id \in ActionIds : OperatorApprove(id) \/ OperatorDeny(id)
  \/ OperatorLockdown

Next ==
  \/ \E w \in Workers : ClientCall(w) \/ WorkerStep(w)
  \/ Operator
  \/ \E table \in ServedTables : RestartHost(table)
  \/ ClockMoves

(* A pool thread runs the call it took to its end; nobody has to call.     *)
Fairness == \A w \in Workers : WF_vars(WorkerStep(w))

Spec == Init /\ [][Next]_vars
FairSpec == Spec /\ Fairness

-----------------------------------------------------------------------------
TypeOK ==
  /\ ApprovalTypeOK
  /\ clients \in ServedTables
  /\ call \in [Workers -> {Idle} \cup WriteCall \cup ReadCall]
  /\ audit \in Seq(AuditEntry)
  /\ lockdown_active \in BOOLEAN
  /\ calls \in 0..MaxCalls /\ restarts \in 0..MaxRestarts
  /\ sends \in [ActionIds -> Nat]
  /\ disclosed \subseteq ActionIds
  /\ consented \subseteq ActionIds /\ withdrawn \subseteq ActionIds
  /\ seen \subseteq Clients \X Chats

(* A worker took the action and has not yet recorded how it went. *)
Executing(w, id) == call[w].pc \in {"send", "ok", "error"} /\ call[w].id = id

(* Two clients, or one client twice, may present the same action at the    *)
(* same moment on different workers: Telegram is asked at most once.       *)
SingleUse == \A id \in ActionIds : sends[id] <= 1

(* A message goes out only after the operator approved that very action,   *)
(* and only for the client that prepared it.                               *)
(* (README.md: "always follows prepare -> approve -> execute")             *)
SendsAreConsented ==
  \A w \in Workers : call[w].pc = "send" =>
    /\ call[w].id \in consented
    /\ actions[call[w].id].client_id = call[w].client

(* The profile served when the message leaves allows it, although it was   *)
(* checked under a lock that is no longer held: a host restart cannot slip *)
(* a narrower profile under a call that passed the check.                  *)
(* (docs/architecture.md: "Execution re-evaluates the current policy")     *)
PolicyAtSend ==
  \A w \in Workers : call[w].pc = "send" =>
    /\ clients[call[w].client] # NoProfile
    /\ Evaluate(clients[call[w].client], actions[call[w].id].invocation) # "deny"

(* What a lockdown withdrew stays withdrawn, whatever calls were under way *)
(* and wherever the clock goes.                                            *)
LockdownIsFinal == \A id \in withdrawn : Status(id) = "denied"

(* The places of an action in the audit log, and of its outcomes in it.    *)
Trail(id) == {k \in DOMAIN audit : audit[k].action_id = id}
Outcomes(id) == {k \in Trail(id) : audit[k].result_status \in {"ok", "error"}}

(* The audit log tells the story of each action in its order: prepared     *)
(* before its outcome although the action is visible to the operator       *)
(* before it is logged, each once, an outcome exactly when a taken action  *)
(* is finished, all under the owner's name.                                *)
AuditTellsTheStory ==
  \A id \in ActionIds :
    /\ \A k \in Trail(id) \ Outcomes(id) : audit[k].result_status = "prepared"
    /\ \A j, k \in Trail(id) : j < k => j \notin Outcomes(id) /\ k \in Outcomes(id)
    /\ \A k \in Outcomes(id) : \E j \in Trail(id) : j < k
    /\ Outcomes(id) # {} <=> /\ Status(id) = "executed"
                             /\ \A w \in Workers : ~Executing(w, id)
    /\ \A k \in Trail(id) : audit[k].client_id = actions[id].client_id

(* A client gets content only in answer to a read of its own, and at that  *)
(* moment its profile lists every chat it is shown in a list, whatever the *)
(* port returned, or the chat it asked messages of, although the check was *)
(* made before the port was called.  That the messages are of that chat is *)
(* for the port to see to.                                                 *)
(* (TelegramApplicationService.cpp:73-123)                                 *)
ReadScope ==
  [][\A c \in Clients, chat \in Chats :
       (<<c, chat>> \in seen' \ seen) =>
         /\ clients[c] # NoProfile
         /\ clients[c].enabled
         /\ \E w \in Workers :
              /\ call[w].pc = "read" /\ call[w].client = c /\ call'[w] = Idle
              /\ (IF call[w].tool = ListChatsTool THEN chat ELSE call[w].chat)
                   \in clients[c].allowed_chats]_vars

(* A taken action never vanishes: the port is asked and the outcome logged,*)
(* also when the port fails.                                               *)
TakenIsAudited ==
  \A id \in ActionIds :
    Status(id) = "executed" ~>
      \E k \in DOMAIN audit : /\ audit[k].action_id = id
                              /\ audit[k].result_status \in {"ok", "error"}

(* The use cases keep the promise of ActionLifecycle, message included.    *)
Lifecycle ==
  INSTANCE ActionLifecycle WITH
    state <- [id \in ActionIds |-> Status(id)], sends <- sends

ImplementsActionLifecycle == Lifecycle!LifecycleSpec

(* What the README says of an approval ("single-use, time-limited write    *)
(* approvals", README.md:10): none is used once its time is over.          *)
ApprovalsAreTimeLimited ==
  [][\A id \in ActionIds :
       (Status(id) # "executed" /\ Status(id)' = "executed") =>
         system_clock < actions[id].expires_at]_vars

(* What the window says once lockdown was pressed ("LOCKDOWN - all write   *)
(* approvals are denied", DesktopUiState.cpp:101).                         *)
LockdownDeniesApprovals ==
  [][lockdown_active =>
       \A id \in ActionIds :
         Status(id) # "approved" => Status(id)' # "approved"]_vars
=============================================================================
