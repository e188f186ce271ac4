---------------------- MODULE TelegramApplicationProofs ----------------------
(***************************************************************************)
(* Theorems about the write path of TelegramApplicationService, for every  *)
(* number of workers, clients, actions and calls: what can be said about a *)
(* message at the moment it is handed to Telegram.                         *)
(***************************************************************************)
EXTENDS TelegramApplicationService, ApprovalServiceProofs

USE DEF Known, Status

(* The part of the type invariant the write path needs. *)
WriteTypes ==
  /\ ApprovalTypeOK
  /\ clients \in ServedTables
  /\ call \in [Workers -> {Idle} \cup WriteCall \cup ReadCall]
  /\ sends \in [ActionIds -> Nat]
  /\ withdrawn \subseteq ActionIds

Sending(w) == call[w].pc = "send"

(* What is approved was approved by the operator. *)
ApprovedIsConsented == \A id \in ActionIds : Status(id) = "approved" => id \in consented

(* A worker about to send holds an executed action of its own client that  *)
(* was consented to, is allowed, was not sent yet and is nobody else's.    *)
SenderHolds(w) ==
  LET id == call[w].id
  IN /\ Status(id) = "executed"
     /\ id \in consented
     /\ actions[id].client_id = call[w].client
     /\ clients[call[w].client] # NoProfile
     /\ Evaluate(clients[call[w].client], actions[id].invocation) # "deny"
     /\ sends[id] = 0

SendersHold == \A w \in Workers : Sending(w) => SenderHolds(w)

OneSender ==
  \A v, w \in Workers : (Sending(v) /\ Sending(w) /\ call[v].id = call[w].id) => v = w

SentWasTaken ==
  \A id \in ActionIds : sends[id] <= 1 /\ (sends[id] > 0 => Status(id) = "executed")

(* The inductive invariant: SingleUse alone is not one, because nothing in *)
(* it keeps two workers from holding the same action.                      *)
WritePathInv ==
  /\ WriteTypes
  /\ ApprovedIsConsented
  /\ SendersHold
  /\ OneSender
  /\ SentWasTaken
  /\ LockdownIsFinal

-----------------------------------------------------------------------------
(* What a step of the approval service never does to an action.            *)
LEMMA ApprovalStepKeeps ==
  ASSUME ApprovalTypeOK, [ApprovalNext]_approvalVars, NEW id \in ActionIds
  PROVE  /\ Status(id) \in {"executed", "denied"} => Status(id)' = Status(id)
         /\ Known(id) => /\ Known(id)'
                         /\ actions'[id].client_id = actions[id].client_id
                         /\ actions'[id].invocation = actions[id].invocation
<1>1. ASSUME NEW i \in ActionIds, NEW entry, actions' = [actions EXCEPT ![i] = entry],
             Known(i), NEW status \in ActionStatus,
             entry \in {FindAndExpire(i), [FindAndExpire(i) EXCEPT !.status = status]},
             actions[i].status \in {"executed", "denied"} => entry.status = actions[i].status
      PROVE  /\ Status(id) \in {"executed", "denied"} => Status(id)' = Status(id)
             /\ Known(id) => /\ Known(id)'
                             /\ actions'[id].client_id = actions[id].client_id
                             /\ actions'[id].invocation = actions[id].invocation
  <2>1. entry \in PendingAction /\ entry.client_id = actions[i].client_id
        /\ entry.invocation = actions[i].invocation
    BY <1>1, FindAndExpireType DEF PendingAction
  <2> QED
    BY <1>1, <2>1, NoActionAssumption DEF ApprovalTypeOK
<1>2. ASSUME NEW i \in ActionIds, NEW decision \in {"approved", "denied"}, Decide(i, decision)
      PROVE  /\ Status(id) \in {"executed", "denied"} => Status(id)' = Status(id)
             /\ Known(id) => /\ Known(id)'
                             /\ actions'[id].client_id = actions[id].client_id
                             /\ actions'[id].invocation = actions[id].invocation
  <2> DEFINE entry == IF FindAndExpire(i).status = "pending"
                      THEN [FindAndExpire(i) EXCEPT !.status = decision] ELSE FindAndExpire(i)
  <2>1. actions' = [actions EXCEPT ![i] = entry] /\ Known(i)
    BY <1>2 DEF Decide
  <2>2. entry \in {FindAndExpire(i), [FindAndExpire(i) EXCEPT !.status = decision]}
    OBVIOUS
  <2>3. decision \in ActionStatus
    BY DEF ActionStatus
  <2>4. actions[i].status \in {"executed", "denied"} => entry.status = actions[i].status
    BY <2>1, FindAndExpireType
  <2> HIDE DEF entry
  <2> QED
    BY <1>1, <2>1, <2>2, <2>3, <2>4
<1>3. ASSUME NEW i \in ActionIds, NEW profile \in Profiles, TakeApprovedForExecution(i, profile)
      PROVE  /\ Status(id) \in {"executed", "denied"} => Status(id)' = Status(id)
             /\ Known(id) => /\ Known(id)'
                             /\ actions'[id].client_id = actions[id].client_id
                             /\ actions'[id].invocation = actions[id].invocation
  <2> DEFINE status == IF TakeSucceeds(i, profile) THEN "executed" ELSE "denied"
             entry == IF ~Takeable(i, profile) THEN FindAndExpire(i)
                      ELSE [FindAndExpire(i) EXCEPT !.status = status]
  <2>1. actions' = [actions EXCEPT ![i] = entry] /\ Known(i)
    BY <1>3 DEF TakeApprovedForExecution
  <2>2. entry \in {FindAndExpire(i), [FindAndExpire(i) EXCEPT !.status = status]}
    OBVIOUS
  <2>3. status \in ActionStatus
    BY DEF ActionStatus
  <2>4. actions[i].status \in {"executed", "denied"} => entry.status = actions[i].status
    BY <2>1, FindAndExpireType DEF Takeable
  <2> HIDE DEF entry, status
  <2> QED
    BY <1>1, <2>1, <2>2, <2>3, <2>4
<1>4. ASSUME NEW action \in preparing, PrepareInsert(action)
      PROVE  Known(id) => actions'[id] = actions[id]
  BY <1>4 DEF PrepareInsert, ApprovalTypeOK
<1>5. CASE Lockdown
  <2>1. Known(id) => actions[id] \in PendingAction
    BY DEF ApprovalTypeOK
  <2>2. CASE id \in OutstandingIds
    <3>1. actions'[id] = [actions[id] EXCEPT !.status = "denied"]
      BY <1>5, <2>2 DEF Lockdown
    <3>2. Known(id) => actions'[id] \in PendingAction
      BY <2>1, <3>1 DEF PendingAction, ActionStatus
    <3> QED
      BY <2>1, <2>2, <3>1, <3>2, NoActionAssumption DEF OutstandingIds, PendingAction
  <2>3. CASE id \notin OutstandingIds
    BY <1>5, <2>3 DEF Lockdown
  <2> QED
    BY <2>2, <2>3
<1>6. UNCHANGED actions => /\ Status(id)' = Status(id)
                           /\ Known(id)' = Known(id)
                           /\ actions'[id] = actions[id]
  OBVIOUS
<1>7. (\E i \in ActionIds : Approve(i) \/ Deny(i)) =>
        \E i \in ActionIds, decision \in {"approved", "denied"} : Decide(i, decision)
  BY DEF Approve, Deny
<1> QED
  BY <1>2, <1>3, <1>4, <1>5, <1>6, <1>7
     DEF ApprovalNext, PrepareStamp, TickClock, approvalVars

(* A served client's profile is one of the configured ones and its own. *)
LEMMA ServedProfile ==
  ASSUME WriteTypes, NEW c \in Clients, NEW tool, Available(c, tool)
  PROVE  clients[c] \in Profiles /\ clients[c].id = c
  BY DEF WriteTypes, ServedTables, Available

LEMMA WriteInvocation ==
  ASSUME NEW a \in Accounts, NEW chat \in Chats
  PROVE  Invocation(PrepareTool, a, chat) \in WriteInvocations
  BY NoChatAssumption DEF Invocation, WriteInvocations, ToolInvocation, Tools, PrepareTool

(* Every step of the use cases is one of the approval service or leaves it *)
(* alone.                                                                  *)
LEMMA StepOfApproval ==
  ASSUME WriteTypes, [Next]_vars
  PROVE  [ApprovalNext]_approvalVars
<1>1. ASSUME NEW w \in Workers, NEW c \in Clients, NEW a \in Accounts, NEW chat \in Chats,
             CallPrepare(w, c, a, chat)
      PROVE  [ApprovalNext]_approvalVars
  BY <1>1, WriteInvocation DEF CallPrepare, ApprovalNext
<1>2. ASSUME NEW w \in Workers, NEW c \in Clients, NEW id \in ActionIds, CallExecute(w, c, id)
      PROVE  [ApprovalNext]_approvalVars
  BY <1>2, ServedProfile DEF CallExecute, Dispatch, ApprovalNext
<1>3. ASSUME NEW w \in Workers, NEW c \in Clients, NEW a \in Accounts, NEW tool,
             NEW chat, CallRead(w, c, a, tool, chat)
      PROVE  UNCHANGED approvalVars
  BY <1>3 DEF CallRead
<1>4. ASSUME NEW w \in Workers, WorkerStep(w)
      PROVE  [ApprovalNext]_approvalVars
  BY <1>4 DEF WorkerStep, InsertPrepared, AnswerPrepared, SendMessage, AnswerExecuted,
              AnswerRead, ApprovalNext
<1>5. CASE Operator
  BY <1>5 DEF Operator, OperatorApprove, OperatorDeny, OperatorLockdown, ApprovalNext
<1>6. ASSUME NEW table, RestartHost(table) PROVE UNCHANGED approvalVars
  BY <1>6 DEF RestartHost
<1>7. CASE ClockMoves
  BY <1>7 DEF ClockMoves, ApprovalNext
<1>8. CASE UNCHANGED vars
  BY <1>8 DEF vars
<1> QED
  BY <1>1, <1>2, <1>3, <1>4, <1>5, <1>6, <1>7, <1>8 DEF Next, ClientCall

-----------------------------------------------------------------------------
(* The invariant holds at first. *)
LEMMA WritePathInit == Init => WritePathInv
<1> SUFFICES ASSUME Init PROVE WritePathInv
  OBVIOUS
<1>1. WriteTypes
  BY ApprovalInitType DEF Init, WriteTypes, Idle
<1>2. \A w \in Workers : ~Sending(w)
  BY DEF Init, Idle, Sending
<1>3. \A id \in ActionIds : Status(id) = "absent"
  BY DEF Init, ApprovalInit
<1> QED
  BY <1>1, <1>2, <1>3
     DEF Init, WritePathInv, ApprovedIsConsented, SendersHold, OneSender, SentWasTaken,
         LockdownIsFinal

LEMMA SenderType ==
  ASSUME call \in [Workers -> {Idle} \cup WriteCall \cup ReadCall], NEW w \in Workers,
         call[w].pc \in {"insert", "prepared", "send", "ok", "error"}
  PROVE  call[w] \in WriteCall
  BY DEF Idle, ReadCall

(* A sender keeps what it holds while it does not move itself. *)
LEMMA StillHolds ==
  ASSUME WritePathInv, [ApprovalNext]_approvalVars, UNCHANGED clients,
         consented \subseteq consented', NEW w \in Workers, Sending(w),
         call'[w] = call[w], sends'[call[w].id] = sends[call[w].id]
  PROVE  SenderHolds(w)'
<1>1. SenderHolds(w) /\ ApprovalTypeOK
  BY DEF WritePathInv, WriteTypes, SendersHold
<1>2. call[w].id \in ActionIds
  BY SenderType DEF WritePathInv, WriteTypes, Sending, WriteCall
<1>3. Status(call[w].id) = "executed" /\ Known(call[w].id)
  BY <1>1 DEF SenderHolds
<1>4. /\ Status(call[w].id)' = "executed"
      /\ actions'[call[w].id].client_id = actions[call[w].id].client_id
      /\ actions'[call[w].id].invocation = actions[call[w].id].invocation
  BY <1>1, <1>2, <1>3, ApprovalStepKeeps
<1> QED
  BY <1>1, <1>4 DEF SenderHolds

(* The steps that make nobody a sender and send nothing. *)
LEMMA NoNewSender ==
  ASSUME WritePathInv, [ApprovalNext]_approvalVars, UNCHANGED <<clients, sends>>,
         consented \subseteq consented',
         \A w \in Workers : Sending(w)' => Sending(w) /\ call'[w] = call[w]
  PROVE  SendersHold' /\ OneSender' /\ SentWasTaken'
<1>1. SendersHold'
  BY StillHolds DEF SendersHold
<1>2. OneSender'
  BY DEF OneSender, WritePathInv
<1>3. SentWasTaken'
  BY ApprovalStepKeeps DEF SentWasTaken, WritePathInv, WriteTypes
<1> QED
  BY <1>1, <1>2, <1>3

(* What is denied stays denied. *)
LEMMA StaysWithdrawn ==
  ASSUME WritePathInv, [ApprovalNext]_approvalVars, UNCHANGED withdrawn
  PROVE  LockdownIsFinal'
  BY ApprovalStepKeeps DEF WritePathInv, WriteTypes, LockdownIsFinal

(* The steps that touch no action at all. *)
LEMMA ActionsAlone ==
  ASSUME WritePathInv, UNCHANGED actions, UNCHANGED consented
  PROVE  ApprovedIsConsented'
  BY DEF WritePathInv, ApprovedIsConsented

(* Only one worker moves. *)
LEMMA OneWorker ==
  ASSUME WriteTypes, NEW w \in Workers, NEW state, Become(w, state)
  PROVE  call'[w] = state /\ \A v \in Workers \ {w} : call'[v] = call[v]
  BY DEF Become, WriteTypes

-----------------------------------------------------------------------------
(* One lemma per action. *)
LEMMA CallPrepareKeeps ==
  ASSUME WritePathInv, [ApprovalNext]_approvalVars, ApprovalTypeOK', NEW w \in Workers,
         NEW c \in Clients, NEW a \in Accounts, NEW chat \in Chats, CallPrepare(w, c, a, chat)
  PROVE  WritePathInv'
<1>1. UNCHANGED <<actions, clients, sends, consented, withdrawn>>
  BY DEF CallPrepare, Dispatch, PrepareStamp, approvalVars, historyVars
<1>2. UNCHANGED call \/ \E id \in ActionIds :
        Become(w, [pc |-> "insert", client |-> c, id |-> id])
  BY DEF CallPrepare
<1>3. call' \in [Workers -> {Idle} \cup WriteCall \cup ReadCall]
  BY <1>2 DEF WritePathInv, WriteTypes, Become, WriteCall
<1>4. \A v \in Workers : Sending(v)' => Sending(v) /\ call'[v] = call[v]
  <2>1. CASE UNCHANGED call
    BY <2>1 DEF Sending
  <2>2. ASSUME NEW id \in ActionIds, Become(w, [pc |-> "insert", client |-> c, id |-> id])
        PROVE  \A v \in Workers : Sending(v)' => v # w /\ call'[v] = call[v]
    <3>1. call'[w].pc = "insert"
      BY <2>2 DEF Become, WritePathInv, WriteTypes
    <3>2. \A v \in Workers \ {w} : call'[v] = call[v]
      BY <2>2 DEF Become, WritePathInv, WriteTypes
    <3> QED
      BY <3>1, <3>2 DEF Sending
  <2> QED
    BY <1>2, <2>1, <2>2 DEF Sending
<1>5. WriteTypes'
  BY <1>1, <1>3 DEF WritePathInv, WriteTypes
<1> QED
  BY <1>1, <1>4, <1>5, NoNewSender, StaysWithdrawn, ActionsAlone DEF WritePathInv

LEMMA InsertPreparedKeeps ==
  ASSUME WritePathInv, [ApprovalNext]_approvalVars, ApprovalTypeOK', NEW w \in Workers,
         InsertPrepared(w)
  PROVE  WritePathInv'
<1>1. UNCHANGED <<clients, sends, consented, withdrawn>>
  BY DEF InsertPrepared, historyVars
<1>2. Become(w, [call[w] EXCEPT !.pc = "prepared"]) /\ call[w] \in WriteCall
  BY SenderType DEF InsertPrepared, WritePathInv, WriteTypes
<1>3. call' \in [Workers -> {Idle} \cup WriteCall \cup ReadCall]
  BY <1>2 DEF WritePathInv, WriteTypes, Become, WriteCall
<1>4. \A v \in Workers : Sending(v)' => Sending(v) /\ call'[v] = call[v]
  BY <1>2, OneWorker DEF Sending, WritePathInv, WriteCall
<1>5. WriteTypes'
  BY <1>1, <1>3 DEF WritePathInv, WriteTypes
<1>6. ApprovedIsConsented'
  BY <1>1 DEF InsertPrepared, PrepareInsert, WritePathInv, WriteTypes, ApprovalTypeOK,
              ApprovedIsConsented
<1> QED
  BY <1>1, <1>4, <1>5, <1>6, NoNewSender, StaysWithdrawn DEF WritePathInv

(* The steps that end a call, or start a read. *)
LEMMA QuietKeeps ==
  ASSUME WritePathInv, [ApprovalNext]_approvalVars, ApprovalTypeOK', NEW w \in Workers,
         \/ AnswerPrepared(w) \/ AnswerExecuted(w) \/ AnswerRead(w)
         \/ \E c \in Clients, a \in Accounts, tool \in {ListChatsTool, GetMessagesTool},
               chat \in Chats \cup {NoChat} : CallRead(w, c, a, tool, chat)
  PROVE  WritePathInv'
<1>1. UNCHANGED <<actions, clients, sends, consented, withdrawn>>
  BY DEF AnswerPrepared, AnswerExecuted, AnswerRead, CallRead, Dispatch, approvalVars, historyVars
<1>2. UNCHANGED call \/ \E state \in {Idle} \cup ReadCall : Become(w, state)
  BY DEF AnswerPrepared, AnswerExecuted, AnswerRead, CallRead, ReadCall
<1>3. call' \in [Workers -> {Idle} \cup WriteCall \cup ReadCall]
  BY <1>2 DEF WritePathInv, WriteTypes, Become
<1>4. \A v \in Workers : Sending(v)' => Sending(v) /\ call'[v] = call[v]
  BY <1>2, OneWorker DEF Sending, WritePathInv, Idle, ReadCall
<1>5. WriteTypes'
  BY <1>1, <1>3 DEF WritePathInv, WriteTypes
<1> QED
  BY <1>1, <1>4, <1>5, NoNewSender, StaysWithdrawn, ActionsAlone DEF WritePathInv

(* A successful take makes a sender of an approved action: the lock of the *)
(* approval service is what makes it the only one.                         *)
LEMMA CallExecuteKeeps ==
  ASSUME WritePathInv, [ApprovalNext]_approvalVars, ApprovalTypeOK', NEW w \in Workers,
         NEW c \in Clients, NEW id \in ActionIds, CallExecute(w, c, id)
  PROVE  WritePathInv'
<1> DEFINE profile == clients[c]
           taken == TakeSucceeds(id, profile)
           next == IF taken THEN [pc |-> "send", client |-> c, id |-> id] ELSE Idle
<1>1. UNCHANGED <<clients, sends, consented, withdrawn>>
  BY DEF CallExecute, Dispatch, historyVars
<1>2. profile \in Profiles /\ profile # NoProfile
  BY ServedProfile DEF CallExecute, Dispatch, WritePathInv, Available
<1>3. Become(w, next) /\ Known(id) /\ ApprovalTypeOK /\ TakeApprovedForExecution(id, profile)
  BY DEF CallExecute, TakeApprovedForExecution, WritePathInv, WriteTypes
<1>4. FindAndExpire(id) \in PendingAction
  BY <1>3, FindAndExpireType
<1>5. \A i \in ActionIds \ {id} : actions'[i] = actions[i]
  BY <1>3 DEF TakeApprovedForExecution, ApprovalTypeOK
<1>6. Status(id)' = "approved" => Status(id) = "approved"
  BY <1>3, <1>4, FindAndExpireType DEF TakeApprovedForExecution, ApprovalTypeOK, PendingAction
<1>7. ApprovedIsConsented'
  BY <1>1, <1>5, <1>6 DEF ApprovedIsConsented, WritePathInv
<1>8. LockdownIsFinal'
  BY <1>1, StaysWithdrawn
<1>9. SentWasTaken'
  BY <1>1, ApprovalStepKeeps DEF SentWasTaken, WritePathInv, WriteTypes
<1>10. WriteTypes'
  <2>1. next \in {Idle} \cup WriteCall
    BY DEF WriteCall
  <2> HIDE DEF next
  <2>2. call' \in [Workers -> {Idle} \cup WriteCall \cup ReadCall]
    BY <1>3, <2>1 DEF WritePathInv, WriteTypes, Become
  <2> QED
    BY <1>1, <2>2 DEF WritePathInv, WriteTypes
<1>11. \A v \in Workers \ {w} : call'[v] = call[v]
  BY <1>3, OneWorker DEF WritePathInv
<1>12. \A v \in Workers \ {w} : Sending(v)' => SenderHolds(v)'
  BY <1>1, <1>11, StillHolds DEF Sending
<1>13. CASE taken
  <2>1. Status(id) = "approved" /\ Evaluate(profile, actions[id].invocation) # "deny"
        /\ actions[id].client_id = profile.id
    BY <1>3, <1>13, FindAndExpireType DEF TakeSucceeds, Takeable
  <2>2. /\ Status(id)' = "executed"
        /\ actions'[id].client_id = actions[id].client_id
        /\ actions'[id].invocation = actions[id].invocation
    <3>1. actions'[id] = [FindAndExpire(id) EXCEPT !.status = "executed"]
      BY <1>3, <1>13 DEF TakeApprovedForExecution, TakeSucceeds, ApprovalTypeOK
    <3>2. actions'[id] \in PendingAction
      BY <1>4, <3>1 DEF PendingAction, ActionStatus
    <3> QED
      BY <1>3, <1>4, <3>1, <3>2, FindAndExpireType, NoActionAssumption DEF PendingAction
  <2>3. profile.id = c
    BY <1>2 DEF WritePathInv, WriteTypes, ServedTables
  <2>4. sends[id] = 0
    BY <2>1 DEF WritePathInv, WriteTypes, SentWasTaken
  <2>5. call'[w] = [pc |-> "send", client |-> c, id |-> id]
    BY <1>3, <1>13, OneWorker DEF WritePathInv
  <2>6. SenderHolds(w)'
    BY <1>1, <1>2, <2>1, <2>2, <2>3, <2>4, <2>5
       DEF SenderHolds, WritePathInv, ApprovedIsConsented
  <2>7. \A v \in Workers : Sending(v) => call[v].id # id
    BY <2>1 DEF WritePathInv, SendersHold, SenderHolds
  <2>8. OneSender'
    BY <1>11, <2>5, <2>7 DEF OneSender, WritePathInv, Sending
  <2> QED
    BY <1>7, <1>8, <1>9, <1>10, <1>12, <2>6, <2>8 DEF WritePathInv, SendersHold
<1>14. CASE ~taken
  <2>1. ~Sending(w)'
    BY <1>3, <1>14, OneWorker DEF WritePathInv, Sending, Idle
  <2>2. SendersHold' /\ OneSender'
    BY <1>11, <1>12, <2>1 DEF SendersHold, OneSender, WritePathInv, Sending
  <2> QED
    BY <1>7, <1>8, <1>9, <1>10, <2>2 DEF WritePathInv
<1> QED
  BY <1>13, <1>14

LEMMA SendMessageKeeps ==
  ASSUME WritePathInv, [ApprovalNext]_approvalVars, ApprovalTypeOK', NEW w \in Workers,
         SendMessage(w)
  PROVE  WritePathInv'
<1>0. PICK id \in ActionIds : id = call[w].id
  BY SenderType DEF SendMessage, WritePathInv, WriteTypes, WriteCall
<1>1. UNCHANGED <<actions, clients, consented, withdrawn>>
      /\ sends' = [sends EXCEPT ![id] = @ + 1]
  BY <1>0 DEF SendMessage, approvalVars
<1>2. call[w] \in WriteCall /\ Sending(w) /\ id \in ActionIds
  BY SenderType DEF SendMessage, WritePathInv, WriteTypes, Sending
<1>3. PICK outcome \in {"ok", "error"} : Become(w, [call[w] EXCEPT !.pc = outcome])
  BY DEF SendMessage
<1>4. sends' \in [ActionIds -> Nat] /\ sends'[id] = 1 /\ Status(id)' = "executed"
  <2>1. SenderHolds(w) /\ sends \in [ActionIds -> Nat]
    BY <1>2 DEF WritePathInv, WriteTypes, SendersHold
  <2>2. sends[id] = 0 /\ Status(id) = "executed"
    BY <1>0, <2>1 DEF SenderHolds
  <2>3. Status(id)' = "executed"
    BY <1>1, <2>2
  <2> QED
    BY <1>1, <1>2, <2>1, <2>2, <2>3
<1>5. call' \in [Workers -> {Idle} \cup WriteCall \cup ReadCall]
  BY <1>2, <1>3 DEF WritePathInv, WriteTypes, Become, WriteCall
<1>6. WriteTypes'
  BY <1>1, <1>4, <1>5 DEF WritePathInv, WriteTypes
<1>7. ~Sending(w)' /\ \A v \in Workers \ {w} : call'[v] = call[v]
  BY <1>2, <1>3, OneWorker DEF WritePathInv, Sending, WriteCall
<1>8. \A v \in Workers : Sending(v)' => SenderHolds(v)'
  <2> SUFFICES ASSUME NEW v \in Workers, Sending(v)' PROVE SenderHolds(v)'
    OBVIOUS
  <2>1. v # w /\ Sending(v) /\ call'[v] = call[v]
    BY <1>7 DEF Sending
  <2>2. call[v].id # id
    BY <1>0, <1>2, <2>1 DEF WritePathInv, OneSender
  <2>3. sends'[call[v].id] = sends[call[v].id]
    BY <1>1, <2>2 DEF WritePathInv, WriteTypes
  <2> QED
    BY <1>1, <2>1, <2>3, StillHolds
<1>9. OneSender'
  BY <1>7 DEF OneSender, WritePathInv, Sending
<1>10. SentWasTaken'
  <2> SUFFICES ASSUME NEW i \in ActionIds
               PROVE  sends'[i] <= 1 /\ (sends'[i] > 0 => Status(i)' = "executed")
    BY DEF SentWasTaken
  <2>1. CASE i = id
    BY <1>4, <2>1
  <2>2. CASE i # id
    BY <1>1, <2>2 DEF SentWasTaken, WritePathInv, WriteTypes
  <2> QED
    BY <2>1, <2>2
<1> QED
  BY <1>1, <1>6, <1>8, <1>9, <1>10, StaysWithdrawn, ActionsAlone DEF WritePathInv, SendersHold

LEMMA OperatorKeeps ==
  ASSUME WritePathInv, [ApprovalNext]_approvalVars, ApprovalTypeOK', Operator
  PROVE  WritePathInv'
<1>1. UNCHANGED <<call, clients, sends>> /\ consented \subseteq consented'
  BY DEF Operator, OperatorApprove, OperatorDeny, OperatorLockdown, callVars, historyVars
<1>2. SendersHold' /\ OneSender' /\ SentWasTaken'
  BY <1>1, NoNewSender DEF Sending
<1>3. ASSUME NEW id \in ActionIds, NEW decision \in {"approved", "denied"},
             Decide(id, decision), UNCHANGED withdrawn,
             Status(id)' = "approved" => id \in consented'
      PROVE  WritePathInv'
  <2>1. \A i \in ActionIds \ {id} : Status(i)' = Status(i)
    BY <1>3 DEF Decide, WritePathInv, WriteTypes, ApprovalTypeOK
  <2>2. ApprovedIsConsented'
    BY <1>1, <1>3, <2>1 DEF WritePathInv, ApprovedIsConsented
  <2>3. WriteTypes'
    BY <1>1, <1>3 DEF WritePathInv, WriteTypes
  <2> QED
    BY <1>2, <1>3, <2>2, <2>3, StaysWithdrawn DEF WritePathInv
<1>4. ASSUME NEW id \in ActionIds, OperatorApprove(id) PROVE WritePathInv'
  BY <1>3, <1>4 DEF OperatorApprove, Approve
<1>5. ASSUME NEW id \in ActionIds, OperatorDeny(id) PROVE WritePathInv'
  <2>1. Known(id) /\ ApprovalTypeOK /\ Decide(id, "denied") /\ UNCHANGED <<withdrawn, consented>>
    BY <1>5 DEF OperatorDeny, Deny, Decide, historyVars, WritePathInv, WriteTypes
  <2>2. Status(id)' = "approved" => Status(id) = "approved"
    BY <2>1, FindAndExpireType DEF Decide, ApprovalTypeOK, PendingAction
  <2> QED
    BY <1>3, <2>1, <2>2 DEF WritePathInv, ApprovedIsConsented
<1>6. CASE OperatorLockdown
  <2>1. \A i \in ActionIds :
          Status(i)' = IF i \in OutstandingIds THEN "denied" ELSE Status(i)
    <3> TAKE i \in ActionIds
    <3>1. CASE i \in OutstandingIds
      <4>1. actions[i] \in PendingAction
        BY <3>1 DEF OutstandingIds, WritePathInv, WriteTypes, ApprovalTypeOK
      <4>2. actions'[i] = [actions[i] EXCEPT !.status = "denied"]
        BY <1>6, <3>1 DEF OperatorLockdown, Lockdown
      <4>3. actions'[i] \in PendingAction /\ actions'[i].status = "denied"
        BY <4>1, <4>2 DEF PendingAction, ActionStatus
      <4> QED
        BY <3>1, <4>3, NoActionAssumption
    <3>2. CASE i \notin OutstandingIds
      BY <1>6, <3>2 DEF OperatorLockdown, Lockdown
    <3> QED
      BY <3>1, <3>2
  <2>2. withdrawn' = withdrawn \cup OutstandingIds /\ UNCHANGED consented
    BY <1>6 DEF OperatorLockdown
  <2>3. ApprovedIsConsented'
    BY <2>1, <2>2 DEF WritePathInv, ApprovedIsConsented
  <2>4. WriteTypes'
    BY <1>1, <2>2 DEF WritePathInv, WriteTypes, OutstandingIds
  <2>5. LockdownIsFinal'
    BY <2>1, <2>2 DEF WritePathInv, WriteTypes, LockdownIsFinal, OutstandingIds
  <2> QED
    BY <1>2, <2>3, <2>4, <2>5 DEF WritePathInv
<1> QED
  BY <1>4, <1>5, <1>6 DEF Operator

(* A restart serves other profiles, but only to calls that start later.    *)
LEMMA RestartHostKeeps ==
  ASSUME WritePathInv, [ApprovalNext]_approvalVars, ApprovalTypeOK',
         NEW table \in ServedTables, RestartHost(table)
  PROVE  WritePathInv'
<1>1. UNCHANGED <<actions, call, sends, consented, withdrawn>> /\ clients' = table
  BY DEF RestartHost, approvalVars, historyVars
<1>2. \A w \in Workers : ~Sending(w)'
  BY <1>1 DEF RestartHost, Quiescent, Idle, Sending
<1>3. WriteTypes'
  BY <1>1 DEF WritePathInv, WriteTypes
<1>4. SendersHold' /\ OneSender' /\ SentWasTaken'
  BY <1>1, <1>2 DEF SendersHold, OneSender, SentWasTaken, WritePathInv
<1> QED
  BY <1>1, <1>3, <1>4, StaysWithdrawn, ActionsAlone DEF WritePathInv

LEMMA WritePathStep == WritePathInv /\ [Next]_vars => WritePathInv'
<1> SUFFICES ASSUME WritePathInv, [Next]_vars PROVE WritePathInv'
  OBVIOUS
<1>1. [ApprovalNext]_approvalVars
  BY StepOfApproval DEF WritePathInv
<1>2. ApprovalTypeOK'
  BY <1>1, ApprovalStepType DEF WritePathInv, WriteTypes
<1>3. ASSUME NEW w \in Workers, ClientCall(w) PROVE WritePathInv'
  BY <1>1, <1>2, <1>3, CallPrepareKeeps, CallExecuteKeeps, QuietKeeps DEF ClientCall
<1>4. ASSUME NEW w \in Workers, WorkerStep(w) PROVE WritePathInv'
  BY <1>1, <1>2, <1>4, InsertPreparedKeeps, SendMessageKeeps, QuietKeeps DEF WorkerStep
<1>5. CASE Operator
  BY <1>1, <1>2, <1>5, OperatorKeeps
<1>6. ASSUME NEW table \in ServedTables, RestartHost(table) PROVE WritePathInv'
  BY <1>1, <1>2, <1>6, RestartHostKeeps
<1>7. CASE ClockMoves \/ UNCHANGED vars
  <2>1. UNCHANGED <<actions, callVars, historyVars>>
    BY <1>7 DEF ClockMoves, TickClock, vars, approvalVars
  <2> QED
    BY <1>2, <2>1 DEF callVars, historyVars, WritePathInv, WriteTypes, ApprovedIsConsented,
       SendersHold, SenderHolds, Sending, OneSender, SentWasTaken, LockdownIsFinal
<1> QED
  BY <1>3, <1>4, <1>5, <1>6, <1>7 DEF Next

LEMMA WritePathCorrect == Spec => []WritePathInv
  BY WritePathInit, WritePathStep, PTL DEF Spec

-----------------------------------------------------------------------------
(* Telegram is asked to send an action at most once, however many clients  *)
(* present it on however many workers.                                     *)
THEOREM SingleUseHolds == Spec => []SingleUse
<1>1. WritePathInv => SingleUse
  BY DEF WritePathInv, SentWasTaken, SingleUse
<1> QED
  BY <1>1, WritePathCorrect, PTL

(* A message that goes out was approved by the operator and belongs to the *)
(* client that sends it.                                                   *)
THEOREM SendsAreConsentedHolds == Spec => []SendsAreConsented
<1>1. WritePathInv => SendsAreConsented
  BY DEF WritePathInv, SendersHold, SenderHolds, Sending, SendsAreConsented
<1> QED
  BY <1>1, WritePathCorrect, PTL

(* The profile served when a message goes out allows it.                   *)
THEOREM PolicyAtSendHolds == Spec => []PolicyAtSend
<1>1. WritePathInv => PolicyAtSend
  BY DEF WritePathInv, SendersHold, SenderHolds, Sending, PolicyAtSend
<1> QED
  BY <1>1, WritePathCorrect, PTL

(* Nothing a lockdown withdrew is ever approved or executed again.         *)
THEOREM LockdownIsFinalHolds == Spec => []LockdownIsFinal
<1>1. WritePathInv => LockdownIsFinal
  BY DEF WritePathInv
<1> QED
  BY <1>1, WritePathCorrect, PTL

-----------------------------------------------------------------------------
(* The use cases make no step the approval service was not proved for.     *)

(* Every behaviour of the use cases is one of the approval service with    *)
(* arbitrary callers, whatever workers, operator and host do.              *)
THEOREM CallersAreArbitrary == Spec => ApprovalSpec
<1>1. Init => ApprovalInit
  BY DEF Init
<1>2. WritePathInv /\ [Next]_vars => [ApprovalNext]_approvalVars
  BY StepOfApproval DEF WritePathInv
<1> QED
  BY <1>1, <1>2, WritePathCorrect, PTL DEF Spec, ApprovalSpec

(* The operator cannot approve an action whose time is over, however long  *)
(* the row was on the screen.                                              *)
THEOREM ApprovedInTimeHolds == Spec => ApprovedInTime
  BY CallersAreArbitrary, DecisionsAreTimely

-----------------------------------------------------------------------------
(* The use cases implement ActionLifecycle, the message included.          *)

(* Only SendMessage moves sends.                                           *)
LEMMA OthersSendNothing ==
  ASSUME [Next]_vars, \A w \in Workers : ~SendMessage(w)
  PROVE  UNCHANGED sends
<1>1. ASSUME NEW w \in Workers, ClientCall(w) PROVE UNCHANGED sends
  BY <1>1 DEF ClientCall, CallPrepare, CallExecute, CallRead, historyVars
<1>2. ASSUME NEW w \in Workers, WorkerStep(w) PROVE UNCHANGED sends
  BY <1>2 DEF WorkerStep, InsertPrepared, AnswerPrepared, AnswerExecuted, AnswerRead, historyVars
<1>3. CASE Operator
  BY <1>3 DEF Operator, OperatorApprove, OperatorDeny, OperatorLockdown, historyVars
<1>4. ASSUME NEW table \in ServedTables, RestartHost(table) PROVE UNCHANGED sends
  BY <1>4 DEF RestartHost, historyVars
<1>5. CASE ClockMoves \/ UNCHANGED vars
  BY <1>5 DEF ClockMoves, vars, historyVars
<1> QED
  BY <1>1, <1>2, <1>3, <1>4, <1>5 DEF Next

LEMMA SendDelivers ==
  ASSUME WritePathInv, NEW w \in Workers, SendMessage(w)
  PROVE  \E id \in ActionIds : Lifecycle!Deliver(id)
<1>1. call[w] \in WriteCall /\ Sending(w)
  BY SenderType DEF SendMessage, WritePathInv, WriteTypes, Sending
<1>2. PICK id \in ActionIds : id = call[w].id
  BY <1>1 DEF WriteCall
<1>3. Status(id) = "executed" /\ sends[id] = 0 /\ sends \in [ActionIds -> Nat]
  BY <1>1, <1>2 DEF WritePathInv, WriteTypes, SendersHold, SenderHolds
<1>4. sends' = [sends EXCEPT ![id] = 1] /\ UNCHANGED actions
  BY <1>2, <1>3 DEF SendMessage, approvalVars
<1> QED
  BY <1>3, <1>4 DEF Lifecycle!Deliver

(* The lifecycle of the approval service, with messages that stay put.     *)
LEMMA MovesAreMoves ==
  ASSUME [ApprovalLifecycle!LifecycleNext]_(ApprovalLifecycle!lifecycleVars), UNCHANGED sends
  PROVE  [Lifecycle!LifecycleNext]_(Lifecycle!lifecycleVars)
<1>1. ASSUME NEW id \in ActionIds, ApprovalLifecycle!Move(id) PROVE Lifecycle!Move(id)
  BY <1>1 DEF ApprovalLifecycle!Move, Lifecycle!Move, ApprovalLifecycle!States, Lifecycle!States,
     ApprovalLifecycle!Moves, Lifecycle!Moves
<1>2. ASSUME NEW id \in ActionIds, ApprovalLifecycle!Deliver(id) PROVE FALSE
  BY <1>2 DEF ApprovalLifecycle!Deliver
<1>3. ApprovalLifecycle!WithdrawAll => Lifecycle!WithdrawAll
  BY DEF ApprovalLifecycle!WithdrawAll, Lifecycle!WithdrawAll,
     ApprovalLifecycle!Outstanding, Lifecycle!Outstanding
<1>4. UNCHANGED ApprovalLifecycle!lifecycleVars => UNCHANGED Lifecycle!lifecycleVars
  BY DEF ApprovalLifecycle!lifecycleVars, Lifecycle!lifecycleVars
<1> QED
  BY <1>1, <1>2, <1>3, <1>4 DEF ApprovalLifecycle!LifecycleNext, Lifecycle!LifecycleNext

(* Every behaviour of the use cases is one of ActionLifecycle: an action   *)
(* is decided once, withdrawn for good, taken once, and its message        *)
(* reaches Telegram once and only then.                                    *)
THEOREM ActionLifecycleImplemented == Spec => ImplementsActionLifecycle
<1>1. Init => Lifecycle!LifecycleInit
  BY DEF Init, ApprovalInit, Lifecycle!LifecycleInit
<1>2. WritePathInv /\ [Next]_vars => [Lifecycle!LifecycleNext]_(Lifecycle!lifecycleVars)
  <2> SUFFICES ASSUME WritePathInv, [Next]_vars
               PROVE  [Lifecycle!LifecycleNext]_(Lifecycle!lifecycleVars)
    OBVIOUS
  <2>1. CASE \E w \in Workers : SendMessage(w)
    BY <2>1, SendDelivers DEF Lifecycle!LifecycleNext
  <2>2. CASE \A w \in Workers : ~SendMessage(w)
    <3>1. [ApprovalLifecycle!LifecycleNext]_(ApprovalLifecycle!lifecycleVars)
      BY StepOfApproval, StepMoves DEF WritePathInv, WriteTypes
    <3> QED
      BY <2>2, <3>1, OthersSendNothing, MovesAreMoves
  <2> QED
    BY <2>1, <2>2
<1> QED
  BY <1>1, <1>2, WritePathCorrect, PTL DEF Spec, ImplementsActionLifecycle, Lifecycle!LifecycleSpec

-----------------------------------------------------------------------------
(* What a worker reads the served profile allows, and get_messages reads a *)
(* chat that was named.                                                    *)
MayRead(state, table) ==
  /\ table[state.client] # NoProfile
  /\ table[state.client].enabled
  /\ state.tool = GetMessagesTool =>
       state.chat \in Chats /\ state.chat \in table[state.client].allowed_chats

ReadersMayRead == \A w \in Workers : call[w].pc = "read" => MayRead(call[w], clients)

LEMMA CallReadMayRead ==
  ASSUME NEW w, NEW c \in Clients, NEW a \in Accounts, NEW tool, NEW chat \in Chats \cup {NoChat},
         tool = GetMessagesTool => chat \in Chats,
         Dispatch(w, c, tool), Evaluate(clients[c], Invocation(tool, a, chat)) = "allow"
  PROVE  MayRead([pc |-> "read", client |-> c, tool |-> tool, chat |-> chat], clients)
  BY NoChatAssumption DEF MayRead, Dispatch, Available, Evaluate, Covers, Invocation

LEMMA ReadersMayReadStep == WritePathInv /\ ReadersMayRead /\ [Next]_vars => ReadersMayRead'
<1> SUFFICES ASSUME WritePathInv, ReadersMayRead, [Next]_vars PROVE ReadersMayRead'
  OBVIOUS
<1>1. ASSUME NEW w \in Workers, NEW state, Become(w, state), UNCHANGED clients,
             state.pc = "read" => MayRead(state, clients)
      PROVE  ReadersMayRead'
  BY <1>1, OneWorker DEF WritePathInv, ReadersMayRead
<1>2. ASSUME UNCHANGED <<call, clients>> PROVE ReadersMayRead'
  BY <1>2 DEF ReadersMayRead
<1>3. ASSUME NEW w \in Workers, ClientCall(w) PROVE ReadersMayRead'
  <2>1. ASSUME NEW c \in Clients, NEW a \in Accounts, NEW chat \in Chats, CallPrepare(w, c, a, chat)
        PROVE  ReadersMayRead'
    BY <1>1, <1>2, <2>1 DEF CallPrepare, Dispatch
  <2>2. ASSUME NEW c \in Clients, NEW id \in ActionIds, CallExecute(w, c, id) PROVE ReadersMayRead'
    <3> DEFINE state == IF TakeSucceeds(id, clients[c]) THEN [pc |-> "send", client |-> c, id |-> id] ELSE Idle
    <3>1. Become(w, state) /\ state.pc # "read" /\ UNCHANGED clients
      BY <2>2 DEF CallExecute, Dispatch, Idle
    <3> QED
      BY <1>1, <3>1
  <2>3. ASSUME NEW c \in Clients, NEW a \in Accounts, NEW tool \in {ListChatsTool, GetMessagesTool},
               NEW chat \in Chats \cup {NoChat}, tool = GetMessagesTool => chat \in Chats,
               CallRead(w, c, a, tool, chat)
        PROVE  ReadersMayRead'
    <3>1. Dispatch(w, c, tool) /\ UNCHANGED clients
      BY <2>3 DEF CallRead, Dispatch
    <3>2. CASE UNCHANGED call
      BY <1>2, <3>1, <3>2
    <3>3. CASE /\ Evaluate(clients[c], Invocation(tool, a, chat)) = "allow"
               /\ Become(w, [pc |-> "read", client |-> c, tool |-> tool, chat |-> chat])
      BY <1>1, <2>3, <3>1, <3>3, CallReadMayRead
    <3> QED
      BY <2>3, <3>2, <3>3 DEF CallRead
  <2> QED
    BY <1>3, <2>1, <2>2, <2>3 DEF ClientCall, ListChatsTool, GetMessagesTool
<1>4. ASSUME NEW w \in Workers, WorkerStep(w) PROVE ReadersMayRead'
  <2>1. CASE AnswerPrepared(w) \/ AnswerExecuted(w) \/ AnswerRead(w)
    BY <1>1, <2>1 DEF AnswerPrepared, AnswerExecuted, AnswerRead, Idle
  <2>2. CASE InsertPrepared(w) \/ SendMessage(w)
    <3>1. call[w] \in WriteCall
      BY <2>2, SenderType DEF InsertPrepared, SendMessage, WritePathInv, WriteTypes
    <3>2. PICK pc \in {"prepared", "ok", "error"} : Become(w, [call[w] EXCEPT !.pc = pc])
      BY <2>2 DEF InsertPrepared, SendMessage
    <3> QED
      BY <1>1, <2>2, <3>1, <3>2 DEF WriteCall, InsertPrepared, SendMessage
  <2> QED
    BY <1>4, <2>1, <2>2 DEF WorkerStep
<1>5. CASE Operator
  BY <1>2, <1>5 DEF Operator, OperatorApprove, OperatorDeny, OperatorLockdown, callVars
<1>6. ASSUME NEW table \in ServedTables, RestartHost(table) PROVE ReadersMayRead'
  BY <1>6 DEF RestartHost, Quiescent, Idle, ReadersMayRead
<1>7. CASE ClockMoves \/ UNCHANGED vars
  BY <1>2, <1>7 DEF ClockMoves, vars, callVars
<1> QED
  BY <1>3, <1>4, <1>5, <1>6, <1>7 DEF Next

LEMMA ReadersMayReadInit == Init => ReadersMayRead
  BY DEF Init, Idle, ReadersMayRead

(* A client gets content only in answer to a read of its own, while the    *)
(* profile served lists every chat it is shown in a list, whatever the     *)
(* port returned, or the chat it asked messages of                         *)
(* (TelegramApplicationService::list_chats, get_messages).                 *)
THEOREM ReadScopeHolds == Spec => ReadScope
<1> DEFINE Asked(w, chat) == IF call[w].tool = ListChatsTool THEN chat ELSE call[w].chat
           Step ==
             \A c \in Clients, chat \in Chats :
               (<<c, chat>> \in seen' \ seen) =>
                 /\ clients[c] # NoProfile
                 /\ clients[c].enabled
                 /\ \E w \in Workers :
                      /\ call[w].pc = "read" /\ call[w].client = c /\ call'[w] = Idle
                      /\ Asked(w, chat) \in clients[c].allowed_chats
<1>1. WritePathInv /\ ReadersMayRead /\ [Next]_vars => [Step]_vars
  <2> SUFFICES ASSUME WritePathInv, ReadersMayRead, Next, NEW c \in Clients, NEW chat \in Chats,
                      <<c, chat>> \in seen' \ seen
               PROVE  /\ clients[c] # NoProfile
                      /\ clients[c].enabled
                      /\ \E w \in Workers :
                           /\ call[w].pc = "read" /\ call[w].client = c /\ call'[w] = Idle
                           /\ Asked(w, chat) \in clients[c].allowed_chats
    OBVIOUS
  <2>1. PICK w \in Workers : AnswerRead(w)
    <3>1. ASSUME NEW w \in Workers, ClientCall(w) PROVE UNCHANGED seen
      BY <3>1 DEF ClientCall, CallPrepare, CallExecute, CallRead, historyVars
    <3>2. ASSUME NEW w \in Workers, WorkerStep(w), ~AnswerRead(w) PROVE UNCHANGED seen
      BY <3>2 DEF WorkerStep, InsertPrepared, AnswerPrepared, SendMessage, AnswerExecuted, historyVars
    <3>3. Operator => UNCHANGED seen
      BY DEF Operator, OperatorApprove, OperatorDeny, OperatorLockdown, historyVars
    <3>4. ASSUME NEW table, RestartHost(table) PROVE UNCHANGED seen
      BY <3>4 DEF RestartHost, historyVars
    <3>5. ClockMoves => UNCHANGED seen
      BY DEF ClockMoves, historyVars
    <3> QED
      BY <3>1, <3>2, <3>3, <3>4, <3>5 DEF Next
  <2>2. call[w] \in ReadCall /\ MayRead(call[w], clients)
    BY <2>1 DEF AnswerRead, WritePathInv, WriteTypes, WriteCall, Idle, ReadersMayRead
  <2>3. c = call[w].client /\ call[w].pc = "read"
    BY <2>1 DEF AnswerRead
  <2>4. call'[w] = Idle
    BY <2>1 DEF AnswerRead, Become, WritePathInv, WriteTypes
  <2>5. Asked(w, chat) \in clients[c].allowed_chats
    <3>1. CASE call[w].tool = ListChatsTool
      BY <2>1, <2>3, <3>1 DEF AnswerRead, Filtered
    <3>2. CASE call[w].tool = GetMessagesTool
      BY <2>2, <2>3, <3>2 DEF MayRead, ListChatsTool, GetMessagesTool
    <3> QED
      BY <2>2, <3>1, <3>2 DEF ReadCall
  <2> QED
    BY <2>2, <2>3, <2>4, <2>5 DEF MayRead
<1> QED
  BY <1>1, WritePathCorrect, ReadersMayReadInit, ReadersMayReadStep, PTL DEF Spec, ReadScope

-----------------------------------------------------------------------------
(* The rest of the type invariant.                                         *)
RecordTypes ==
  /\ audit \in Seq(AuditEntry)
  /\ lockdown_active \in BOOLEAN
  /\ calls \in 0..MaxCalls /\ restarts \in 0..MaxRestarts
  /\ disclosed \subseteq ActionIds /\ consented \subseteq ActionIds
  /\ seen \subseteq Clients \X Chats

LEMMA RecordType ==
  ASSUME RecordTypes, NEW c \in Clients, NEW tool \in Tools,
         NEW status \in {"denied", "error", "ok", "prepared"}, NEW id \in ActionIds \cup {NoId},
         Record(c, tool, status, id)
  PROVE  audit' \in Seq(AuditEntry)
<1>1. [client_id |-> c, tool_name |-> tool, result_status |-> status, action_id |-> id] \in AuditEntry
  BY DEF AuditEntry
<1> QED
  BY <1>1 DEF Record, RecordTypes

LEMMA DispatchType ==
  ASSUME RecordTypes, NEW w, NEW c, NEW tool, Dispatch(w, c, tool)
  PROVE  calls' \in 0..MaxCalls /\ UNCHANGED <<lockdown_active, restarts>>
  BY BoundsAssumption DEF Dispatch, RecordTypes

LEMMA RecordTypesStep ==
  WritePathInv /\ ReadersMayRead /\ RecordTypes /\ [Next]_vars => RecordTypes'
<1> SUFFICES ASSUME WritePathInv, ReadersMayRead, RecordTypes, [Next]_vars PROVE RecordTypes'
  OBVIOUS
<1>1. {ListChatsTool, GetMessagesTool, PrepareTool, ExecuteTool} \subseteq Tools
  BY DEF Tools
<1>2. ASSUME NEW w \in Workers, NEW c \in Clients, NEW a \in Accounts, NEW chat \in Chats,
             CallPrepare(w, c, a, chat)
      PROVE  RecordTypes'
  BY <1>1, <1>2, RecordType, DispatchType DEF CallPrepare, RecordTypes, historyVars
<1>3. ASSUME NEW w \in Workers, NEW c \in Clients, NEW id \in ActionIds, CallExecute(w, c, id)
      PROVE  RecordTypes'
  BY <1>3, DispatchType DEF CallExecute, RecordTypes, historyVars
<1>4. ASSUME NEW w \in Workers, NEW c \in Clients, NEW a \in Accounts, NEW tool \in Tools, NEW chat,
             CallRead(w, c, a, tool, chat)
      PROVE  RecordTypes'
  BY <1>4, RecordType, DispatchType DEF CallRead, RecordTypes, historyVars
<1>5. ASSUME NEW w \in Workers, InsertPrepared(w) \/ SendMessage(w) PROVE RecordTypes'
  BY <1>5 DEF InsertPrepared, SendMessage, RecordTypes, historyVars
<1>6. ASSUME NEW w \in Workers, AnswerPrepared(w) \/ AnswerExecuted(w) PROVE RecordTypes'
  <2>1. call[w].client \in Clients /\ call[w].id \in ActionIds
    BY <1>6, SenderType DEF AnswerPrepared, AnswerExecuted, WritePathInv, WriteTypes, WriteCall
  <2>2. audit' \in Seq(AuditEntry)
    BY <1>1, <1>6, <2>1, RecordType DEF AnswerPrepared, AnswerExecuted
  <2> QED
    BY <1>6, <2>1, <2>2 DEF AnswerPrepared, AnswerExecuted, RecordTypes, historyVars
<1>7. ASSUME NEW w \in Workers, AnswerRead(w) PROVE RecordTypes'
  <2>1. call[w] \in ReadCall
    BY <1>7 DEF AnswerRead, WritePathInv, WriteTypes, WriteCall, Idle
  <2>2. call[w].client \in Clients /\ call[w].tool \in Tools
    BY <1>1, <2>1 DEF ReadCall
  <2>3. audit' \in Seq(AuditEntry)
    BY <1>7, <2>2, RecordType DEF AnswerRead
  <2>4. seen' \subseteq Clients \X Chats
    <3>1. PICK chats \in SUBSET Chats : seen' = seen \/ seen' = seen \cup ({call[w].client} \X chats)
      <4>1. CASE call[w].tool = ListChatsTool
        BY <1>7, <4>1 DEF AnswerRead, Filtered
      <4>2. CASE call[w].tool # ListChatsTool
        BY <1>7, <4>2 DEF AnswerRead
      <4> QED
        BY <4>1, <4>2
    <3> QED
      BY <2>2, <3>1 DEF RecordTypes
  <2> QED
    BY <1>7, <2>3, <2>4 DEF AnswerRead, RecordTypes
<1>8. CASE Operator
  BY <1>8 DEF Operator, OperatorApprove, OperatorDeny, OperatorLockdown, RecordTypes, callVars, historyVars
<1>9. ASSUME NEW table \in ServedTables, RestartHost(table) PROVE RecordTypes'
  BY <1>9, BoundsAssumption DEF RestartHost, RecordTypes, historyVars
<1>10. CASE ClockMoves \/ UNCHANGED vars
  BY <1>10 DEF ClockMoves, vars, callVars, historyVars, RecordTypes
<1> QED
  BY <1>1, <1>2, <1>3, <1>4, <1>5, <1>6, <1>7, <1>8, <1>9, <1>10 DEF Next, ClientCall, WorkerStep

LEMMA RecordTypesInit == Init => RecordTypes
<1> SUFFICES ASSUME Init PROVE RecordTypes
  OBVIOUS
<1>1. audit \in Seq(AuditEntry)
  BY DEF Init
<1>2. calls \in 0..MaxCalls /\ restarts \in 0..MaxRestarts
  BY BoundsAssumption DEF Init
<1> QED
  BY <1>1, <1>2 DEF Init, RecordTypes

(* The use cases have their type; in particular the log names clients,     *)
(* tools and actions that exist.                                           *)
THEOREM ServiceTypeCorrect == Spec => []TypeOK
<1>1. WritePathInv /\ RecordTypes => TypeOK
  BY DEF WritePathInv, WriteTypes, RecordTypes, TypeOK
<1> QED
  BY <1>1, WritePathCorrect, ReadersMayReadInit, ReadersMayReadStep, RecordTypesInit, RecordTypesStep,
     PTL DEF Spec

-----------------------------------------------------------------------------
(* The audit log.  Clients learn the id of an action when it is logged.    *)
DisclosedAreLogged ==
  \A id \in ActionIds :
    /\ id \in disclosed <=> Trail(id) # {}
    /\ id \in disclosed => Known(id)

(* A worker that prepares has an action nobody else has and nobody knows   *)
(* the id of.                                                              *)
Preparing(w) == call[w].pc \in {"insert", "prepared"}

PreparersAreAlone ==
  /\ \A w \in Workers : Preparing(w) => call[w].id \notin disclosed
  /\ \A w \in Workers : call[w].pc = "insert" =>
       \E a \in preparing : a.id = call[w].id /\ a.client_id = call[w].client
  /\ \A w \in Workers : call[w].pc = "prepared" =>
       Known(call[w].id) /\ actions[call[w].id].client_id = call[w].client
  /\ \A v, w \in Workers : Preparing(v) /\ Preparing(w) /\ call[v].id = call[w].id => v = w

(* So has a worker that executes. *)
ExecutorsAreAlone ==
  \A id \in ActionIds :
    /\ \A w \in Workers : Executing(w, id) =>
         id \in disclosed /\ Status(id) = "executed" /\ actions[id].client_id = call[w].client
    /\ \A v, w \in Workers : Executing(v, id) /\ Executing(w, id) => v = w

StoryInv == AuditTellsTheStory /\ DisclosedAreLogged /\ PreparersAreAlone /\ ExecutorsAreAlone

(* The story of one action. *)
StoryOf(id) ==
  /\ \A k \in Trail(id) \ Outcomes(id) : audit[k].result_status = "prepared"
  /\ \A j, k \in Trail(id) : j < k => j \notin Outcomes(id) /\ k \in Outcomes(id)
  /\ \A k \in Outcomes(id) : \E j \in Trail(id) : j < k
  /\ Outcomes(id) # {} <=> /\ Status(id) = "executed"
                           /\ \A w \in Workers : ~Executing(w, id)
  /\ \A k \in Trail(id) : audit[k].client_id = actions[id].client_id

LEMMA StoryOfEach == AuditTellsTheStory <=> \A id \in ActionIds : StoryOf(id)
  BY DEF AuditTellsTheStory, StoryOf

(* What a step leaves of the entries about an action. *)
LogStays(id) ==
  /\ Trail(id)' = Trail(id)
  /\ Outcomes(id)' = Outcomes(id)
  /\ \A k \in Trail(id) : audit'[k] = audit[k]

LEMMA SameLogStays ==
  ASSUME UNCHANGED audit, NEW id PROVE LogStays(id)
  BY DEF LogStays, Trail, Outcomes

(* A recorded call is appended to the trail of its action, and to no other.*)
LEMMA TrailGrows ==
  ASSUME RecordTypes, NEW client, NEW tool, NEW status, NEW logged,
         Record(client, tool, status, logged), NEW id \in ActionIds
  PROVE  /\ logged # id => LogStays(id)
         /\ logged = id =>
              \E n \in Nat :
                /\ \A k \in Trail(id) : k \in Nat /\ k < n /\ audit'[k] = audit[k]
                /\ audit'[n].result_status = status /\ audit'[n].client_id = client
                /\ Trail(id)' = Trail(id) \cup {n}
                /\ Outcomes(id)' = IF status \in {"ok", "error"} THEN Outcomes(id) \cup {n}
                                                                 ELSE Outcomes(id)
<1> DEFINE n == Len(audit) + 1
           entry == [client_id |-> client, tool_name |-> tool,
                     result_status |-> status, action_id |-> logged]
<1>1. /\ Len(audit) \in Nat /\ n \in Nat
      /\ DOMAIN audit = 1..Len(audit)
      /\ audit' = Append(audit, entry)
  BY DEF RecordTypes, Record
<1>2. /\ DOMAIN audit' = (DOMAIN audit) \cup {n}
      /\ \A k \in DOMAIN audit : k \in Nat /\ k < n /\ audit'[k] = audit[k]
      /\ audit'[n] = entry
  BY <1>1 DEF RecordTypes
<1>3. entry.action_id = logged /\ entry.result_status = status /\ entry.client_id = client
  OBVIOUS
<1> HIDE DEF n, entry
<1>4. Trail(id)' = IF logged = id THEN Trail(id) \cup {n} ELSE Trail(id)
  BY <1>2, <1>3 DEF Trail
<1>5. n \notin Trail(id) /\ Trail(id) \subseteq DOMAIN audit
  BY <1>1, <1>2 DEF Trail
<1>6. Outcomes(id)' = IF logged = id /\ status \in {"ok", "error"}
                      THEN Outcomes(id) \cup {n} ELSE Outcomes(id)
  BY <1>2, <1>3, <1>4, <1>5 DEF Outcomes
<1> QED
  BY <1>1, <1>2, <1>3, <1>4, <1>5, <1>6 DEF LogStays

(* Only a successful take makes an action "executed". *)
LEMMA OthersExecuteNothing ==
  ASSUME ApprovalTypeOK, NEW id \in ActionIds,
         \/ UNCHANGED actions
         \/ \E i \in ActionIds : Approve(i) \/ Deny(i)
         \/ \E i \in ActionIds, profile \in Profiles :
              TakeApprovedForExecution(i, profile) /\ ~TakeSucceeds(i, profile)
         \/ \E action \in preparing : PrepareInsert(action)
         \/ Lockdown,
         Status(id)' = "executed"
  PROVE  Status(id) = "executed"
<1>1. ASSUME NEW i \in ActionIds, Known(i), NEW status \in {"approved", "denied"},
             \/ actions' = [actions EXCEPT ![i] = FindAndExpire(i)]
             \/ actions' = [actions EXCEPT ![i] = [FindAndExpire(i) EXCEPT !.status = status]]
      PROVE  Status(id) = "executed"
  <2>1. FindAndExpire(i) \in PendingAction /\ FindAndExpire(i).status \in {actions[i].status, "expired"}
    BY <1>1, FindAndExpireType DEF FindAndExpire, ApprovalTypeOK, PendingAction
  <2>2. [FindAndExpire(i) EXCEPT !.status = status].status = status
    BY <2>1 DEF PendingAction
  <2> QED
    BY <1>1, <2>1, <2>2, NoActionAssumption DEF ApprovalTypeOK
<1>2. ASSUME NEW i \in ActionIds, Approve(i) \/ Deny(i) PROVE Status(id) = "executed"
  BY <1>1, <1>2 DEF Approve, Deny, Decide
<1>3. ASSUME NEW i \in ActionIds, NEW profile \in Profiles,
             TakeApprovedForExecution(i, profile), ~TakeSucceeds(i, profile)
      PROVE  Status(id) = "executed"
  BY <1>1, <1>3 DEF TakeApprovedForExecution
<1>4. ASSUME NEW action \in preparing, PrepareInsert(action) PROVE Status(id) = "executed"
  BY <1>4 DEF PrepareInsert, ApprovalTypeOK, PendingAction
<1>5. CASE Lockdown
  BY <1>5 DEF Lockdown, OutstandingIds, ApprovalTypeOK, PendingAction
<1> QED
  BY <1>2, <1>3, <1>4, <1>5

(* The story of an action nothing happens to. *)
LEMMA StoryStays ==
  ASSUME StoryInv, ApprovalTypeOK, [ApprovalNext]_approvalVars, NEW id \in ActionIds,
         LogStays(id),
         Status(id)' = "executed" => Status(id) = "executed",
         \A w \in Workers : Executing(w, id)' <=> Executing(w, id)
  PROVE  StoryOf(id)'
<1>1. StoryOf(id)
  BY StoryOfEach DEF StoryInv
<1>2. Status(id) = "executed" => Status(id)' = "executed"
  BY ApprovalStepKeeps
<1>3. Trail(id) # {} => actions'[id].client_id = actions[id].client_id
  BY ApprovalStepKeeps DEF StoryInv, DisclosedAreLogged
<1>4. Outcomes(id) \subseteq Trail(id)
  BY DEF Outcomes
<1> QED
  BY <1>1, <1>2, <1>3, <1>4 DEF StoryOf, LogStays

(* A worker that goes on with what it did, or has nothing to do with       *)
(* actions before and after.                                               *)
Preparation == {"insert", "prepared"}
Execution == {"send", "ok", "error"}

SameWork(w) ==
  \/ call'[w] = call[w]
  \/ call[w].pc \notin Preparation \cup Execution /\ call'[w].pc \notin Preparation \cup Execution
  \/ /\ call[w].pc \in Execution /\ call'[w].pc \in Execution
     /\ call'[w].id = call[w].id /\ call'[w].client = call[w].client

LEMMA SameWorkExecutes ==
  ASSUME NEW w, NEW id, SameWork(w) PROVE Executing(w, id)' <=> Executing(w, id)
  BY DEF SameWork, Preparation, Execution, Executing

LEMMA SameWorkPrepares ==
  ASSUME NEW w, SameWork(w)
  PROVE  call'[w].pc \in Preparation => call'[w] = call[w]
  BY DEF SameWork, Preparation, Execution

LEMMA ActionOf ==
  ASSUME WriteTypes, NEW w \in Workers, call[w].pc \in Preparation \cup Execution
  PROVE  call[w].id \in ActionIds /\ call[w].client \in Clients
  BY SenderType DEF Preparation, Execution, WriteTypes, WriteCall

(* The steps that end or begin nobody's work on an action and write        *)
(* nothing about one.                                                      *)
LEMMA StoryFrame ==
  ASSUME StoryInv, WriteTypes, [ApprovalNext]_approvalVars, UNCHANGED disclosed,
         \A id \in ActionIds : LogStays(id),
         \A id \in ActionIds : Status(id)' = "executed" => Status(id) = "executed",
         \A w \in Workers : SameWork(w), preparing \subseteq preparing'
  PROVE  StoryInv'
<1>0. ApprovalTypeOK
  BY DEF WriteTypes
<1>1. AuditTellsTheStory'
  BY <1>0, StoryStays, SameWorkExecutes, StoryOfEach DEF AuditTellsTheStory, StoryOf
<1>2. DisclosedAreLogged'
  BY <1>0, ApprovalStepKeeps DEF DisclosedAreLogged, LogStays, StoryInv
<1>3. PreparersAreAlone'
  <2>1. \A w \in Workers : Preparing(w)' => Preparing(w) /\ call'[w] = call[w] /\ call[w].id \in ActionIds
    BY SameWorkPrepares, ActionOf DEF Preparing, Preparation
  <2>2. \A id \in ActionIds : Known(id) => Known(id)' /\ actions'[id].client_id = actions[id].client_id
    BY <1>0, ApprovalStepKeeps
  <2>3. PreparersAreAlone
    BY DEF StoryInv
  <2>4. \A w \in Workers : Preparing(w)' => call'[w].id \notin disclosed'
    BY <2>1, <2>3 DEF PreparersAreAlone
  <2>5. \A w \in Workers : call'[w].pc = "insert" =>
          \E a \in preparing' : a.id = call'[w].id /\ a.client_id = call'[w].client
    BY <2>1, <2>3 DEF PreparersAreAlone, Preparing
  <2>6. \A w \in Workers : call'[w].pc = "prepared" =>
          Known(call[w].id)' /\ call'[w] = call[w] /\ actions'[call[w].id].client_id = call[w].client
    BY <2>1, <2>2, <2>3 DEF PreparersAreAlone, Preparing
  <2>7. \A v, w \in Workers : Preparing(v)' /\ Preparing(w)' /\ call'[v].id = call'[w].id => v = w
    BY <2>1, <2>3 DEF PreparersAreAlone
  <2> QED
    BY <2>4, <2>5, <2>6, <2>7 DEF PreparersAreAlone
<1>4. ExecutorsAreAlone'
  <2>1. ASSUME NEW id \in ActionIds, NEW w \in Workers, Executing(w, id)'
        PROVE  id \in disclosed' /\ Status(id)' = "executed" /\ actions'[id].client_id = call'[w].client
    <3>1. Executing(w, id) /\ call'[w].client = call[w].client
      BY <2>1, SameWorkExecutes DEF SameWork, Executing, Preparation, Execution
    <3>2. id \in disclosed /\ Status(id) = "executed" /\ actions[id].client_id = call[w].client
      BY <3>1 DEF StoryInv, ExecutorsAreAlone
    <3> QED
      BY <1>0, <3>1, <3>2, ApprovalStepKeeps
  <2>2. \A id \in ActionIds, v, w \in Workers : Executing(v, id)' /\ Executing(w, id)' => v = w
    BY SameWorkExecutes DEF StoryInv, ExecutorsAreAlone
  <2> QED
    BY <2>1, <2>2 DEF ExecutorsAreAlone
<1> QED
  BY <1>1, <1>2, <1>3, <1>4 DEF StoryInv

-----------------------------------------------------------------------------
(* One lemma per step that begins or ends the work on an action.           *)
LEMMA StampKeepsStory ==
  ASSUME StoryInv, WriteTypes, [ApprovalNext]_approvalVars, UNCHANGED <<audit, disclosed>>,
         NEW w \in Workers, NEW c \in Clients, NEW invocation, NEW id \in ActionIds,
         call[w] = Idle, PrepareStamp(c, invocation, id),
         Become(w, [pc |-> "insert", client |-> c, id |-> id])
  PROVE  StoryInv'
<1>0. /\ UNCHANGED actions
      /\ ~Known(id)
      /\ \A a \in preparing : a.id # id
      /\ \E a \in preparing' : a.id = id /\ a.client_id = c
      /\ preparing \subseteq preparing'
  <2> DEFINE stamp == [id |-> id, client_id |-> c, invocation |-> invocation,
                       expires_at |-> system_clock + Lifetime, status |-> "pending"]
  <2>1. preparing' = preparing \cup {stamp} /\ stamp.id = id /\ stamp.client_id = c
    BY DEF PrepareStamp
  <2> HIDE DEF stamp
  <2> QED
    BY <2>1 DEF PrepareStamp
<1>1. /\ call'[w] = [pc |-> "insert", client |-> c, id |-> id]
      /\ \A v \in Workers \ {w} : call'[v] = call[v]
  BY OneWorker
<1>2. id \notin disclosed
  BY <1>0 DEF StoryInv, DisclosedAreLogged
<1>3. \A v \in Workers, i \in ActionIds : Executing(v, i)' <=> Executing(v, i)
  BY <1>1 DEF Executing, Idle
<1>4. \A i \in ActionIds : LogStays(i) /\ Status(i)' = Status(i)
  BY <1>0, SameLogStays
<1>5. AuditTellsTheStory'
  BY <1>3, <1>4, StoryStays DEF AuditTellsTheStory, StoryOf, WriteTypes
<1>6. DisclosedAreLogged'
  BY <1>0, <1>4 DEF DisclosedAreLogged, LogStays, StoryInv
<1>7. PreparersAreAlone'
  <2>1. PreparersAreAlone
    BY DEF StoryInv
  <2>2. \A v \in Workers \ {w} : Preparing(v) => call[v].id # id
    BY <1>0, <2>1 DEF PreparersAreAlone, Preparing
  <2>3. \A v \in Workers \ {w} : Preparing(v)' <=> Preparing(v)
    BY <1>1 DEF Preparing
  <2>4. \A v \in Workers : Preparing(v)' => call'[v].id \notin disclosed'
    BY <1>1, <1>2, <2>1, <2>3 DEF PreparersAreAlone
  <2>5. \A v \in Workers : call'[v].pc = "insert" =>
          \E a \in preparing' : a.id = call'[v].id /\ a.client_id = call'[v].client
    BY <1>0, <1>1, <2>1 DEF PreparersAreAlone
  <2>6. \A v \in Workers : call'[v].pc = "prepared" =>
          actions'[call'[v].id] # NoAction /\ actions'[call'[v].id].client_id = call'[v].client
    BY <1>0, <1>1, <2>1 DEF PreparersAreAlone
  <2>7. \A u, v \in Workers : Preparing(u)' /\ Preparing(v)' /\ call'[u].id = call'[v].id => u = v
    BY <1>1, <2>1, <2>2, <2>3 DEF PreparersAreAlone
  <2> QED
    BY <2>4, <2>5, <2>6, <2>7 DEF PreparersAreAlone
<1>8. ExecutorsAreAlone'
  <2>1. \A v \in Workers, i \in ActionIds : Executing(v, i) => call'[v] = call[v]
    BY <1>1 DEF Executing, Idle
  <2> QED
    BY <1>0, <1>3, <2>1 DEF StoryInv, ExecutorsAreAlone
<1> QED
  BY <1>5, <1>6, <1>7, <1>8 DEF StoryInv

LEMMA InsertKeepsStory ==
  ASSUME StoryInv, WriteTypes, [ApprovalNext]_approvalVars, NEW w \in Workers, InsertPrepared(w)
  PROVE  StoryInv'
<1> DEFINE id == call[w].id
<1>0. ApprovalTypeOK /\ PreparersAreAlone /\ UNCHANGED <<audit, disclosed>>
  BY DEF WriteTypes, StoryInv, InsertPrepared, historyVars
<1>1. PICK a \in preparing : a.id = id /\ PrepareInsert(a)
  BY DEF InsertPrepared
<1>2. call[w].pc = "insert" /\ call[w] \in WriteCall /\ id \in ActionIds
  BY SenderType DEF InsertPrepared, WriteTypes, WriteCall
<1>3. a.client_id = call[w].client /\ a.status = "pending" /\ ~Known(id) /\ a # NoAction
  <2>1. \E b \in preparing : b.id = id /\ b.client_id = call[w].client
    BY <1>0, <1>2 DEF PreparersAreAlone
  <2> QED
    BY <1>0, <1>1, <2>1, NoActionAssumption DEF ApprovalTypeOK
<1>4. /\ actions'[id] = a
      /\ \A i \in ActionIds \ {id} : actions'[i] = actions[i]
      /\ preparing' = preparing \ {a}
  BY <1>0, <1>1, <1>2 DEF PrepareInsert, ApprovalTypeOK
<1>5. /\ call'[w].pc = "prepared" /\ call'[w].id = id /\ call'[w].client = call[w].client
      /\ \A v \in Workers \ {w} : call'[v] = call[v]
  <2>1. Become(w, [call[w] EXCEPT !.pc = "prepared"])
    BY DEF InsertPrepared
  <2> QED
    BY <1>2, <2>1, OneWorker DEF WriteCall
<1> HIDE DEF id
<1>6. \A v \in Workers, i \in ActionIds : Executing(v, i)' <=> Executing(v, i)
  BY <1>2, <1>5 DEF Executing
<1>7. \A i \in ActionIds : LogStays(i) /\ (Status(i)' = "executed" => Status(i) = "executed")
  BY <1>0, <1>3, <1>4, SameLogStays
<1>8. AuditTellsTheStory'
  BY <1>0, <1>6, <1>7, StoryStays DEF AuditTellsTheStory, StoryOf
<1>9. DisclosedAreLogged'
  BY <1>0, <1>3, <1>4, <1>7 DEF DisclosedAreLogged, LogStays, StoryInv
<1>10. PreparersAreAlone'
  <2>1. \A v \in Workers : /\ Preparing(v)' <=> Preparing(v)
                           /\ call'[v].id = call[v].id /\ call'[v].client = call[v].client
    BY <1>2, <1>5 DEF Preparing, id
  <2>2. \A v \in Workers \ {w} : Preparing(v) => call[v].id # id
    BY <1>0, <1>2 DEF PreparersAreAlone, Preparing, id
  <2>3. \A v \in Workers : call'[v].pc = "insert" =>
          \E b \in preparing' : b.id = call'[v].id /\ b.client_id = call'[v].client
    BY <1>0, <1>1, <1>4, <1>5, <2>2 DEF PreparersAreAlone, Preparing
  <2>4. \A v \in Workers : call'[v].pc = "prepared" =>
          actions'[call'[v].id] # NoAction /\ actions'[call'[v].id].client_id = call'[v].client
    <3>1. ASSUME NEW v \in Workers \ {w}, call[v].pc = "prepared"
          PROVE  actions'[call[v].id] # NoAction /\ actions'[call[v].id].client_id = call[v].client
      <4>1. call[v].id \in ActionIds \ {id}
        BY <2>2, <3>1, ActionOf DEF Preparation, Preparing
      <4> QED
        BY <1>0, <1>4, <3>1, <4>1 DEF PreparersAreAlone
    <3> QED
      BY <1>3, <1>4, <1>5, <3>1
  <2> QED
    BY <1>0, <2>1, <2>3, <2>4 DEF PreparersAreAlone
<1>11. ExecutorsAreAlone'
  <2>1. ASSUME NEW v \in Workers, NEW i \in ActionIds, Executing(v, i)
        PROVE  /\ call'[v] = call[v] /\ i # id
               /\ i \in disclosed /\ Status(i) = "executed" /\ actions[i].client_id = call[v].client
    BY <1>2, <1>3, <1>5, <2>1 DEF Executing, StoryInv, ExecutorsAreAlone
  <2> QED
    BY <1>0, <1>4, <1>6, <2>1 DEF StoryInv, ExecutorsAreAlone
<1> QED
  BY <1>8, <1>9, <1>10, <1>11 DEF StoryInv

(* The id is told to the client at the moment it gets into the log.        *)
LEMMA AnswerPreparedKeepsStory ==
  ASSUME StoryInv, WriteTypes, RecordTypes, [ApprovalNext]_approvalVars,
         NEW w \in Workers, AnswerPrepared(w)
  PROVE  StoryInv'
<1>a. PICK id \in ActionIds : id = call[w].id
  BY ActionOf DEF AnswerPrepared, Preparation
<1>0. /\ ApprovalTypeOK /\ PreparersAreAlone /\ ExecutorsAreAlone /\ DisclosedAreLogged
      /\ UNCHANGED <<actions, preparing>>
      /\ disclosed' = disclosed \cup {id}
      /\ Record(call[w].client, PrepareTool, "prepared", id)
  BY <1>a DEF WriteTypes, StoryInv, AnswerPrepared, approvalVars
<1>1. call[w].pc = "prepared"
  BY DEF AnswerPrepared
<1>2. id \notin disclosed /\ Known(id) /\ actions[id].client_id = call[w].client
  BY <1>0, <1>1, <1>a DEF PreparersAreAlone, Preparing
<1>3. call'[w] = Idle /\ \A v \in Workers \ {w} : call'[v] = call[v]
  BY OneWorker DEF AnswerPrepared
<1>4. \A v \in Workers, i \in ActionIds : Executing(v, i)' <=> Executing(v, i)
  BY <1>1, <1>3 DEF Executing, Idle
<1>5. \A v \in Workers : Preparing(v)' => Preparing(v) /\ call'[v] = call[v] /\ v # w
  BY <1>3 DEF Preparing, Idle
<1>6. \A i \in ActionIds \ {id} : LogStays(i)
  BY <1>0, TrailGrows
<1>7. StoryOf(id)' /\ Trail(id)' # {}
  <2>1. Trail(id) = {} /\ Outcomes(id) = {} /\ \A v \in Workers : ~Executing(v, id)
    BY <1>0, <1>1, <1>2 DEF DisclosedAreLogged, Outcomes, ExecutorsAreAlone
  <2>2. Status(id) # "executed"
    BY <1>1, <2>1, StoryOfEach DEF StoryInv, StoryOf
  <2>3. PICK n \in Nat : /\ audit'[n].result_status = "prepared" /\ audit'[n].client_id = call[w].client
                         /\ Trail(id)' = {n} /\ Outcomes(id)' = {}
    BY <1>0, <1>1, <2>1, TrailGrows
  <2> QED
    BY <1>0, <1>1, <1>2, <1>4, <2>1, <2>2, <2>3 DEF StoryOf
<1>8. AuditTellsTheStory'
  <2>1. \A i \in ActionIds : Status(i)' = Status(i)
    BY <1>0
  <2>2. \A i \in ActionIds \ {id} : StoryOf(i)'
    BY <1>0, <1>4, <1>6, <2>1, StoryStays
  <2> QED
    BY <1>7, <2>2 DEF AuditTellsTheStory, StoryOf
<1>9. DisclosedAreLogged'
  BY <1>0, <1>2, <1>6, <1>7 DEF DisclosedAreLogged, LogStays
<1>10. PreparersAreAlone'
  <2>1. \A v \in Workers : Preparing(v)' => call'[v].id \notin disclosed'
    BY <1>a, <1>0, <1>1, <1>5 DEF PreparersAreAlone, Preparing
  <2>2. \A v \in Workers : call'[v].pc \in {"insert", "prepared"} => call'[v] = call[v]
    BY <1>5 DEF Preparing
  <2> QED
    BY <1>0, <1>5, <2>1, <2>2 DEF PreparersAreAlone
<1>11. ExecutorsAreAlone'
  <2>1. \A v \in Workers, i \in ActionIds : Executing(v, i) => call'[v] = call[v]
    BY <1>1, <1>3 DEF Executing
  <2> QED
    BY <1>0, <1>4, <2>1 DEF ExecutorsAreAlone
<1> QED
  BY <1>8, <1>9, <1>10, <1>11 DEF StoryInv

(* A successful take: the only worker that works on the action now.        *)
LEMMA TakeKeepsStory ==
  ASSUME StoryInv, WriteTypes, [ApprovalNext]_approvalVars, UNCHANGED <<audit, disclosed>>,
         NEW w \in Workers, NEW c \in Clients, NEW id \in ActionIds, NEW profile \in Profiles,
         profile.id = c, call[w] = Idle, id \in disclosed,
         TakeApprovedForExecution(id, profile), TakeSucceeds(id, profile),
         Become(w, [pc |-> "send", client |-> c, id |-> id])
  PROVE  StoryInv'
<1>0. /\ ApprovalTypeOK /\ PreparersAreAlone /\ ExecutorsAreAlone /\ DisclosedAreLogged
      /\ preparing' = preparing
      /\ Known(id) /\ Takeable(id, profile)
      /\ actions' = [actions EXCEPT ![id] = [FindAndExpire(id) EXCEPT !.status = "executed"]]
  BY DEF WriteTypes, StoryInv, TakeApprovedForExecution, TakeSucceeds
<1>1. FindAndExpire(id) \in PendingAction /\ FindAndExpire(id) = actions[id]
      /\ actions[id].status = "approved" /\ actions[id].client_id = c
  BY <1>0, FindAndExpireType DEF FindAndExpire, Takeable, ApprovalTypeOK, PendingAction
<1>2. /\ Status(id) = "approved" /\ Status(id)' = "executed"
      /\ actions'[id].client_id = c /\ Known(id)'
      /\ \A i \in ActionIds \ {id} : actions'[i] = actions[i]
  <2>1. [FindAndExpire(id) EXCEPT !.status = "executed"] \in PendingAction
    BY <1>1 DEF PendingAction, ActionStatus
  <2> QED
    BY <1>0, <1>1, <2>1, NoActionAssumption DEF ApprovalTypeOK, PendingAction
<1>3. /\ call'[w] = [pc |-> "send", client |-> c, id |-> id]
      /\ \A v \in Workers \ {w} : call'[v] = call[v]
  BY OneWorker
<1>4. /\ \A v \in Workers : ~Executing(v, id)
      /\ \A v \in Workers : Executing(v, id)' <=> v = w
      /\ \A v \in Workers, i \in ActionIds \ {id} : Executing(v, i)' <=> Executing(v, i)
      /\ \A v \in Workers : Preparing(v)' => Preparing(v) /\ call'[v] = call[v]
  BY <1>0, <1>2, <1>3 DEF Executing, Preparing, Idle, ExecutorsAreAlone
<1>5. \A i \in ActionIds : LogStays(i)
  BY SameLogStays
<1>6. StoryOf(id)'
  <2>1. StoryOf(id) /\ Outcomes(id) \subseteq Trail(id)
    BY StoryOfEach DEF StoryInv, Outcomes
  <2>2. Outcomes(id) = {}
    BY <1>2, <2>1 DEF StoryOf
  <2> QED
    BY <1>1, <1>2, <1>4, <1>5, <2>1, <2>2 DEF StoryOf, LogStays
<1>7. AuditTellsTheStory'
  <2>1. \A i \in ActionIds \ {id} : StoryOf(i)'
    BY <1>0, <1>2, <1>4, <1>5, StoryStays
  <2> QED
    BY <1>6, <2>1 DEF AuditTellsTheStory, StoryOf
<1>8. DisclosedAreLogged'
  BY <1>0, <1>2, <1>5 DEF DisclosedAreLogged, LogStays
<1>9. PreparersAreAlone'
  <2>1. \A v \in Workers : call'[v].pc \in {"insert", "prepared"} => call'[v] = call[v]
    BY <1>4 DEF Preparing
  <2>2. \A v \in Workers : call'[v].pc = "prepared" =>
          actions'[call'[v].id] # NoAction /\ actions'[call'[v].id].client_id = call'[v].client
    BY <1>0, <1>2, <2>1, ActionOf DEF PreparersAreAlone, Preparing, Preparation
  <2>3. \A v \in Workers : Preparing(v)' => call'[v].id \notin disclosed'
    BY <1>0, <1>4 DEF PreparersAreAlone
  <2>4. \A u, v \in Workers : Preparing(u)' /\ Preparing(v)' /\ call'[u].id = call'[v].id => u = v
    BY <1>0, <1>4 DEF PreparersAreAlone
  <2> QED
    BY <1>0, <2>1, <2>2, <2>3, <2>4 DEF PreparersAreAlone
<1>10. ExecutorsAreAlone'
  <2>1. \A v \in Workers, i \in ActionIds \ {id} : Executing(v, i) => call'[v] = call[v]
    BY <1>3 DEF Executing, Idle
  <2> QED
    BY <1>0, <1>2, <1>3, <1>4, <2>1 DEF ExecutorsAreAlone
<1> QED
  BY <1>7, <1>8, <1>9, <1>10 DEF StoryInv

(* The outcome gets into the log when the worker lets go of the action.    *)
LEMMA AnswerExecutedKeepsStory ==
  ASSUME StoryInv, WriteTypes, RecordTypes, [ApprovalNext]_approvalVars,
         NEW w \in Workers, AnswerExecuted(w)
  PROVE  StoryInv'
<1>a. PICK id \in ActionIds : id = call[w].id
  BY ActionOf DEF AnswerExecuted, Execution
<1>0. /\ ApprovalTypeOK /\ PreparersAreAlone /\ ExecutorsAreAlone /\ DisclosedAreLogged
      /\ UNCHANGED <<actions, preparing, disclosed>>
      /\ Record(call[w].client, PrepareTool, call[w].pc, id)
  BY <1>a DEF WriteTypes, StoryInv, AnswerExecuted, approvalVars, historyVars
<1>1. call[w].pc \in {"ok", "error"} /\ Executing(w, id)
  BY <1>a DEF AnswerExecuted, Executing
<1>2. /\ id \in disclosed /\ Status(id) = "executed" /\ actions[id].client_id = call[w].client
      /\ \A v \in Workers : Executing(v, id) => v = w
  BY <1>0, <1>1 DEF ExecutorsAreAlone
<1>3. call'[w] = Idle /\ \A v \in Workers \ {w} : call'[v] = call[v]
  BY OneWorker DEF AnswerExecuted
<1>4. /\ \A v \in Workers : ~Executing(v, id)'
      /\ \A v \in Workers, i \in ActionIds \ {id} : Executing(v, i)' <=> Executing(v, i)
      /\ \A v \in Workers : Preparing(v)' => Preparing(v) /\ call'[v] = call[v]
  BY <1>a, <1>1, <1>2, <1>3 DEF Executing, Preparing, Idle
<1>5. \A i \in ActionIds \ {id} : LogStays(i)
  BY <1>0, TrailGrows
<1>6. StoryOf(id)' /\ Trail(id)' # {}
  <2>1. StoryOf(id) /\ Outcomes(id) = {} /\ Trail(id) # {}
    BY <1>0, <1>1, <1>2, StoryOfEach DEF StoryInv, StoryOf, DisclosedAreLogged
  <2>2. PICK n \in Nat : /\ \A k \in Trail(id) : k \in Nat /\ k < n /\ audit'[k] = audit[k]
                         /\ audit'[n].client_id = call[w].client
                         /\ Trail(id)' = Trail(id) \cup {n} /\ Outcomes(id)' = {n}
    BY <1>0, <1>1, <2>1, TrailGrows
  <2>3. \A j, k \in Trail(id) : ~(j < k)
    BY <2>1 DEF StoryOf
  <2>4. n \notin Trail(id)
    BY <2>2
  <2>5. \A k \in Trail(id) : audit'[k].result_status = "prepared" /\ audit'[k].client_id = actions[id].client_id
    BY <2>1, <2>2 DEF StoryOf
  <2> QED
    BY <1>0, <1>2, <1>4, <2>1, <2>2, <2>3, <2>4, <2>5 DEF StoryOf
<1>7. AuditTellsTheStory'
  <2>1. \A i \in ActionIds : Status(i)' = Status(i)
    BY <1>0
  <2>2. \A i \in ActionIds \ {id} : StoryOf(i)'
    BY <1>0, <1>4, <1>5, <2>1, StoryStays
  <2> QED
    BY <1>6, <2>2 DEF AuditTellsTheStory, StoryOf
<1>8. DisclosedAreLogged'
  BY <1>0, <1>2, <1>5, <1>6 DEF DisclosedAreLogged, LogStays
<1>9. PreparersAreAlone'
  <2>1. \A v \in Workers : call'[v].pc \in {"insert", "prepared"} => call'[v] = call[v]
    BY <1>4 DEF Preparing
  <2> QED
    BY <1>0, <1>4, <2>1 DEF PreparersAreAlone
<1>10. ExecutorsAreAlone'
  <2>1. \A v \in Workers, i \in ActionIds \ {id} : Executing(v, i) => call'[v] = call[v]
    BY <1>a, <1>3 DEF Executing
  <2> QED
    BY <1>0, <1>4, <2>1 DEF ExecutorsAreAlone
<1> QED
  BY <1>7, <1>8, <1>9, <1>10 DEF StoryInv

(* Records without action id, and steps that record nothing. *)
LEMMA OtherRecords ==
  ASSUME RecordTypes, NEW id \in ActionIds,
         UNCHANGED audit \/ \E c, tool, status : Record(c, tool, status, NoId)
  PROVE  LogStays(id)
  BY SameLogStays, TrailGrows, NullsAssumption

LEMMA StoryInvStep ==
  WritePathInv /\ RecordTypes /\ StoryInv /\ [Next]_vars => StoryInv'
<1> SUFFICES ASSUME WritePathInv, RecordTypes, StoryInv, [Next]_vars PROVE StoryInv'
  OBVIOUS
<1>0. WriteTypes /\ [ApprovalNext]_approvalVars /\ ApprovalTypeOK
  BY StepOfApproval DEF WritePathInv, WriteTypes
<1>1. ASSUME UNCHANGED disclosed, \A id \in ActionIds : LogStays(id),
             \A w \in Workers : SameWork(w), preparing \subseteq preparing',
             \/ UNCHANGED actions
             \/ \E i \in ActionIds : Approve(i) \/ Deny(i)
             \/ \E i \in ActionIds, profile \in Profiles :
                  TakeApprovedForExecution(i, profile) /\ ~TakeSucceeds(i, profile)
             \/ Lockdown
      PROVE  StoryInv'
  <2>1. \A id \in ActionIds : Status(id)' = "executed" => Status(id) = "executed"
    BY <1>0, <1>1, OthersExecuteNothing
  <2> QED
    BY <1>0, <1>1, <2>1, StoryFrame
<1>2. ASSUME UNCHANGED call PROVE \A w \in Workers : SameWork(w)
  BY <1>2 DEF SameWork
<1>3. ASSUME NEW w \in Workers, NEW state, Become(w, state),
             call[w].pc \notin Preparation \cup Execution, state.pc \notin Preparation \cup Execution
      PROVE  \A v \in Workers : SameWork(v)
  BY <1>0, <1>3, OneWorker DEF SameWork
<1>4. ASSUME NEW w \in Workers, NEW c \in Clients, NEW a \in Accounts, NEW chat \in Chats,
             CallPrepare(w, c, a, chat)
      PROVE  StoryInv'
  <2>1. CASE Record(c, PrepareTool, "denied", NoId) /\ UNCHANGED <<approvalVars, call>>
    BY <1>1, <1>2, <1>4, <2>1, OtherRecords DEF CallPrepare, historyVars, approvalVars
  <2>2. CASE /\ UNCHANGED audit
             /\ \E id \in ActionIds :
                  /\ PrepareStamp(c, Invocation(PrepareTool, a, chat), id)
                  /\ Become(w, [pc |-> "insert", client |-> c, id |-> id])
    BY <1>0, <1>4, <2>2, StampKeepsStory DEF CallPrepare, Dispatch, historyVars
  <2> QED
    BY <1>4, <2>1, <2>2 DEF CallPrepare
<1>5. ASSUME NEW w \in Workers, NEW c \in Clients, NEW id \in ActionIds, CallExecute(w, c, id)
      PROVE  StoryInv'
  <2>0. /\ clients[c] \in Profiles /\ clients[c].id = c /\ call[w] = Idle /\ id \in disclosed
        /\ UNCHANGED <<audit, disclosed, preparing>>
        /\ TakeApprovedForExecution(id, clients[c])
    BY <1>0, <1>5, ServedProfile DEF CallExecute, Dispatch, historyVars, TakeApprovedForExecution
  <2>1. CASE TakeSucceeds(id, clients[c])
    <3>1. Become(w, [pc |-> "send", client |-> c, id |-> id])
      BY <1>5, <2>1 DEF CallExecute
    <3> QED
      BY <1>0, <2>0, <2>1, <3>1, TakeKeepsStory
  <2>2. CASE ~TakeSucceeds(id, clients[c])
    <3>1. Become(w, Idle)
      BY <1>5, <2>2 DEF CallExecute
    <3>2. \A v \in Workers : SameWork(v)
      BY <1>3, <2>0, <3>1 DEF Idle, Preparation, Execution
    <3> QED
      BY <1>1, <2>0, <2>2, <3>2, OtherRecords
  <2> QED
    BY <2>1, <2>2
<1>6. ASSUME NEW w \in Workers, NEW c \in Clients, NEW a \in Accounts, NEW tool, NEW chat,
             CallRead(w, c, a, tool, chat)
      PROVE  StoryInv'
  <2>1. /\ UNCHANGED <<actions, preparing, disclosed>> /\ call[w] = Idle
        /\ UNCHANGED audit \/ Record(c, tool, "denied", NoId)
        /\ UNCHANGED call \/ Become(w, [pc |-> "read", client |-> c, tool |-> tool, chat |-> chat])
    BY <1>6 DEF CallRead, Dispatch, approvalVars, historyVars
  <2>2. \A v \in Workers : SameWork(v)
    BY <1>2, <1>3, <2>1 DEF Idle, Preparation, Execution
  <2> QED
    BY <1>1, <2>1, <2>2, OtherRecords
<1>7. ASSUME NEW w \in Workers, AnswerRead(w) PROVE StoryInv'
  <2>1. /\ UNCHANGED <<actions, preparing, disclosed>> /\ call[w].pc = "read"
        /\ \E c, tool, status : Record(c, tool, status, NoId)
        /\ Become(w, Idle)
    BY <1>7 DEF AnswerRead, approvalVars
  <2>2. \A v \in Workers : SameWork(v)
    BY <1>3, <2>1 DEF Idle, Preparation, Execution
  <2> QED
    BY <1>1, <2>1, <2>2, OtherRecords
<1>8. ASSUME NEW w \in Workers, SendMessage(w) PROVE StoryInv'
  <2>1. /\ UNCHANGED <<actions, preparing, disclosed, audit>> /\ call[w] \in WriteCall
        /\ call[w].pc = "send"
    BY <1>0, <1>8, SenderType DEF SendMessage, approvalVars, WriteTypes
  <2>2. PICK outcome \in {"ok", "error"} : Become(w, [call[w] EXCEPT !.pc = outcome])
    BY <1>8 DEF SendMessage
  <2>3. \A v \in Workers : SameWork(v)
    BY <1>0, <2>1, <2>2, OneWorker DEF SameWork, WriteCall, Execution
  <2> QED
    BY <1>1, <2>1, <2>3, OtherRecords
<1>9. ASSUME NEW w \in Workers, WorkerStep(w) PROVE StoryInv'
  BY <1>0, <1>7, <1>8, <1>9, InsertKeepsStory, AnswerPreparedKeepsStory, AnswerExecutedKeepsStory
     DEF WorkerStep
<1>10. CASE Operator
  <2>1. UNCHANGED <<disclosed, audit, call, preparing>>
    BY <1>10 DEF Operator, OperatorApprove, OperatorDeny, OperatorLockdown, callVars, historyVars,
                 Approve, Deny, Decide, Lockdown
  <2>2. Lockdown \/ \E i \in ActionIds : Approve(i) \/ Deny(i)
    BY <1>10 DEF Operator, OperatorApprove, OperatorDeny, OperatorLockdown
  <2> QED
    BY <1>1, <1>2, <2>1, <2>2, OtherRecords
<1>11. ASSUME NEW table, RestartHost(table) PROVE StoryInv'
  BY <1>1, <1>2, <1>11, OtherRecords DEF RestartHost, approvalVars, historyVars
<1>12. CASE ClockMoves \/ UNCHANGED vars
  BY <1>1, <1>2, <1>12, OtherRecords
     DEF ClockMoves, TickClock, vars, approvalVars, callVars, historyVars
<1> QED
  BY <1>4, <1>5, <1>6, <1>9, <1>10, <1>11, <1>12 DEF Next, ClientCall

(* The audit log tells the story of each action: prepared once, before its *)
(* outcome; an outcome exactly when a taken action is finished; all under  *)
(* the name of the client that prepared it - for any number of workers.    *)
THEOREM AuditTellsTheStoryHolds == Spec => []AuditTellsTheStory
<1>1. Init => StoryInv
  <2> SUFFICES ASSUME Init PROVE StoryInv
    OBVIOUS
  <2>1. \A id \in ActionIds : /\ Trail(id) = {} /\ Outcomes(id) = {} /\ Status(id) = "absent"
                              /\ id \notin disclosed
    BY DEF Init, ApprovalInit, Trail, Outcomes
  <2>2. \A w \in Workers : call[w].pc = "idle"
    BY DEF Init, Idle
  <2>3. AuditTellsTheStory
    BY <2>1 DEF AuditTellsTheStory
  <2> QED
    BY <2>1, <2>2, <2>3
       DEF StoryInv, DisclosedAreLogged, PreparersAreAlone, ExecutorsAreAlone, Preparing, Executing
<1>2. StoryInv => AuditTellsTheStory
  BY DEF StoryInv
<1> QED
  BY <1>1, <1>2, WritePathCorrect, ReadersMayReadInit, ReadersMayReadStep, RecordTypesInit,
     RecordTypesStep, StoryInvStep, PTL DEF Spec
=============================================================================
