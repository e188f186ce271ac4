----------------------- MODULE ApprovalServiceProofs -----------------------
(***************************************************************************)
(* Theorems about the policy decision, for every profile and invocation,   *)
(* and about the approval service, for every set of clients, actions,      *)
(* profiles and clock readings.                                            *)
(***************************************************************************)
EXTENDS ApprovalService, TLAPS

-----------------------------------------------------------------------------
(* How much a decision grants: nothing, a request for consent, everything. *)
Grants(effect) ==
  IF effect = "allow" THEN 2 ELSE IF effect = "require_approval" THEN 1 ELSE 0

WriteGrants(policy) ==
  IF policy = "auto_approve" THEN 2 ELSE IF policy = "require_approval" THEN 1 ELSE 0

(* Profile p grants no more than profile q, list by list.                  *)
Narrower(p, q) ==
  /\ p.enabled => q.enabled
  /\ p.allowed_accounts \subseteq q.allowed_accounts
  /\ p.allowed_tools \subseteq q.allowed_tools
  /\ p.allowed_chats \subseteq q.allowed_chats
  /\ WriteGrants(p.write_policy) <= WriteGrants(q.write_policy)

LEMMA NarrowerCoversLess ==
  ASSUME NEW p \in McpClientProfile, NEW q \in McpClientProfile,
         NEW invocation \in ToolInvocation, Narrower(p, q), Covers(p, invocation)
  PROVE  Covers(q, invocation)
  BY DEF Narrower, Covers, McpClientProfile, ToolInvocation

LEMMA WriteDecision ==
  ASSUME NEW p \in McpClientProfile, NEW invocation \in ToolInvocation,
         Covers(p, invocation), invocation.is_write
  PROVE  Grants(Evaluate(p, invocation)) = WriteGrants(p.write_policy)
  BY DEF Evaluate, Grants, WriteGrants, McpClientProfile, WritePolicy

(* Taking rights from a profile - switching it off, shortening an allow    *)
(* list, tightening the write policy - never turns a denial into a grant   *)
(* nor a request for consent into a permission: what an action was         *)
(* prepared under can only be reduced when execution re-evaluates it.      *)
THEOREM NarrowingNeverGrants ==
  ASSUME NEW p \in McpClientProfile, NEW q \in McpClientProfile,
         NEW invocation \in ToolInvocation, Narrower(p, q)
  PROVE  Grants(Evaluate(p, invocation)) <= Grants(Evaluate(q, invocation))
<1>1. CASE ~Covers(p, invocation)
  <2>1. Evaluate(p, invocation) = "deny"
    BY <1>1 DEF Evaluate
  <2> QED
    BY <2>1 DEF Grants
<1>2. CASE Covers(p, invocation) /\ ~invocation.is_write
  <2>1. Evaluate(p, invocation) = "allow" /\ Evaluate(q, invocation) = "allow"
    BY <1>2, NarrowerCoversLess DEF Evaluate, ToolInvocation
  <2> QED
    BY <2>1 DEF Grants
<1>3. CASE Covers(p, invocation) /\ invocation.is_write
  <2>1. Covers(q, invocation)
    BY <1>3, NarrowerCoversLess
  <2>2. /\ Grants(Evaluate(p, invocation)) = WriteGrants(p.write_policy)
        /\ Grants(Evaluate(q, invocation)) = WriteGrants(q.write_policy)
    BY <1>3, <2>1, WriteDecision
  <2> QED
    BY <2>2 DEF Narrower
<1> QED
  BY <1>1, <1>2, <1>3 DEF ToolInvocation

(* Default deny: a decision other than deny needs an enabled profile that  *)
(* lists the account, the tool and - if there is one - the chat, and for a *)
(* write also a write policy other than deny.                              *)
(* (docs/architecture.md, security invariant 1; PolicyEngine.cpp:13-41)    *)
THEOREM DefaultDeny ==
  ASSUME NEW p \in McpClientProfile, NEW invocation \in ToolInvocation,
         Evaluate(p, invocation) # "deny"
  PROVE  /\ p.enabled
         /\ invocation.account_id \in p.allowed_accounts
         /\ invocation.tool_name \in p.allowed_tools
         /\ invocation.chat_id \in p.allowed_chats \cup {NoChat}
         /\ invocation.is_write => p.write_policy # "deny"
<1>1. Covers(p, invocation)
  BY DEF Evaluate
<1>2. invocation.is_write => p.write_policy # "deny"
  BY <1>1 DEF Evaluate
<1> QED
  BY <1>1, <1>2 DEF Covers

-----------------------------------------------------------------------------
(* The approval service.                                                   *)
USE DEF Known, Status

(* What find_and_expire_locked returns for an entry of the map. *)
LEMMA FindAndExpireType ==
  ASSUME ApprovalTypeOK, NEW id \in ActionIds, Known(id)
  PROVE  /\ FindAndExpire(id) \in PendingAction
         /\ FindAndExpire(id).id = id
         /\ FindAndExpire(id).status \in {actions[id].status, "expired"}
         /\ FindAndExpire(id).status # actions[id].status => actions[id].status = "pending"
         /\ FindAndExpire(id).client_id = actions[id].client_id
         /\ FindAndExpire(id).invocation = actions[id].invocation
  BY DEF FindAndExpire, ApprovalTypeOK, PendingAction, ActionStatus

(* The operations on one known action rewrite its entry, status only. *)
LEMMA EntryRewritten ==
  ASSUME ApprovalTypeOK, NEW id \in ActionIds, Known(id),
         NEW status \in ActionStatus,
         NEW entry \in {FindAndExpire(id), [FindAndExpire(id) EXCEPT !.status = status]},
         actions' = [actions EXCEPT ![id] = entry],
         UNCHANGED <<preparing, system_clock>>
  PROVE  ApprovalTypeOK'
<1>1. entry \in PendingAction /\ entry.id = id
  BY FindAndExpireType DEF PendingAction
<1>2. actions' \in [ActionIds -> PendingAction \cup {NoAction}]
  BY <1>1 DEF ApprovalTypeOK
<1>3. \A i \in ActionIds : Known(i)' => actions'[i].id = i
  BY <1>1 DEF ApprovalTypeOK
<1>4. \A action \in preparing' : action.status = "pending" /\ ~Known(action.id)'
  BY DEF ApprovalTypeOK, PendingAction
<1> QED
  BY <1>2, <1>3, <1>4 DEF ApprovalTypeOK

LEMMA ApprovalInitType == ApprovalInit => ApprovalTypeOK
  BY TimesAssumption DEF ApprovalInit, ApprovalTypeOK

LEMMA PrepareStampType ==
  ASSUME ApprovalTypeOK, NEW id \in ActionIds, NEW client \in Clients,
         NEW invocation \in ToolInvocation, PrepareStamp(client, invocation, id)
  PROVE  ApprovalTypeOK'
<1> DEFINE stamped == [id |-> id, client_id |-> client, invocation |-> invocation,
                       expires_at |-> system_clock + Lifetime, status |-> "pending"]
<1>1. stamped \in PendingAction
  BY TimesAssumption DEF ApprovalTypeOK, PendingAction, ActionStatus
<1>2. preparing' = preparing \cup {stamped} /\ UNCHANGED <<actions, system_clock>>
  BY DEF PrepareStamp
<1>3. \A action \in preparing' : action.status = "pending" /\ ~Known(action.id)'
  BY <1>2 DEF ApprovalTypeOK, PrepareStamp
<1>4. \A a, b \in preparing' : a.id = b.id => a = b
  BY <1>2 DEF ApprovalTypeOK, PrepareStamp
<1> QED
  BY <1>1, <1>2, <1>3, <1>4 DEF ApprovalTypeOK

LEMMA PrepareInsertType ==
  ASSUME ApprovalTypeOK, NEW action \in preparing, PrepareInsert(action)
  PROVE  ApprovalTypeOK'
<1>1. action \in PendingAction /\ action.id \in ActionIds
  BY DEF ApprovalTypeOK, PendingAction
<1>2. /\ preparing' = preparing \ {action}
      /\ actions' = [actions EXCEPT ![action.id] = action]
      /\ UNCHANGED system_clock
  BY DEF PrepareInsert
<1>3. actions' \in [ActionIds -> PendingAction \cup {NoAction}]
  BY <1>1, <1>2 DEF ApprovalTypeOK
<1>4. \A i \in ActionIds : Known(i)' => actions'[i].id = i
  BY <1>1, <1>2 DEF ApprovalTypeOK
<1>5. \A other \in preparing' : other.status = "pending" /\ ~Known(other.id)'
  BY <1>1, <1>2 DEF ApprovalTypeOK, PendingAction
<1> QED
  BY <1>2, <1>3, <1>4, <1>5 DEF ApprovalTypeOK

LEMMA DecideType ==
  ASSUME ApprovalTypeOK, NEW id \in ActionIds,
         NEW decision \in {"approved", "denied"}, Decide(id, decision)
  PROVE  ApprovalTypeOK'
<1> DEFINE action == FindAndExpire(id)
           entry == IF action.status = "pending" THEN [action EXCEPT !.status = decision]
                                                 ELSE action
<1>1. Known(id) /\ actions' = [actions EXCEPT ![id] = entry]
      /\ UNCHANGED <<preparing, system_clock>>
  BY DEF Decide
<1>2. entry \in {FindAndExpire(id), [FindAndExpire(id) EXCEPT !.status = decision]}
  OBVIOUS
<1>3. decision \in ActionStatus
  BY DEF ActionStatus
<1> HIDE DEF entry
<1> QED
  BY <1>1, <1>2, <1>3, EntryRewritten

LEMMA TakeType ==
  ASSUME ApprovalTypeOK, NEW id \in ActionIds, NEW profile \in Profiles,
         TakeApprovedForExecution(id, profile)
  PROVE  ApprovalTypeOK'
<1> DEFINE action == FindAndExpire(id)
           status == IF TakeSucceeds(id, profile) THEN "executed" ELSE "denied"
           entry == IF ~Takeable(id, profile) THEN action
                    ELSE [action EXCEPT !.status = status]
<1>1. Known(id) /\ actions' = [actions EXCEPT ![id] = entry]
      /\ UNCHANGED <<preparing, system_clock>>
  BY DEF TakeApprovedForExecution
<1>2. entry \in {FindAndExpire(id), [FindAndExpire(id) EXCEPT !.status = status]}
  OBVIOUS
<1>3. status \in ActionStatus
  BY DEF ActionStatus
<1> HIDE DEF entry, status
<1> QED
  BY <1>1, <1>2, <1>3, EntryRewritten

LEMMA LockdownType ==
  ASSUME ApprovalTypeOK, Lockdown
  PROVE  ApprovalTypeOK'
<1>1. \A i \in OutstandingIds : actions[i] \in PendingAction /\ actions[i].id = i
  BY DEF OutstandingIds, ApprovalTypeOK
<1>2. \A i \in OutstandingIds : /\ [actions[i] EXCEPT !.status = "denied"] \in PendingAction
                                /\ [actions[i] EXCEPT !.status = "denied"].id = i
  BY <1>1 DEF PendingAction, ActionStatus
<1>3. actions' \in [ActionIds -> PendingAction \cup {NoAction}]
  BY <1>2 DEF Lockdown, ApprovalTypeOK
<1>4. \A i \in ActionIds : Known(i)' => actions'[i].id = i
  BY <1>2 DEF Lockdown, ApprovalTypeOK
<1>5. \A action \in preparing' : action.status = "pending" /\ ~Known(action.id)'
  BY DEF Lockdown, ApprovalTypeOK, PendingAction, OutstandingIds
<1> QED
  BY <1>3, <1>4, <1>5 DEF ApprovalTypeOK, Lockdown

LEMMA ApprovalStepType ==
  ApprovalTypeOK /\ [ApprovalNext]_approvalVars => ApprovalTypeOK'
<1> SUFFICES ASSUME ApprovalTypeOK, [ApprovalNext]_approvalVars PROVE ApprovalTypeOK'
  OBVIOUS
<1>1. ASSUME NEW id \in ActionIds, NEW client \in Clients, NEW invocation \in WriteInvocations,
             PrepareStamp(client, invocation, id)
      PROVE  ApprovalTypeOK'
  BY <1>1, PrepareStampType DEF WriteInvocations
<1>2. ASSUME NEW action \in preparing, PrepareInsert(action) PROVE ApprovalTypeOK'
  BY <1>2, PrepareInsertType
<1>3. ASSUME NEW id \in ActionIds, Approve(id) \/ Deny(id) PROVE ApprovalTypeOK'
  BY <1>3, DecideType DEF Approve, Deny
<1>4. ASSUME NEW id \in ActionIds, NEW profile \in Profiles, TakeApprovedForExecution(id, profile)
      PROVE  ApprovalTypeOK'
  BY <1>4, TakeType
<1>5. CASE Lockdown
  BY <1>5, LockdownType
<1>6. CASE TickClock
  BY <1>6, TimesAssumption DEF TickClock, ApprovalTypeOK
<1>7. CASE UNCHANGED approvalVars
  BY <1>7 DEF approvalVars, ApprovalTypeOK
<1> QED
  BY <1>1, <1>2, <1>3, <1>4, <1>5, <1>6, <1>7 DEF ApprovalNext

(* The map and the actions in preparation keep their types and stay        *)
(* disjoint, and an entry carries the id it is filed under.                *)
THEOREM ApprovalTypeCorrect == ApprovalSpec => []ApprovalTypeOK
  BY ApprovalInitType, ApprovalStepType, PTL DEF ApprovalSpec

-----------------------------------------------------------------------------
(* The service implements ActionLifecycle: the status of every action      *)
(* moves as the lifecycle allows.                                          *)

USE DEF ApprovalLifecycle!States, ApprovalLifecycle!Outstanding, ApprovalLifecycle!Moves

StatusOf == [i \in ActionIds |-> Status(i)]

LEMMA StatusType == ApprovalTypeOK => StatusOf \in [ActionIds -> ApprovalLifecycle!States]
  BY DEF ApprovalTypeOK, StatusOf, PendingAction, ActionStatus

(* A step that rewrites one entry is a move of that action or none. *)
LEMMA OneMove ==
  ASSUME ApprovalTypeOK, NEW id \in ActionIds,
         \A i \in ActionIds \ {id} : Status(i)' = Status(i),
         <<Status(id), Status(id)'>> \in ApprovalLifecycle!Moves \/ Status(id)' = Status(id)
  PROVE  [ApprovalLifecycle!LifecycleNext]_(ApprovalLifecycle!lifecycleVars)
<1>1. StatusOf' = [StatusOf EXCEPT ![id] = Status(id)']
  BY DEF StatusOf
<1>2. CASE Status(id)' = Status(id)
  <2>1. StatusOf' = StatusOf
    BY <1>2 DEF StatusOf
  <2> QED
    BY <2>1 DEF ApprovalLifecycle!lifecycleVars, StatusOf
<1>3. CASE <<Status(id), Status(id)'>> \in ApprovalLifecycle!Moves
  <2>1. Status(id)' \in ApprovalLifecycle!States /\ StatusOf[id] = Status(id)
    BY <1>3 DEF StatusOf
  <2>2. ApprovalLifecycle!Move(id)
    BY <1>1, <1>3, <2>1 DEF ApprovalLifecycle!Move, StatusOf
  <2> QED
    BY <2>2 DEF ApprovalLifecycle!LifecycleNext
<1> QED
  BY <1>2, <1>3

LEMMA DecideMoves ==
  ASSUME ApprovalTypeOK, NEW id \in ActionIds,
         NEW decision \in {"approved", "denied"}, Decide(id, decision)
  PROVE  [ApprovalLifecycle!LifecycleNext]_(ApprovalLifecycle!lifecycleVars)
<1>1. FindAndExpire(id) \in PendingAction
  BY FindAndExpireType DEF Decide
<1>2. <<Status(id), Status(id)'>> \in ApprovalLifecycle!Moves \/ Status(id)' = Status(id)
  BY <1>1, NoActionAssumption DEF Decide, FindAndExpire, ApprovalTypeOK, PendingAction, ActionStatus
<1>3. \A i \in ActionIds \ {id} : Status(i)' = Status(i)
  BY DEF Decide, ApprovalTypeOK
<1> QED
  BY <1>2, <1>3, OneMove

LEMMA TakeMoves ==
  ASSUME ApprovalTypeOK, NEW id \in ActionIds, NEW profile \in Profiles,
         TakeApprovedForExecution(id, profile)
  PROVE  [ApprovalLifecycle!LifecycleNext]_(ApprovalLifecycle!lifecycleVars)
<1>1. FindAndExpire(id) \in PendingAction
  BY FindAndExpireType DEF TakeApprovedForExecution
<1>2. <<Status(id), Status(id)'>> \in ApprovalLifecycle!Moves \/ Status(id)' = Status(id)
  BY <1>1, NoActionAssumption
     DEF TakeApprovedForExecution, Takeable, FindAndExpire, ApprovalTypeOK, PendingAction, ActionStatus
<1>3. \A i \in ActionIds \ {id} : Status(i)' = Status(i)
  BY DEF TakeApprovedForExecution, ApprovalTypeOK
<1> QED
  BY <1>2, <1>3, OneMove

LEMMA PrepareInsertMoves ==
  ASSUME ApprovalTypeOK, NEW action \in preparing, PrepareInsert(action)
  PROVE  [ApprovalLifecycle!LifecycleNext]_(ApprovalLifecycle!lifecycleVars)
<1>1. action \in PendingAction /\ action.id \in ActionIds /\ action.status = "pending"
      /\ ~Known(action.id)
  BY DEF ApprovalTypeOK, PendingAction
<1>2. Status(action.id) = "absent" /\ Status(action.id)' = "pending"
  BY <1>1, NoActionAssumption DEF PrepareInsert, ApprovalTypeOK
<1>3. \A i \in ActionIds \ {action.id} : Status(i)' = Status(i)
  BY DEF PrepareInsert, ApprovalTypeOK
<1> QED
  BY <1>1, <1>2, <1>3, OneMove

LEMMA LockdownWithdraws ==
  ASSUME ApprovalTypeOK, Lockdown
  PROVE  ApprovalLifecycle!WithdrawAll
<1>1. \A i \in ActionIds :
        Status(i)' = IF Status(i) \in {"pending", "approved"} THEN "denied" ELSE Status(i)
  <2> TAKE i \in ActionIds
  <2>1. CASE i \in OutstandingIds
    <3>1. actions[i] \in PendingAction
      BY <2>1 DEF OutstandingIds, ApprovalTypeOK
    <3>2. actions'[i] = [actions[i] EXCEPT !.status = "denied"]
      BY <2>1 DEF Lockdown
    <3>3. actions'[i] \in PendingAction /\ actions'[i].status = "denied"
      BY <3>1, <3>2 DEF PendingAction, ActionStatus
    <3> QED
      BY <2>1, <3>3, NoActionAssumption DEF OutstandingIds
  <2>2. CASE i \notin OutstandingIds
    BY <2>2 DEF Lockdown, OutstandingIds
  <2> QED
    BY <2>1, <2>2
<1> QED
  BY <1>1 DEF ApprovalLifecycle!WithdrawAll

(* The steps that leave the map alone. *)
LEMMA MapUnchanged ==
  UNCHANGED actions => UNCHANGED ApprovalLifecycle!lifecycleVars
  BY DEF ApprovalLifecycle!lifecycleVars

LEMMA StepMoves ==
  ApprovalTypeOK /\ [ApprovalNext]_approvalVars =>
    [ApprovalLifecycle!LifecycleNext]_(ApprovalLifecycle!lifecycleVars)
<1> SUFFICES ASSUME ApprovalTypeOK, [ApprovalNext]_approvalVars
             PROVE  [ApprovalLifecycle!LifecycleNext]_(ApprovalLifecycle!lifecycleVars)
  OBVIOUS
<1>1. ASSUME NEW id \in ActionIds, NEW client \in Clients, NEW invocation \in WriteInvocations,
             PrepareStamp(client, invocation, id)
      PROVE  UNCHANGED ApprovalLifecycle!lifecycleVars
  BY <1>1, MapUnchanged DEF PrepareStamp
<1>2. ASSUME NEW action \in preparing, PrepareInsert(action)
      PROVE  [ApprovalLifecycle!LifecycleNext]_(ApprovalLifecycle!lifecycleVars)
  BY <1>2, PrepareInsertMoves
<1>3. ASSUME NEW id \in ActionIds, Approve(id) \/ Deny(id)
      PROVE  [ApprovalLifecycle!LifecycleNext]_(ApprovalLifecycle!lifecycleVars)
  BY <1>3, DecideMoves DEF Approve, Deny
<1>4. ASSUME NEW id \in ActionIds, NEW profile \in Profiles, TakeApprovedForExecution(id, profile)
      PROVE  [ApprovalLifecycle!LifecycleNext]_(ApprovalLifecycle!lifecycleVars)
  BY <1>4, TakeMoves
<1>5. CASE Lockdown
  BY <1>5, LockdownWithdraws DEF ApprovalLifecycle!LifecycleNext
<1>6. CASE TickClock \/ UNCHANGED approvalVars
  BY <1>6, MapUnchanged DEF TickClock, approvalVars
<1> QED
  BY <1>1, <1>2, <1>3, <1>4, <1>5, <1>6 DEF ApprovalNext

(* Every behaviour of the service is one of ActionLifecycle.               *)
THEOREM LifecycleImplemented == ApprovalSpec => ImplementsLifecycle
<1>1. ApprovalInit => ApprovalLifecycle!LifecycleInit
  BY DEF ApprovalInit, ApprovalLifecycle!LifecycleInit
<1> QED
  BY <1>1, ApprovalTypeCorrect, StepMoves, PTL
     DEF ApprovalSpec, ImplementsLifecycle, ApprovalLifecycle!LifecycleSpec

-----------------------------------------------------------------------------
LEMMA ApprovalIsTimely ==
  ASSUME ApprovalTypeOK, [ApprovalNext]_approvalVars, NEW id \in ActionIds,
         Status(id) # "approved", Status(id)' = "approved"
  PROVE  system_clock < actions[id].expires_at
<1>1. ASSUME NEW i \in ActionIds, Approve(i) PROVE system_clock < actions[id].expires_at
  <2>1. i = id
    BY <1>1 DEF Approve, Decide, ApprovalTypeOK
  <2>2. actions[id] \in PendingAction /\ system_clock \in Nat
    BY <1>1, <2>1 DEF Approve, Decide, ApprovalTypeOK
  <2>3. FindAndExpire(id).status = "pending" \/ FindAndExpire(id).status = "approved"
    BY <1>1, <2>1 DEF Approve, Decide, ApprovalTypeOK
  <2>4. FindAndExpire(id).status = "pending" /\ ~IsExpired(actions[id])
    BY <1>1, <2>1, <2>2, <2>3 DEF FindAndExpire, Approve, Decide, PendingAction, ActionStatus
  <2> QED
    BY <2>2, <2>4 DEF IsExpired, PendingAction
<1>2. ASSUME NEW i \in ActionIds, Deny(i) PROVE FALSE
  BY <1>2, FindAndExpireType DEF Deny, Decide, ApprovalTypeOK
<1>3. ASSUME NEW i \in ActionIds, NEW profile \in Profiles, TakeApprovedForExecution(i, profile)
      PROVE  FALSE
  BY <1>3, FindAndExpireType DEF TakeApprovedForExecution, ApprovalTypeOK
<1>4. ASSUME NEW action \in preparing, PrepareInsert(action) PROVE FALSE
  BY <1>4 DEF PrepareInsert, ApprovalTypeOK
<1>5. CASE Lockdown
  BY <1>5 DEF Lockdown, OutstandingIds, ApprovalTypeOK
<1>6. ~UNCHANGED actions
  OBVIOUS
<1> QED
  BY <1>1, <1>2, <1>3, <1>4, <1>5, <1>6
     DEF ApprovalNext, PrepareStamp, TickClock, approvalVars

(* No approval after the time given for it.                                *)
THEOREM DecisionsAreTimely == ApprovalSpec => ApprovedInTime
<1>1. ApprovalTypeOK /\ [ApprovalNext]_approvalVars =>
        [\A id \in ActionIds :
           (Status(id) # "approved" /\ Status(id)' = "approved") =>
             system_clock < actions[id].expires_at]_approvalVars
  BY ApprovalIsTimely
<1> QED
  BY <1>1, ApprovalTypeCorrect, PTL DEF ApprovalSpec, ApprovedInTime
=============================================================================
