-------------------------- MODULE ApprovalService --------------------------
(***************************************************************************)
(* The approval service (src/domain/approval): a mutex-protected map from  *)
(* action ids to pending writes.  Every operation but prepare is one       *)
(* critical section, hence one action; prepare reads the clock and draws   *)
(* its id BEFORE it locks, so it is two.  The clock is system_clock, which *)
(* may be set back: TickClock moves it to any time.                        *)
(***************************************************************************)
EXTENDS PolicyEngine

CONSTANTS
  ActionIds,  \* the 256-bit random ids create_secure_id may draw; no id twice
  NoAction,   \* "no entry in the map"
  Times,      \* the readings of the wall clock (a bound for TLC)
  Lifetime,   \* how long an action may wait for its decision
  Profiles    \* the client profiles that are ever configured

ASSUME TimesAssumption == Times \subseteq Nat /\ Lifetime \in Nat \ {0}
ASSUME ProfilesAssumption == Profiles \subseteq McpClientProfile

VARIABLES
  actions,      \* actions_: id -> PendingAction, or NoAction
  preparing,    \* actions stamped by a prepare() that has not locked yet
  system_clock

approvalVars == <<actions, preparing, system_clock>>

ActionStatus == {"pending", "approved", "denied", "executed", "expired"}

PendingAction ==
  [id : ActionIds, client_id : Clients, invocation : ToolInvocation,
   expires_at : Nat, status : ActionStatus]

ASSUME NoActionAssumption == NoAction \notin PendingAction

Known(id) == actions[id] # NoAction
Status(id) == IF Known(id) THEN actions[id].status ELSE "absent"

ApprovalInit ==
  /\ actions = [id \in ActionIds |-> NoAction]
  /\ preparing = {}
  /\ system_clock \in Times

(* Mutant of IsExpired: one tick late. *)
ExpiredTooLate(action) == system_clock > action.expires_at

IsExpired(action) == system_clock >= action.expires_at

(* find_and_expire_locked: the entry of a known id after lazy expiry.      *)
FindAndExpire(id) ==
  LET action == actions[id]
  IN IF action.status = "pending" /\ IsExpired(action)
     THEN [action EXCEPT !.status = "expired"]
     ELSE action

(* prepare, up to its lock: the clock is read and a fresh id is drawn. *)
PrepareStamp(client, invocation, id) ==
  /\ ~Known(id)
  /\ \A action \in preparing : action.id # id
  /\ preparing' = preparing \cup
       {[id |-> id, client_id |-> client, invocation |-> invocation,
         expires_at |-> system_clock + Lifetime, status |-> "pending"]}
  /\ UNCHANGED <<actions, system_clock>>

(* Mutant of PrepareInsert: the stamped action stays in preparation. *)
InsertAndKeep(action) ==
  /\ action \in preparing
  /\ actions' = [actions EXCEPT ![action.id] = action]
  /\ UNCHANGED <<preparing, system_clock>>

(* prepare, under the lock: emplace. *)
PrepareInsert(action) ==
  /\ action \in preparing
  /\ preparing' = preparing \ {action}
  /\ actions' = [actions EXCEPT ![action.id] = action]
  /\ UNCHANGED system_clock

(* Mutant of Decide: a decided action can be decided again. *)
DecideAnyStatus(id, decision) ==
  /\ Known(id)
  /\ actions' = [actions EXCEPT ![id].status = decision]
  /\ UNCHANGED <<preparing, system_clock>>

(* approve and deny: the decision applies only to a live pending action. *)
Decide(id, decision) ==
  /\ Known(id)
  /\ LET action == FindAndExpire(id)
     IN actions' = [actions EXCEPT ![id] =
          IF action.status = "pending" THEN [action EXCEPT !.status = decision]
                                       ELSE action]
  /\ UNCHANGED <<preparing, system_clock>>

Approve(id) == Decide(id, "approved")
Deny(id) == Decide(id, "denied")

(* Mutant of Takeable: an undecided action will do. *)
TakeableUnasked(id, profile) ==
  LET action == FindAndExpire(id)
  IN action.status \in {"pending", "approved"} /\ action.client_id = profile.id

(* The caller may take the action if it is approved and its own. *)
Takeable(id, profile) ==
  LET action == FindAndExpire(id)
  IN action.status = "approved" /\ action.client_id = profile.id

(* The policy at this moment is the one that counts, not the one at prepare. *)
TakeSucceeds(id, profile) ==
  /\ Takeable(id, profile)
  /\ Evaluate(profile, actions[id].invocation) # "deny"

(* Mutant of TakeApprovedForExecution: the action is not marked executed. *)
TakeWithoutMarking(id, profile) == Known(id) /\ UNCHANGED approvalVars

TakeApprovedForExecution(id, profile) ==
  /\ Known(id)
  /\ LET action == FindAndExpire(id)
     IN actions' = [actions EXCEPT ![id] =
          IF ~Takeable(id, profile) THEN action
          ELSE [action EXCEPT !.status =
                  IF TakeSucceeds(id, profile) THEN "executed" ELSE "denied"]]
  /\ UNCHANGED <<preparing, system_clock>>

OutstandingIds == {id \in ActionIds : Status(id) \in {"pending", "approved"}}

(* Mutant of Lockdown: approved actions survive. *)
LockdownOfPending ==
  /\ actions' = [id \in ActionIds |->
       IF Status(id) = "pending" THEN [actions[id] EXCEPT !.status = "denied"]
                                 ELSE actions[id]]
  /\ UNCHANGED <<preparing, system_clock>>

Lockdown ==
  /\ actions' = [id \in ActionIds |->
       IF id \in OutstandingIds THEN [actions[id] EXCEPT !.status = "denied"]
                                ELSE actions[id]]
  /\ UNCHANGED <<preparing, system_clock>>

TickClock ==
  /\ system_clock' \in Times
  /\ UNCHANGED <<actions, preparing>>

(* The service with arbitrary callers. *)
WriteInvocations ==
  {invocation \in ToolInvocation :
     /\ invocation.tool_name = PrepareTool
     /\ invocation.chat_id # NoChat
     /\ invocation.is_write}

ApprovalNext ==
  \/ \E id \in ActionIds, client \in Clients, invocation \in WriteInvocations :
       PrepareStamp(client, invocation, id)
  \/ \E action \in preparing : PrepareInsert(action)
  \/ \E id \in ActionIds : Approve(id) \/ Deny(id)
  \/ \E id \in ActionIds, profile \in Profiles : TakeApprovedForExecution(id, profile)
  \/ Lockdown
  \/ TickClock

ApprovalSpec == ApprovalInit /\ [][ApprovalNext]_approvalVars

-----------------------------------------------------------------------------
(* Type invariant: the map is keyed by the id its entries carry, and an    *)
(* action in preparation is not yet in the map.                            *)
ApprovalTypeOK ==
  /\ actions \in [ActionIds -> PendingAction \cup {NoAction}]
  /\ preparing \subseteq PendingAction
  /\ system_clock \in Nat
  /\ \A id \in ActionIds : Known(id) => actions[id].id = id
  /\ \A action \in preparing : action.status = "pending" /\ ~Known(action.id)
  /\ \A a, b \in preparing : a.id = b.id => a = b

(* Whatever order prepare, approve, deny, take, lockdown and clock jumps   *)
(* come in, an action lives through the moves of ActionLifecycle only: it  *)
(* is never decided twice, never revived once denied, expired or executed, *)
(* and a lockdown withdraws every outstanding action at once.              *)
ApprovalLifecycle ==
  INSTANCE ActionLifecycle WITH
    state <- [id \in ActionIds |-> Status(id)],
    sends <- [id \in ActionIds |-> 0]

ImplementsLifecycle == ApprovalLifecycle!LifecycleSpec

(* Expiry is lazy - nothing sweeps the map - yet a decision never approves *)
(* an action whose lifetime is over at that moment, wherever the wall      *)
(* clock has been set in between.  (ApprovalService.cpp:69-88)             *)
ApprovedInTime ==
  [][\A id \in ActionIds :
       (Status(id) # "approved" /\ Status(id)' = "approved") =>
         system_clock < actions[id].expires_at]_approvalVars
=============================================================================
