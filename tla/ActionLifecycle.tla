-------------------------- MODULE ActionLifecycle --------------------------
(***************************************************************************)
(* What the approval machinery of TgGate promises about a write action,    *)
(* whoever calls it and in whatever order: it is prepared once, decided    *)
(* once, may be withdrawn until it is taken, is taken at most once, and    *)
(* reaches Telegram at most once and only after it was taken.  Nothing is  *)
(* said about clients, clocks or policies; ApprovalService and             *)
(* TelegramApplicationService implement this specification.                *)
(***************************************************************************)
EXTENDS Naturals

CONSTANT ActionIds

VARIABLES
  state,  \* where each action is in its life
  sends   \* how often its message was handed to Telegram

lifecycleVars == <<state, sends>>

States == {"absent", "pending", "approved", "denied", "executed", "expired"}
Outstanding == {"pending", "approved"}

LifecycleInit ==
  /\ state = [id \in ActionIds |-> "absent"]
  /\ sends = [id \in ActionIds |-> 0]

(* The moves one action may make. *)
Moves ==
  {<<"absent", "pending">>,
   <<"pending", "approved">>, <<"pending", "denied">>, <<"pending", "expired">>,
   <<"approved", "denied">>, <<"approved", "executed">>}

Move(id) ==
  /\ \E to \in States : /\ <<state[id], to>> \in Moves
                        /\ state' = [state EXCEPT ![id] = to]
  /\ UNCHANGED sends

(* Every outstanding action is withdrawn in one step. *)
WithdrawAll ==
  /\ state' = [id \in ActionIds |->
                 IF state[id] \in Outstanding THEN "denied" ELSE state[id]]
  /\ UNCHANGED sends

Deliver(id) ==
  /\ state[id] = "executed"
  /\ sends[id] = 0
  /\ sends' = [sends EXCEPT ![id] = 1]
  /\ UNCHANGED state

LifecycleNext ==
  \/ \E id \in ActionIds : Move(id) \/ Deliver(id)
  \/ WithdrawAll

LifecycleSpec == LifecycleInit /\ [][LifecycleNext]_lifecycleVars
=============================================================================
