-------------------- MODULE MCTelegramApplicationService --------------------
(* Small instances of TelegramApplicationService for TLC. *)
EXTENDS TelegramApplicationService, TLC

CONSTANTS alice, bob, account, news, family

MCClients == {alice, bob}

Profile(c, chats, policy) ==
  [id |-> c, enabled |-> TRUE, allowed_accounts |-> {account},
   allowed_tools |-> Tools, allowed_chats |-> chats, write_policy |-> policy]

(* Alice may write, or has been cut off; Bob may write without approval,   *)
(* as far as his policy is concerned.                                      *)
WriterProfiles ==
  {Profile(alice, {news}, "require_approval"), Profile(alice, {news}, "deny"),
   Profile(bob, {news}, "auto_approve")}

(* Alice sees everything and may write, or one chat only; Bob reads one    *)
(* chat, has no account, or is disabled.                                   *)
MixedProfiles ==
  {Profile(alice, {news, family}, "require_approval"), Profile(alice, {news}, "deny"),
   Profile(bob, {family}, "deny"),
   [Profile(bob, {family}, "deny") EXCEPT !.enabled = FALSE]}

MCTimes == 0..1
WriteTools == {PrepareTool, ExecuteTool}

Symmetry == Permutations(Workers) \cup Permutations(ActionIds)
=============================================================================
