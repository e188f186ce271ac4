--------------------------- MODULE ServedClients ---------------------------
(***************************************************************************)
(* What the MCP host promises to the use cases: a request runs under the   *)
(* entry of the client table it was admitted with, and the table changes   *)
(* only while no request runs.  TelegramApplicationService relies on this  *)
(* promise in RestartHost; McpHost is the host that keeps it.              *)
(***************************************************************************)
CONSTANTS Clients, Credentials, Nobody, Threads

VARIABLES
  served,  \* the credential each client of the table presents, or Nobody
  working  \* the client each thread works for, or Nobody

servedVars == <<served, working>>

Empty == [c \in Clients |-> Nobody]

ServedInit == served = Empty /\ working = [t \in Threads |-> Nobody]

Replace ==
  /\ \A t \in Threads : working[t] = Nobody
  /\ served' \in [Clients -> Credentials \cup {Nobody}]
  /\ UNCHANGED working

Admit(t, c) ==
  /\ working[t] = Nobody
  /\ served[c] # Nobody
  /\ working' = [working EXCEPT ![t] = c]
  /\ UNCHANGED served

Release(t) ==
  /\ working' = [working EXCEPT ![t] = Nobody]
  /\ UNCHANGED served

(* The process ends with everything it held in memory. *)
Perish == served' = Empty /\ working' = [t \in Threads |-> Nobody]

ServedNext ==
  \/ Replace \/ Perish
  \/ \E t \in Threads : Release(t) \/ \E c \in Clients : Admit(t, c)

ServedSpec == ServedInit /\ [][ServedNext]_servedVars
=============================================================================
