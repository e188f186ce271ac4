----------------------------- MODULE ReadCalls -----------------------------
(***************************************************************************)
(* TdAccount::list_chats and get_messages (src/infrastructure/tdlib): a    *)
(* read is a sequence of requests under one deadline.  list_chats asks for *)
(* the chat list and then for every chat on it; any request that fails     *)
(* fails the read.  get_messages is the read whose list is empty: a single *)
(* request.  RequestRouter has the requests; here are the loop over them   *)
(* and the session that may end under it.                                  *)
(***************************************************************************)
EXTENDS RequestRouter

CONSTANTS
  MaxChats,  \* chats on a list; 100 in the code
  MaxReads   \* how many reads are started (a bound)

ASSUME ReadCallsAssumption ==
  /\ MaxChats \in Nat /\ MaxReads \in Nat
  /\ MaxOpens >= MaxReads * (1 + MaxChats)  \* no bound ever stops a read
  /\ MaxRequestId >= MaxOpens

VARIABLES
  authorized,  \* running_, not stopping_, and the status is Authorized
  read,        \* where each caller is in its read
  returned,    \* history: what the last read of each caller returned
  reads

readVars == <<authorized, read, returned, reads>>
vars == <<routerVars, readVars>>

(* listed: the length of the list; todo: the chats that are not asked for  *)
(* yet; fetched: the chats in the result; late: the deadline has passed.   *)
NoRead == [pc |-> "idle"]
NewRead == [pc |-> "list", listed |-> 0, todo |-> 0, fetched |-> 0, late |-> FALSE]
Failed == [pc |-> "failed"]

Init ==
  /\ RouterInit
  /\ authorized = FALSE
  /\ read = [c \in Callers |-> NoRead]
  /\ returned = [c \in Callers |-> NoRead]
  /\ reads = 0

Reading(c) == read[c] # NoRead

StartRead(c) ==
  /\ ~Reading(c) /\ reads < MaxReads
  /\ reads' = reads + 1
  /\ read' = [read EXCEPT ![c] = NewRead]
  /\ UNCHANGED <<routerVars, authorized, returned>>

Return(c, result) ==
  /\ read' = [read EXCEPT ![c] = NoRead]
  /\ returned' = [returned EXCEPT ![c] = result]
  /\ UNCHANGED <<authorized, reads>>

(* Mutant of Ask: every request gets a deadline of its own. *)
AskAnew(c) ==
  /\ Reading(c) /\ caller[c] = NotCalling
  /\ IF authorized THEN Open(c) ELSE UNCHANGED routerVars
  /\ IF caller[c]' = NotCalling
     THEN Return(c, Failed)
     ELSE /\ read' = [read EXCEPT ![c].late = FALSE]
          /\ UNCHANGED <<authorized, returned, reads>>

(* request_read under the account mutex: no id is taken unless authorized; *)
(* a router that was closed refuses.                                       *)
Ask(c) ==
  /\ Reading(c) /\ caller[c] = NotCalling
  /\ IF authorized THEN Open(c) ELSE UNCHANGED routerVars
  /\ IF caller[c]' = NotCalling THEN Return(c, Failed) ELSE UNCHANGED readVars

(* Mutant of Refused: a chat that cannot be read is left out. *)
RefusedSkips(c) ==
  /\ WaitReturn(c)
  /\ IF read[c].todo <= 1
     THEN Return(c, read[c])
     ELSE /\ read' = [read EXCEPT ![c].todo = @ - 1]
          /\ UNCHANGED <<authorized, returned, reads>>

(* The router's error, an error of TDLib, or an object of another type. *)
Refused(c) == WaitReturn(c) /\ Return(c, Failed)

(* The read after an answer: the list with its length, or one more chat. *)
Answered(r) ==
  IF r.pc = "list"
  THEN {[r EXCEPT !.pc = "chats", !.listed = n, !.todo = n] : n \in 0..MaxChats}
  ELSE {[r EXCEPT !.todo = @ - 1, !.fetched = @ + 1]}

Accepted(c) ==
  /\ WaitReturn(c)
  /\ ~ticket[caller[c].ticket].error
  /\ \E after \in Answered(read[c]) :
       IF after.todo = 0
       THEN Return(c, after)
       ELSE /\ read' = [read EXCEPT ![c] = after]
            /\ UNCHANGED <<authorized, returned, reads>>

DeadlinePasses(c) ==
  /\ Reading(c) /\ ~read[c].late
  /\ read' = [read EXCEPT ![c].late = TRUE]
  /\ UNCHANGED <<routerVars, authorized, returned, reads>>

TimesOut(c) == Reading(c) /\ read[c].late /\ WaitTimeout(c) /\ UNCHANGED readVars

GivesUp(c) == WaitRetire(c) /\ Return(c, Failed)

(* The receive thread or the owner takes the authorization away and closes *)
(* the router after that; a new session begins when the old one is over.   *)
LoseAuthorization ==
  /\ authorized
  /\ authorized' = FALSE
  /\ UNCHANGED <<routerVars, read, returned, reads>>

CloseReads == ~authorized /\ accepting /\ CloseTake /\ UNCHANGED readVars

BeginSession == SessionOver /\ Reopen /\ UNCHANGED readVars

Authorize ==
  /\ ~authorized /\ accepting
  /\ authorized' = TRUE
  /\ UNCHANGED <<routerVars, read, returned, reads>>

Receive == (Answer \/ FulfillSignal) /\ UNCHANGED readVars

Release == (\E t \in closing : CloseSignal(t)) /\ UNCHANGED readVars

ReadStep(c) == Ask(c) \/ Refused(c) \/ Accepted(c) \/ TimesOut(c) \/ GivesUp(c)

Next ==
  \/ \E c \in Callers : StartRead(c) \/ ReadStep(c) \/ DeadlinePasses(c)
  \/ LoseAuthorization \/ CloseReads \/ BeginSession \/ Authorize
  \/ Receive \/ Release

(* Threads that can go on do; TDLib owes nobody an answer, no deadline has *)
(* to pass and no session has to end.                                      *)
Fairness ==
  /\ \A c \in Callers : WF_vars(ReadStep(c))
  /\ WF_vars(FulfillSignal /\ UNCHANGED readVars)
  /\ WF_vars(Release)

Spec == Init /\ [][Next]_vars
FairSpec == Spec /\ Fairness

-----------------------------------------------------------------------------
ReadState ==
  [pc : {"list", "chats"}, listed : 0..MaxChats, todo : 0..MaxChats,
   fetched : 0..MaxChats, late : BOOLEAN]

TypeOK ==
  /\ RouterTypeOK
  /\ authorized \in BOOLEAN
  /\ read \in [Callers -> {NoRead} \cup ReadState]
  /\ returned \in [Callers -> {NoRead, Failed} \cup ReadState]
  /\ reads \in 0..MaxReads

(* A list is returned whole or not at all: no lost, late or refused answer *)
(* and no end of the session in the middle leaves a chat out of a list     *)
(* that is reported as the account's.  (TdAccount.cpp:150-160)             *)
ListIsWhole ==
  \A c \in Callers :
    returned[c] \notin {NoRead, Failed} => returned[c].fetched = returned[c].listed

(* A read does not outlive its deadline by more than its own steps, though *)
(* TDLib may never answer again and the list may just have been started.   *)
(* (TdAccount.cpp:139; "a bounded timeout", docs/architecture.md:74)       *)
ReadsAreBounded ==
  \A c \in Callers : (Reading(c) /\ read[c].late) ~> ~Reading(c)
=============================================================================
