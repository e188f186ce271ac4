--------------------------- MODULE RequestRouter ---------------------------
(***************************************************************************)
(* RequestRouter (src/infrastructure/tdlib): matches asynchronous answers  *)
(* of TDLib with the threads that wait for them.  One action per critical  *)
(* section: fulfill and close take tickets out of the map under the router *)
(* mutex and complete them later under the ticket's own mutex; wait gives  *)
(* up its ticket's mutex before it takes the router's.                     *)
(*                                                                         *)
(* The callers are reader threads inside TdAccount::request_read.  A       *)
(* session is the time between reopen and close: the owner reopens only    *)
(* when its close has completed and the receive thread is joined, but      *)
(* callers of the old session may still be inside wait, while request ids  *)
(* start again at 1.                                                       *)
(***************************************************************************)
EXTENDS Naturals, Sequences, FiniteSets, Functions

CONSTANTS
  Callers,         \* threads that read from Telegram
  NoTicket,        \* no request, no ticket, no answer
  MaxOpens,        \* how many tickets are ever opened (a bound)
  MaxRequestId,    \* largest request id of a session (a bound)
  MaximumRetired   \* 256 in the code

Tickets == 1..MaxOpens      \* in the order they are opened
RequestIds == 1..MaxRequestId

ASSUME RouterAssumption ==
  /\ MaxOpens \in Nat /\ MaxRequestId \in Nat /\ MaximumRetired \in Nat \ {0}
  /\ NoTicket \notin Nat

VARIABLES
  accepting,
  requests,         \* requests_: request id -> ticket
  retired,          \* retired_: ids whose answer nobody waits for any more
  retired_order,    \* retired_order_: the same ids, oldest first
  ticket,           \* the RequestState behind each ticket
  opened,           \* how many tickets have been opened
  caller,           \* where each caller is in request_read
  fulfilling,       \* what fulfill took and has not completed
  closing,          \* the tickets close took and has not completed
  next_request_id,  \* the owner's id counter, reset with each session
  unanswered        \* <<id, ticket>> TDLib still has to answer

routerVars ==
  <<accepting, requests, retired, retired_order, ticket, opened, caller,
    fulfilling, closing, next_request_id, unanswered>>

(* response holds the ticket of the request that the response answers.     *)
RequestState == [ready : BOOLEAN, response : Tickets \cup {NoTicket}, error : BOOLEAN]
Fresh == [ready |-> FALSE, response |-> NoTicket, error |-> FALSE]
NotCalling == [pc |-> "idle"]
Nothing == [ticket |-> NoTicket]

RouterInit ==
  /\ accepting = TRUE
  /\ requests = [id \in RequestIds |-> NoTicket]
  /\ retired = {} /\ retired_order = <<>>
  /\ ticket = [t \in Tickets |-> Fresh]
  /\ opened = 0
  /\ caller = [c \in Callers |-> NotCalling]
  /\ fulfilling = Nothing
  /\ closing = {}
  /\ next_request_id = 1
  /\ unanswered = {}

Contains(id) == id \in RequestIds /\ requests[id] # NoTicket
OpenIds == {id \in RequestIds : Contains(id)}

(* The orders in which close may walk the unordered map. *)
Orders(S) == Bijection(1..Cardinality(S), S)

(* Mutants of Retire: one id too few is kept, or all of them. *)
RetireTooFew(ids) ==
  \E added \in Orders(ids \ retired) :
    LET all == retired_order \o added
        surplus == IF Len(all) >= MaximumRetired THEN Len(all) - MaximumRetired + 1 ELSE 0
    IN /\ retired_order' = SubSeq(all, surplus + 1, Len(all))
       /\ retired' = {all[k] : k \in (surplus + 1)..Len(all)}

RetireAll(ids) ==
  \E added \in Orders(ids \ retired) :
    /\ retired_order' = retired_order \o added
    /\ retired' = retired \cup ids

(* retire, once for each of the ids: the new ones are appended in the      *)
(* order of the calls, the oldest go.                                      *)
Retire(ids) ==
  \E added \in Orders(ids \ retired) :
    LET all == retired_order \o added
        surplus == IF Len(all) > MaximumRetired THEN Len(all) - MaximumRetired ELSE 0
        evicted == {all[k] : k \in 1..surplus}
    IN /\ retired_order' = SubSeq(all, surplus + 1, Len(all))
       /\ retired' = (retired \cup ids) \ evicted

(* request_read: take an id, open it, send the request. *)
Open(c) ==
  LET id == next_request_id
  IN /\ caller[c] = NotCalling
     /\ id \in RequestIds /\ opened < MaxOpens
     /\ next_request_id' = id + 1
     /\ IF accepting /\ ~Contains(id)
        THEN /\ opened' = opened + 1
             /\ requests' = [requests EXCEPT ![id] = opened']
             /\ caller' = [caller EXCEPT ![c] =
                  [pc |-> "wait", id |-> id, ticket |-> opened']]
             /\ unanswered' = unanswered \cup {<<id, opened'>>}
        ELSE UNCHANGED <<opened, requests, caller, unanswered>>
     /\ UNCHANGED <<accepting, retired, retired_order, ticket, fulfilling, closing>>

(* Mutant of FulfillTake: the entry is read but not erased. *)
FulfillPeek(id, answer) ==
  /\ fulfilling = Nothing
  /\ Contains(id)
  /\ fulfilling' = [ticket |-> requests[id], answer |-> answer]
  /\ UNCHANGED <<accepting, requests, retired, retired_order, ticket, opened,
                 caller, closing, next_request_id>>

(* The receive thread with an answer in hand: fulfill's first half. *)
FulfillTake(id, answer) ==
  /\ fulfilling = Nothing
  /\ Contains(id)
  /\ fulfilling' = [ticket |-> requests[id], answer |-> answer]
  /\ requests' = [requests EXCEPT ![id] = NoTicket]
  /\ UNCHANGED <<accepting, retired, retired_order, ticket, opened, caller,
                 closing, next_request_id>>

FulfillSignal ==
  /\ fulfilling # Nothing
  /\ ticket' = [ticket EXCEPT ![fulfilling.ticket].response = fulfilling.answer,
                              ![fulfilling.ticket].ready = TRUE]
  /\ fulfilling' = Nothing
  /\ UNCHANGED <<accepting, requests, retired, retired_order, opened, caller,
                 closing, next_request_id, unanswered>>

(* The id was in the map when it was looked up, and is gone: the caller    *)
(* timed out or the router was closed in between.                          *)
FulfillMiss(id) ==
  /\ fulfilling = Nothing
  /\ ~Contains(id)
  /\ UNCHANGED <<accepting, requests, retired, retired_order, ticket, opened,
                 caller, fulfilling, closing, next_request_id>>

DiscardLate(id) ==
  /\ fulfilling = Nothing
  /\ ~Contains(id)
  /\ retired' = retired \ {id}
  /\ UNCHANGED <<accepting, requests, retired_order, ticket, opened, caller,
                 fulfilling, closing, next_request_id>>

(* wait: the ticket is ready, before or after the deadline. *)
WaitReturn(c) ==
  /\ caller[c].pc = "wait"
  /\ ticket[caller[c].ticket].ready
  /\ caller' = [caller EXCEPT ![c] = NotCalling]
  /\ UNCHANGED <<accepting, requests, retired, retired_order, ticket, opened,
                 fulfilling, closing, next_request_id, unanswered>>

(* wait: the deadline passes first; the ticket's mutex is released ... *)
WaitTimeout(c) ==
  /\ caller[c].pc = "wait"
  /\ ~ticket[caller[c].ticket].ready
  /\ caller' = [caller EXCEPT ![c].pc = "timed_out"]
  /\ UNCHANGED <<accepting, requests, retired, retired_order, ticket, opened,
                 fulfilling, closing, next_request_id, unanswered>>

(* Mutant of WaitRetire: whatever the map holds under the id is given up. *)
WaitRetireById(c) ==
  LET id == caller[c].id
  IN /\ caller[c].pc = "timed_out"
     /\ IF Contains(id)
        THEN requests' = [requests EXCEPT ![id] = NoTicket] /\ Retire({id})
        ELSE UNCHANGED <<requests, retired, retired_order>>
     /\ caller' = [caller EXCEPT ![c] = NotCalling]
     /\ UNCHANGED <<accepting, ticket, opened, fulfilling, closing,
                    next_request_id, unanswered>>

(* Mutant of WaitRetire: the request is given up but not remembered. *)
WaitForget(c) ==
  LET id == caller[c].id
  IN /\ caller[c].pc = "timed_out"
     /\ requests' = [requests EXCEPT ![id] =
          IF @ = caller[c].ticket THEN NoTicket ELSE @]
     /\ caller' = [caller EXCEPT ![c] = NotCalling]
     /\ UNCHANGED <<accepting, retired, retired_order, ticket, opened, fulfilling,
                    closing, next_request_id, unanswered>>

(* ... and the request is given up, if the map still holds THIS request.   *)
WaitRetire(c) ==
  LET id == caller[c].id
  IN /\ caller[c].pc = "timed_out"
     /\ IF requests[id] = caller[c].ticket
        THEN requests' = [requests EXCEPT ![id] = NoTicket] /\ Retire({id})
        ELSE UNCHANGED <<requests, retired, retired_order>>
     /\ caller' = [caller EXCEPT ![c] = NotCalling]
     /\ UNCHANGED <<accepting, ticket, opened, fulfilling, closing,
                    next_request_id, unanswered>>

(* Mutant of CloseTake: the tickets are dropped instead of completed. *)
CloseForget ==
  /\ accepting' = FALSE
  /\ Retire(OpenIds)
  /\ requests' = [id \in RequestIds |-> NoTicket]
  /\ UNCHANGED <<ticket, opened, caller, fulfilling, closing, next_request_id, unanswered>>

CloseTake ==
  /\ accepting' = FALSE
  /\ Retire(OpenIds)
  /\ closing' = closing \cup {requests[id] : id \in OpenIds}
  /\ requests' = [id \in RequestIds |-> NoTicket]
  /\ UNCHANGED <<ticket, opened, caller, fulfilling, next_request_id, unanswered>>

CloseSignal(t) ==
  /\ t \in closing
  /\ ticket' = [ticket EXCEPT ![t].error = TRUE, ![t].ready = TRUE]
  /\ closing' = closing \ {t}
  /\ UNCHANGED <<accepting, requests, retired, retired_order, opened, caller,
                 fulfilling, next_request_id, unanswered>>

(* reopen, with what its caller does in the same breath: the old TDLib     *)
(* client is gone with all it had to say, and ids start again.             *)
Reopen ==
  /\ accepting' = TRUE
  /\ retired' = {} /\ retired_order' = <<>>
  /\ next_request_id' = 1
  /\ unanswered' = {}
  /\ UNCHANGED <<requests, ticket, opened, caller, fulfilling, closing>>

(* When it is called: close has completed and no answer is half delivered. *)
SessionOver == ~accepting /\ closing = {} /\ fulfilling = Nothing

(* TDLib answers, late or early, in any order; the receive thread looks    *)
(* the id up and fulfils it or drops it as late.  (An id that is neither   *)
(* falls through to the error handling of the account.)                    *)
Answer ==
  \E u \in unanswered :
    /\ unanswered' = unanswered \ {u}
    /\ FulfillTake(u[1], u[2]) \/ FulfillMiss(u[1]) \/ DiscardLate(u[1])

(* The owner sends TDLib something the router is not concerned with. *)
SendOther ==
  /\ next_request_id \in RequestIds
  /\ next_request_id' = next_request_id + 1
  /\ UNCHANGED <<accepting, requests, retired, retired_order, ticket, opened,
                 caller, fulfilling, closing, unanswered>>

RouterNext ==
  \/ \E c \in Callers : Open(c) \/ WaitReturn(c) \/ WaitTimeout(c) \/ WaitRetire(c)
  \/ Answer
  \/ FulfillSignal
  \/ CloseTake
  \/ \E t \in closing : CloseSignal(t)
  \/ SendOther
  \/ SessionOver /\ Reopen

RouterSpec == RouterInit /\ [][RouterNext]_routerVars

-----------------------------------------------------------------------------
(* The thread inside wait with a ticket that is not completed yet. *)
Waiting(c) == caller[c].pc = "wait" /\ ~ticket[caller[c].ticket].ready

CallerState ==
  {NotCalling} \cup [pc : {"wait", "timed_out"}, id : RequestIds, ticket : Tickets]

RoutingTypeOK ==
  /\ accepting \in BOOLEAN
  /\ requests \in [RequestIds -> Tickets \cup {NoTicket}]
  /\ ticket \in [Tickets -> RequestState]
  /\ opened \in 0..MaxOpens
  /\ caller \in [Callers -> CallerState]
  /\ fulfilling \in {Nothing} \cup [ticket : Tickets, answer : Tickets]
  /\ closing \subseteq Tickets
  /\ next_request_id \in 1..(MaxRequestId + 1)
  /\ unanswered \subseteq RequestIds \X Tickets

RetiredTypeOK ==
  /\ retired \subseteq RequestIds
  /\ retired_order \in Seq(RequestIds) /\ Len(retired_order) <= MaximumRetired
  /\ retired \subseteq Range(retired_order)

RouterTypeOK == RoutingTypeOK /\ RetiredTypeOK

(* The ticket of a waiting caller is in the map, where an answer or a      *)
(* close finds it, or in the hands of the thread that will complete it.    *)
NoOrphan ==
  \A c \in Callers : Waiting(c) =>
    \/ requests[caller[c].id] = caller[c].ticket
    \/ fulfilling.ticket = caller[c].ticket
    \/ caller[c].ticket \in closing

OpenIsAwaited ==
  \A id \in OpenIds :
    \E c \in Callers : caller[c] # NotCalling /\ caller[c].ticket = requests[id]

(* No lost wakeup and no leak: every waiting caller can be found, and what *)
(* is in the map is what somebody waits for, whoever wins the race for an  *)
(* entry - also when a caller belongs to an older session than the entries *)
(* of the map, whose ids are the same numbers.                             *)
RequestsMatchWaiters == NoOrphan /\ OpenIsAwaited

(* A caller gets the answer to its own request, never that of a request of *)
(* another caller or of an earlier session with the same id, and its       *)
(* ticket is completed once: by the answer or by close, never by both.     *)
OutcomeIsMine ==
  \A t \in Tickets :
    /\ ticket[t].response \in {t, NoTicket}
    /\ ticket[t].ready <=> ticket[t].response # NoTicket \/ ticket[t].error
    /\ ~(ticket[t].response # NoTicket /\ ticket[t].error)

(* An answer that nobody waits for is recognised as late, and so never     *)
(* mistaken for an authorization error, unless MaximumRetired requests     *)
(* fill the list of the retired ones.                                      *)
Abandoned(u) == requests[u[1]] # u[2] /\ fulfilling.ticket # u[2]

LateAnswersAreRecognised ==
  \A u \in unanswered : Abandoned(u) =>
    IF u[1] \in Range(retired_order)
    THEN u[1] \in retired
    ELSE Len(retired_order) = MaximumRetired
=============================================================================
