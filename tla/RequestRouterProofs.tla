------------------------ MODULE RequestRouterProofs ------------------------
(***************************************************************************)
(* No lost wakeup, no leak and no foreign answer in the router, for every  *)
(* number of callers, requests and sessions.                               *)
(***************************************************************************)
EXTENDS RequestRouter, FiniteSetTheorems, SequenceTheorems, TLAPS

Busy(c) == caller[c].pc # "idle"

(* Whatever names a ticket names one that was opened, so the next one to   *)
(* be opened is nowhere yet.                                               *)
TicketsAreOpened ==
  /\ \A id \in RequestIds : requests[id] # NoTicket => requests[id] <= opened
  /\ \A c \in Callers : Busy(c) => caller[c].ticket <= opened
  /\ fulfilling # Nothing => fulfilling.ticket <= opened
  /\ \A t \in closing : t <= opened
  /\ \A t \in Tickets : t > opened => ticket[t] = Fresh

(* A ticket that is not completed is in the map, with fulfill or with      *)
(* close: in one of the three at a time.                                   *)
OneHolder ==
  /\ \A id \in RequestIds : requests[id] # NoTicket =>
       ~ticket[requests[id]].ready /\ requests[id] # fulfilling.ticket /\ requests[id] \notin closing
  /\ fulfilling # Nothing =>
       /\ ~ticket[fulfilling.ticket].ready /\ fulfilling.ticket \notin closing
       /\ fulfilling.answer = fulfilling.ticket
  /\ \A t \in closing : ~ticket[t].ready

CallersDiffer ==
  \A c, d \in Callers : Busy(c) /\ Busy(d) /\ caller[c].ticket = caller[d].ticket => c = d

(* OpenIsAwaited with the id: so no ticket is in the map twice. *)
EntriesAreAwaited ==
  \A id \in RequestIds : requests[id] # NoTicket =>
    \E c \in Callers : Busy(c) /\ caller[c].id = id /\ caller[c].ticket = requests[id]

(* What TDLib answers under an open id answers the request that has it:    *)
(* ids are not used twice in a session.                                    *)
AnswersMatch ==
  \A u \in unanswered :
    /\ u[1] < next_request_id
    /\ requests[u[1]] # NoTicket => requests[u[1]] = u[2]

RouterInv ==
  /\ RoutingTypeOK /\ TicketsAreOpened /\ OneHolder /\ CallersDiffer
  /\ EntriesAreAwaited /\ AnswersMatch /\ NoOrphan /\ OutcomeIsMine

(* An idle caller and an idle fulfill, told from a busy one by one field. *)
LEMMA Shapes ==
  ASSUME RoutingTypeOK
  PROVE  /\ \A c \in Callers : Busy(c) <=> caller[c] # NotCalling
         /\ \A c \in Callers : Busy(c) =>
              /\ caller[c].pc \in {"wait", "timed_out"}
              /\ caller[c].id \in RequestIds /\ caller[c].ticket \in Tickets
         /\ fulfilling = Nothing <=> fulfilling.ticket = NoTicket
         /\ fulfilling # Nothing => fulfilling.ticket \in Tickets /\ fulfilling.answer \in Tickets
         /\ \A t \in Tickets : t # NoTicket
<1>1. \A t \in Tickets : t # NoTicket
  BY RouterAssumption DEF Tickets
<1>2. \A c \in Callers : caller[c] \in CallerState
  BY DEF RoutingTypeOK
<1>3. fulfilling \in {Nothing} \cup [ticket : Tickets, answer : Tickets]
  BY DEF RoutingTypeOK
<1> QED
  BY <1>1, <1>2, <1>3 DEF CallerState, NotCalling, Busy, Nothing

LEMMA RouterInvInit == RouterInit => RouterInv
<1> SUFFICES ASSUME RouterInit PROVE RouterInv
  OBVIOUS
<1>1. RoutingTypeOK
  BY RouterAssumption DEF RouterInit, RoutingTypeOK, RequestState, Fresh, CallerState, RequestIds
<1>2. TicketsAreOpened /\ OneHolder /\ CallersDiffer /\ EntriesAreAwaited /\ AnswersMatch
  BY <1>1, Shapes DEF RouterInit, TicketsAreOpened, OneHolder, CallersDiffer, EntriesAreAwaited, AnswersMatch, Busy, NotCalling
<1>3. NoOrphan /\ OutcomeIsMine
  BY DEF RouterInit, NoOrphan, OutcomeIsMine, Waiting, NotCalling, Fresh
<1> QED
  BY <1>1, <1>2, <1>3 DEF RouterInv

LEMMA OpenKeeps == ASSUME RouterInv, NEW c \in Callers, Open(c) PROVE RouterInv'
<1> DEFINE id == next_request_id
<1>1. CASE UNCHANGED <<opened, requests, caller, unanswered>>
  <2>1. next_request_id' = id + 1 /\ id \in RequestIds /\ UNCHANGED <<accepting, ticket, fulfilling, closing>>
    BY DEF Open
  <2>2. RoutingTypeOK'
    BY <1>1, <2>1, RouterAssumption DEF RouterInv, RoutingTypeOK, RequestIds
  <2>3. AnswersMatch'
    BY <1>1, <2>1 DEF RouterInv, AnswersMatch, RoutingTypeOK, RequestIds
  <2> QED
    BY <1>1, <2>1, <2>2, <2>3
       DEF RouterInv, TicketsAreOpened, OneHolder, CallersDiffer, EntriesAreAwaited, NoOrphan, OutcomeIsMine, Busy, Waiting
<1>2. CASE /\ accepting /\ ~Contains(id)
           /\ opened' = opened + 1
           /\ requests' = [requests EXCEPT ![id] = opened']
           /\ caller' = [caller EXCEPT ![c] = [pc |-> "wait", id |-> id, ticket |-> opened']]
           /\ unanswered' = unanswered \cup {<<id, opened'>>}
  <2>1. /\ caller[c] = NotCalling /\ id \in RequestIds /\ opened' \in Tickets /\ requests[id] = NoTicket
        /\ next_request_id' = id + 1 /\ UNCHANGED <<accepting, ticket, fulfilling, closing>>
    BY <1>2, RouterAssumption DEF Open, Contains, RouterInv, RoutingTypeOK, Tickets
  <2>2. RoutingTypeOK'
    BY <1>2, <2>1, RouterAssumption DEF RouterInv, RoutingTypeOK, RequestIds, Tickets, CallerState
  <2>3. /\ \A i \in RequestIds : requests'[i] = IF i = id THEN opened' ELSE requests[i]
        /\ \A d \in Callers \ {c} : caller'[d] = caller[d]
        /\ caller'[c] = [pc |-> "wait", id |-> id, ticket |-> opened']
    BY <1>2 DEF RouterInv, RoutingTypeOK
  <2>4. opened \in Nat /\ opened' = opened + 1 /\ ~ticket[opened'].ready
    BY <1>2, <2>1 DEF RouterInv, RoutingTypeOK, TicketsAreOpened, Fresh
  <2>5. opened' <= opened' /\ \A t \in Tickets : t <= opened => t <= opened'
    BY <2>4 DEF Tickets
  <2>6. TicketsAreOpened'
    <3>1. \A i \in RequestIds : requests'[i] # NoTicket => requests'[i] <= opened'
      BY <2>1, <2>3, <2>4, <2>5 DEF RouterInv, RoutingTypeOK, TicketsAreOpened
    <3>2. \A d \in Callers : Busy(d)' => caller'[d].ticket <= opened'
      <4>1. caller'[c].ticket <= opened'
        BY <2>3, <2>5
      <4>2. \A d \in Callers \ {c} : Busy(d)' => caller'[d].ticket \in Tickets /\ caller'[d].ticket <= opened
        BY <2>3, Shapes DEF RouterInv, TicketsAreOpened, Busy
      <4> QED
        BY <4>1, <4>2, <2>5
    <3>3. /\ fulfilling' # Nothing => fulfilling'.ticket <= opened'
          /\ \A t \in closing' : t <= opened'
      BY <2>1, <2>5, Shapes DEF RouterInv, RoutingTypeOK, TicketsAreOpened
    <3>4. \A t \in Tickets : t > opened' => ticket'[t] = Fresh
      BY <2>1, <2>4 DEF RouterInv, TicketsAreOpened, Tickets
    <3> QED
      BY <3>1, <3>2, <3>3, <3>4 DEF TicketsAreOpened
  <2>7. OneHolder'
    BY <2>1, <2>2, <2>3, <2>4, Shapes DEF RouterInv, TicketsAreOpened, OneHolder, RoutingTypeOK
  <2>8. CallersDiffer'
    BY <2>1, <2>3, <2>4, Shapes DEF RouterInv, TicketsAreOpened, CallersDiffer, Busy, Tickets
  <2>9. EntriesAreAwaited'
    BY <2>1, <2>3, Shapes DEF RouterInv, EntriesAreAwaited, Busy
  <2>10. AnswersMatch'
    BY <1>2, <2>1, <2>3 DEF RouterInv, RoutingTypeOK, AnswersMatch, RequestIds
  <2>11. NoOrphan'
    BY <2>1, <2>3, Shapes DEF RouterInv, NoOrphan, Waiting, Busy
  <2>12. OutcomeIsMine'
    BY <2>1 DEF RouterInv, OutcomeIsMine
  <2> QED
    BY <2>2, <2>6, <2>7, <2>8, <2>9, <2>10, <2>11, <2>12 DEF RouterInv
<1> QED
  BY <1>1, <1>2 DEF Open

LEMMA FulfillTakeKeeps ==
  ASSUME RouterInv, NEW u \in unanswered, FulfillTake(u[1], u[2]), unanswered' \subseteq unanswered
  PROVE  RouterInv'
<1>1. u[1] \in RequestIds /\ requests[u[1]] = u[2] /\ u[2] \in Tickets /\ fulfilling = Nothing
  BY DEF FulfillTake, Contains, RouterInv, RoutingTypeOK, AnswersMatch
<1>2. /\ fulfilling' = [ticket |-> u[2], answer |-> u[2]]
      /\ requests' = [requests EXCEPT ![u[1]] = NoTicket]
      /\ UNCHANGED <<accepting, ticket, opened, caller, closing, next_request_id>>
  BY <1>1 DEF FulfillTake
<1>3. \A i \in RequestIds : requests'[i] = IF i = u[1] THEN NoTicket ELSE requests[i]
  BY <1>2 DEF RouterInv, RoutingTypeOK
<1>4. \A i \in RequestIds : requests[i] = u[2] => i = u[1]
  BY <1>1, Shapes DEF RouterInv, EntriesAreAwaited, CallersDiffer
<1>5. RoutingTypeOK'
  BY <1>1, <1>2 DEF RouterInv, RoutingTypeOK
<1>6. TicketsAreOpened'
  BY <1>1, <1>2, <1>3, Shapes DEF RouterInv, TicketsAreOpened, Busy
<1>7. OneHolder'
  BY <1>1, <1>2, <1>3, <1>4, Shapes DEF RouterInv, OneHolder
<1>8. CallersDiffer' /\ EntriesAreAwaited'
  BY <1>2, <1>3 DEF RouterInv, CallersDiffer, EntriesAreAwaited, Busy
<1>9. AnswersMatch'
  BY <1>2, <1>3 DEF RouterInv, RoutingTypeOK, AnswersMatch
<1>10. NoOrphan'
  BY <1>1, <1>2, <1>3, Shapes DEF RouterInv, NoOrphan, Waiting, Busy, Nothing
<1> QED
  BY <1>2, <1>5, <1>6, <1>7, <1>8, <1>9, <1>10 DEF RouterInv, OutcomeIsMine

(* Actions that leave alone where tickets are and what becomes of them. *)
LEMMA MissKeeps ==
  ASSUME RouterInv, unanswered' \subseteq unanswered, next_request_id' \in 1..(MaxRequestId + 1),
         next_request_id' >= next_request_id,
         UNCHANGED <<accepting, requests, ticket, opened, caller, fulfilling, closing>>
  PROVE  RouterInv'
<1>1. RoutingTypeOK'
  BY DEF RouterInv, RoutingTypeOK
<1>2. AnswersMatch'
  BY DEF RouterInv, RoutingTypeOK, AnswersMatch, RequestIds
<1> QED
  BY <1>1, <1>2
     DEF RouterInv, TicketsAreOpened, OneHolder, CallersDiffer, EntriesAreAwaited, NoOrphan,
         OutcomeIsMine, Busy, Waiting

LEMMA ReopenKeeps == ASSUME RouterInv, Reopen PROVE RouterInv'
<1>1. RoutingTypeOK'
  BY RouterAssumption DEF Reopen, RouterInv, RoutingTypeOK
<1> QED
  BY <1>1
     DEF Reopen, RouterInv, TicketsAreOpened, OneHolder, CallersDiffer, EntriesAreAwaited, AnswersMatch,
         NoOrphan, OutcomeIsMine, Busy, Waiting

(* Completing a ticket that somebody holds: t, with the outcome done. *)
LEMMA SignalKeeps ==
  ASSUME RouterInv, FulfillSignal \/ \E t \in closing : CloseSignal(t)
  PROVE  RouterInv'
<1>1. CASE FulfillSignal
  <2>1. /\ fulfilling.ticket \in Tickets /\ fulfilling.answer = fulfilling.ticket /\ fulfilling' = Nothing
        /\ ticket' = [ticket EXCEPT ![fulfilling.ticket].response = fulfilling.answer,
                                    ![fulfilling.ticket].ready = TRUE]
        /\ UNCHANGED <<accepting, requests, opened, caller, closing, next_request_id, unanswered>>
    BY <1>1, Shapes DEF FulfillSignal, RouterInv, OneHolder
  <2>2. /\ \A t \in Tickets \ {fulfilling.ticket} : ticket'[t] = ticket[t]
        /\ ticket'[fulfilling.ticket].response = fulfilling.ticket
        /\ ticket'[fulfilling.ticket].ready = TRUE
        /\ ticket'[fulfilling.ticket].error = ticket[fulfilling.ticket].error
    BY <2>1 DEF RouterInv, RoutingTypeOK, RequestState
  <2>3. RoutingTypeOK'
    BY <2>1 DEF RouterInv, RoutingTypeOK, RequestState
  <2>4. ticket[fulfilling.ticket].error = FALSE
    BY <2>1, Shapes, <1>1 DEF RouterInv, OutcomeIsMine, OneHolder, RoutingTypeOK, RequestState, FulfillSignal
  <2>5. TicketsAreOpened'
    BY <2>1, <2>2, <1>1 DEF RouterInv, TicketsAreOpened, Busy, FulfillSignal, Tickets, RoutingTypeOK
  <2>6. OneHolder'
    BY <2>1, <2>2, <1>1, Shapes DEF RouterInv, OneHolder, FulfillSignal, RoutingTypeOK, Nothing
  <2>7. CallersDiffer' /\ EntriesAreAwaited' /\ AnswersMatch'
    BY <2>1 DEF RouterInv, CallersDiffer, EntriesAreAwaited, AnswersMatch, Busy
  <2>8. NoOrphan'
    <3>1. \A d \in Callers : Waiting(d)' => Waiting(d) /\ caller[d].ticket # fulfilling.ticket
      BY <2>1, <2>2, Shapes DEF RouterInv, Waiting, Busy
    <3> QED
      BY <2>1, <3>1 DEF RouterInv, NoOrphan
  <2>9. OutcomeIsMine'
    BY <2>1, <2>2, <2>4, Shapes DEF RouterInv, OutcomeIsMine
  <2> QED
    BY <2>3, <2>5, <2>6, <2>7, <2>8, <2>9 DEF RouterInv
<1>2. ASSUME NEW t \in closing, CloseSignal(t) PROVE RouterInv'
  <2>1. /\ t \in Tickets /\ closing' = closing \ {t}
        /\ ticket' = [ticket EXCEPT ![t].error = TRUE, ![t].ready = TRUE]
        /\ UNCHANGED <<accepting, requests, opened, caller, fulfilling, next_request_id, unanswered>>
    BY <1>2 DEF CloseSignal, RouterInv, RoutingTypeOK
  <2>2. /\ \A s \in Tickets \ {t} : ticket'[s] = ticket[s]
        /\ ticket'[t].response = ticket[t].response
        /\ ticket'[t].ready = TRUE /\ ticket'[t].error = TRUE
    BY <2>1 DEF RouterInv, RoutingTypeOK, RequestState
  <2>3. RoutingTypeOK'
    BY <2>1 DEF RouterInv, RoutingTypeOK, RequestState
  <2>4. ticket[t].response = NoTicket
    BY <2>1, Shapes DEF RouterInv, OutcomeIsMine, OneHolder
  <2>5. TicketsAreOpened'
    BY <2>1, <2>2 DEF RouterInv, TicketsAreOpened, Busy, Tickets, RoutingTypeOK
  <2>6. OneHolder'
    BY <2>1, <2>2, Shapes DEF RouterInv, OneHolder, RoutingTypeOK
  <2>7. CallersDiffer' /\ EntriesAreAwaited' /\ AnswersMatch'
    BY <2>1 DEF RouterInv, CallersDiffer, EntriesAreAwaited, AnswersMatch, Busy
  <2>8. NoOrphan'
    <3>1. \A d \in Callers : Waiting(d)' => Waiting(d) /\ caller[d].ticket # t
      BY <2>1, <2>2, Shapes DEF RouterInv, Waiting, Busy
    <3> QED
      BY <2>1, <3>1 DEF RouterInv, NoOrphan
  <2>9. OutcomeIsMine'
    BY <2>1, <2>2, <2>4 DEF RouterInv, OutcomeIsMine
  <2> QED
    BY <2>3, <2>5, <2>6, <2>7, <2>8, <2>9 DEF RouterInv
<1> QED
  BY <1>1, <1>2

LEMMA CloseTakeKeeps == ASSUME RouterInv, CloseTake PROVE RouterInv'
<1>1. /\ closing' = closing \cup {requests[id] : id \in OpenIds}
      /\ requests' = [id \in RequestIds |-> NoTicket]
      /\ accepting' = FALSE
      /\ UNCHANGED <<ticket, opened, caller, fulfilling, next_request_id, unanswered>>
  BY DEF CloseTake
<1>2. \A id \in RequestIds : requests[id] # NoTicket => requests[id] \in closing'
  BY <1>1 DEF OpenIds, Contains
<1>3. \A t \in closing' : t \in closing \/ \E id \in RequestIds : requests[id] # NoTicket /\ t = requests[id]
  BY <1>1 DEF OpenIds, Contains
<1>4. closing' \subseteq Tickets
  BY <1>3 DEF RouterInv, RoutingTypeOK
<1>5. RoutingTypeOK'
  BY <1>1, <1>4 DEF RouterInv, RoutingTypeOK
<1>6. TicketsAreOpened' /\ CallersDiffer' /\ EntriesAreAwaited' /\ AnswersMatch'
  BY <1>1, <1>3 DEF RouterInv, RoutingTypeOK, TicketsAreOpened, CallersDiffer, EntriesAreAwaited, AnswersMatch, Busy
<1>7. OneHolder'
  BY <1>1, <1>3 DEF RouterInv, OneHolder
<1>8. NoOrphan'
  BY <1>1, <1>2, Shapes DEF RouterInv, NoOrphan, Waiting, Busy
<1> QED
  BY <1>1, <1>5, <1>6, <1>7, <1>8 DEF RouterInv, OutcomeIsMine

LEMMA WaitReturnKeeps == ASSUME RouterInv, NEW c \in Callers, WaitReturn(c) PROVE RouterInv'
<1>1. /\ caller[c].pc = "wait" /\ ticket[caller[c].ticket].ready
      /\ caller' = [caller EXCEPT ![c] = NotCalling]
      /\ UNCHANGED <<accepting, requests, ticket, opened, fulfilling, closing, next_request_id, unanswered>>
  BY DEF WaitReturn
<1>2. \A d \in Callers : caller'[d] = IF d = c THEN NotCalling ELSE caller[d]
  BY <1>1 DEF RouterInv, RoutingTypeOK
<1>3. \A d \in Callers : Busy(d)' => d # c /\ Busy(d) /\ caller'[d] = caller[d]
  BY <1>2 DEF Busy, NotCalling
<1>4. RoutingTypeOK'
  BY <1>1 DEF RouterInv, RoutingTypeOK, CallerState
<1>5. TicketsAreOpened' /\ OneHolder' /\ CallersDiffer' /\ AnswersMatch' /\ OutcomeIsMine'
  BY <1>1, <1>3 DEF RouterInv, TicketsAreOpened, OneHolder, CallersDiffer, AnswersMatch, OutcomeIsMine
<1>6. EntriesAreAwaited'
  BY <1>1, <1>2 DEF RouterInv, EntriesAreAwaited, OneHolder, Busy
<1>7. NoOrphan'
  BY <1>1, <1>2 DEF RouterInv, NoOrphan, Waiting, NotCalling
<1> QED
  BY <1>4, <1>5, <1>6, <1>7 DEF RouterInv

LEMMA WaitTimeoutKeeps == ASSUME RouterInv, NEW c \in Callers, WaitTimeout(c) PROVE RouterInv'
<1>1. /\ caller[c].pc = "wait"
      /\ caller' = [caller EXCEPT ![c].pc = "timed_out"]
      /\ UNCHANGED <<accepting, requests, ticket, opened, fulfilling, closing, next_request_id, unanswered>>
  BY DEF WaitTimeout
<1>2. /\ \A d \in Callers \ {c} : caller'[d] = caller[d]
      /\ caller'[c] = [pc |-> "timed_out", id |-> caller[c].id, ticket |-> caller[c].ticket]
  BY <1>1, Shapes DEF RouterInv, RoutingTypeOK, CallerState, NotCalling, Busy
<1>3. \A d \in Callers :
        /\ Busy(d)' <=> Busy(d)
        /\ Busy(d) => caller'[d].id = caller[d].id /\ caller'[d].ticket = caller[d].ticket
  BY <1>1, <1>2 DEF Busy
<1>4. RoutingTypeOK'
  <2>1. caller'[c] \in CallerState
    BY <1>1, <1>2, Shapes DEF RouterInv, CallerState, Busy
  <2> QED
    BY <1>1, <1>2, <2>1 DEF RouterInv, RoutingTypeOK
<1>5. TicketsAreOpened' /\ OneHolder'
  BY <1>1, <1>3 DEF RouterInv, TicketsAreOpened, OneHolder
<1>7. CallersDiffer'
  BY <1>3 DEF RouterInv, CallersDiffer
<1>8. EntriesAreAwaited'
  <2> SUFFICES ASSUME NEW i \in RequestIds, requests[i] # NoTicket
               PROVE  \E d \in Callers : Busy(d)' /\ caller'[d].id = i /\ caller'[d].ticket = requests[i]
    BY <1>1 DEF EntriesAreAwaited
  <2>1. PICK d \in Callers : Busy(d) /\ caller[d].id = i /\ caller[d].ticket = requests[i]
    BY DEF RouterInv, EntriesAreAwaited
  <2> QED
    BY <2>1, <1>3
<1>9. AnswersMatch' /\ OutcomeIsMine'
  BY <1>1 DEF RouterInv, AnswersMatch, OutcomeIsMine
<1>6. NoOrphan'
  BY <1>1, <1>2 DEF RouterInv, NoOrphan, Waiting
<1> QED
  BY <1>4, <1>5, <1>6, <1>7, <1>8, <1>9 DEF RouterInv

LEMMA WaitRetireKeeps == ASSUME RouterInv, NEW c \in Callers, WaitRetire(c) PROVE RouterInv'
<1>1. /\ caller[c].pc = "timed_out" /\ Busy(c)
      /\ caller' = [caller EXCEPT ![c] = NotCalling]
      /\ requests' = IF requests[caller[c].id] = caller[c].ticket
                     THEN [requests EXCEPT ![caller[c].id] = NoTicket] ELSE requests
      /\ UNCHANGED <<accepting, ticket, opened, fulfilling, closing, next_request_id, unanswered>>
  BY DEF WaitRetire, Busy
<1>2. \A d \in Callers : caller'[d] = IF d = c THEN NotCalling ELSE caller[d]
  BY <1>1 DEF RouterInv, RoutingTypeOK
<1>3. \A d \in Callers : Busy(d)' => d # c /\ Busy(d) /\ caller'[d] = caller[d]
  BY <1>2 DEF Busy, NotCalling
<1>4. \A i \in RequestIds :
        requests'[i] = IF i = caller[c].id /\ requests[i] = caller[c].ticket THEN NoTicket ELSE requests[i]
  BY <1>1 DEF RouterInv, RoutingTypeOK
<1>5. RoutingTypeOK'
  BY <1>1 DEF RouterInv, RoutingTypeOK, CallerState
<1>6. TicketsAreOpened' /\ OneHolder' /\ CallersDiffer' /\ OutcomeIsMine'
  BY <1>1, <1>3, <1>4 DEF RouterInv, TicketsAreOpened, OneHolder, CallersDiffer, OutcomeIsMine
<1>7. AnswersMatch'
  BY <1>1, <1>4 DEF RouterInv, RoutingTypeOK, AnswersMatch
<1>8. EntriesAreAwaited'
  BY <1>2, <1>4 DEF RouterInv, EntriesAreAwaited, Busy
<1>9. NoOrphan'
  BY <1>1, <1>2, <1>4, Shapes DEF RouterInv, NoOrphan, CallersDiffer, Waiting, NotCalling, Busy
<1> QED
  BY <1>5, <1>6, <1>7, <1>8, <1>9 DEF RouterInv

LEMMA RouterInvStep == RouterInv /\ [RouterNext]_routerVars => RouterInv'
<1> SUFFICES ASSUME RouterInv, [RouterNext]_routerVars PROVE RouterInv'
  OBVIOUS
<1>1. ASSUME NEW c \in Callers, Open(c) \/ WaitReturn(c) \/ WaitTimeout(c) \/ WaitRetire(c) PROVE RouterInv'
  BY <1>1, OpenKeeps, WaitReturnKeeps, WaitTimeoutKeeps, WaitRetireKeeps
<1>2. CASE Answer
  <2>1. PICK u \in unanswered :
          /\ unanswered' = unanswered \ {u}
          /\ FulfillTake(u[1], u[2]) \/ FulfillMiss(u[1]) \/ DiscardLate(u[1])
    BY <1>2 DEF Answer
  <2>2. CASE FulfillTake(u[1], u[2])
    BY <2>1, <2>2, FulfillTakeKeeps
  <2>3. CASE FulfillMiss(u[1]) \/ DiscardLate(u[1])
    BY <2>1, <2>3, MissKeeps DEF FulfillMiss, DiscardLate, RouterInv, RoutingTypeOK
  <2> QED
    BY <2>1, <2>2, <2>3
<1>3. CASE FulfillSignal \/ \E t \in closing : CloseSignal(t)
  BY <1>3, SignalKeeps
<1>4. CASE CloseTake
  BY <1>4, CloseTakeKeeps
<1>5. CASE SendOther
  BY <1>5, MissKeeps, RouterAssumption DEF SendOther, RouterInv, RoutingTypeOK, RequestIds
<1>6. CASE SessionOver /\ Reopen
  BY <1>6, ReopenKeeps
<1>7. CASE UNCHANGED routerVars
  BY <1>7, MissKeeps DEF routerVars, RouterInv, RoutingTypeOK
<1> QED
  BY <1>1, <1>2, <1>3, <1>4, <1>5, <1>6, <1>7 DEF RouterNext

LEMMA RouterInvHolds == RouterSpec => []RouterInv
<1>1. RouterInit => RouterInv
  BY RouterInvInit
<1>2. RouterInv /\ [RouterNext]_routerVars => RouterInv'
  BY RouterInvStep
<1> QED
  BY <1>1, <1>2, PTL DEF RouterSpec

(* No caller waits for a ticket nobody will complete, and no entry is left *)
(* that nobody waits for, however calls, answers, deadlines, closes and    *)
(* sessions are interleaved.                                               *)
THEOREM RequestsMatchWaitersHolds == RouterSpec => []RequestsMatchWaiters
<1>1. RouterInv => RequestsMatchWaiters
  BY Shapes DEF RouterInv, RequestsMatchWaiters, OpenIsAwaited, OpenIds, Contains, EntriesAreAwaited
<1> QED
  BY <1>1, RouterInvHolds, PTL

(* A caller gets the answer to its own request, once, although ids start   *)
(* again with every session.                                               *)
THEOREM OutcomeIsMineHolds == RouterSpec => []OutcomeIsMine
<1>1. RouterInv => OutcomeIsMine
  BY DEF RouterInv
<1> QED
  BY <1>1, RouterInvHolds, PTL

-----------------------------------------------------------------------------
(* What close and the timed out leave behind: the ids in the map and the   *)
(* retired ones are spent, and a closed router has no requests.            *)
Spent ==
  /\ \A id \in RequestIds : requests[id] # NoTicket => id < next_request_id
  /\ \A id \in retired : id \in RequestIds /\ id < next_request_id
  /\ ~accepting => \A id \in RequestIds : requests[id] = NoTicket

LEMMA RetireAdds ==
  ASSUME NEW ids, Retire(ids)
  PROVE  retired' \subseteq retired \cup ids
  BY DEF Retire

(* What a step of the router does to the ids it knows.                     *)
IdsMove ==
  /\ \A id \in RequestIds : requests'[id] # NoTicket =>
       requests'[id] = requests[id] \/ (id = next_request_id /\ accepting /\ next_request_id' = id + 1)
  /\ \A id \in retired' : id \in retired \/ (id \in RequestIds /\ requests[id] # NoTicket)
  /\ \/ next_request_id' \in {next_request_id, next_request_id + 1}
     \/ next_request_id' = 1 /\ retired' = {} /\ ~accepting
  /\ accepting /\ ~accepting' => \A id \in RequestIds : requests'[id] = NoTicket

LEMMA IdsAreNumbers ==
  ASSUME RouterInv
  PROVE  next_request_id \in Nat \ {0} /\ next_request_id <= MaxRequestId + 1 /\ RequestIds \subseteq Nat \ {0}
  BY RouterAssumption DEF RouterInv, RoutingTypeOK, RequestIds

LEMMA RouterMovesIds == ASSUME RouterInv, [RouterNext]_routerVars PROVE IdsMove
<1> USE DEF IdsMove
<1>1. requests \in [RequestIds -> Tickets \cup {NoTicket}]
  BY DEF RouterInv, RoutingTypeOK
<1>2. ASSUME NEW c \in Callers, Open(c) PROVE IdsMove
  BY <1>1, <1>2 DEF Open, Contains
<1>3. ASSUME NEW c \in Callers, WaitReturn(c) \/ WaitTimeout(c) PROVE IdsMove
  BY <1>3 DEF WaitReturn, WaitTimeout
<1>4. ASSUME NEW c \in Callers, WaitRetire(c) PROVE IdsMove
  <2> DEFINE id == caller[c].id
  <2>1. UNCHANGED <<accepting, next_request_id>>
    BY <1>4 DEF WaitRetire
  <2>2. id \in RequestIds /\ caller[c].ticket # NoTicket
    BY <1>4, Shapes DEF WaitRetire, RouterInv, Busy
  <2>3. CASE requests[id] = caller[c].ticket
    <3>1. requests' = [requests EXCEPT ![id] = NoTicket] /\ Retire({id})
      BY <1>4, <2>3 DEF WaitRetire
    <3>2. retired' \subseteq retired \cup {id}
      BY <3>1, RetireAdds
    <3> QED
      BY <1>1, <2>1, <2>2, <2>3, <3>1, <3>2
  <2>4. CASE requests[id] # caller[c].ticket
    BY <1>4, <2>1, <2>4 DEF WaitRetire
  <2> QED
    BY <2>3, <2>4
<1>5. CASE Answer
  BY <1>1, <1>5 DEF Answer, FulfillTake, FulfillMiss, DiscardLate
<1>6. CASE CloseTake
  <2>1. retired' \subseteq retired \cup OpenIds
    BY <1>6, RetireAdds DEF CloseTake
  <2> QED
    BY <1>6, <2>1 DEF CloseTake, OpenIds, Contains
<1>7. CASE FulfillSignal \/ (\E t \in closing : CloseSignal(t)) \/ SendOther
  <2>1. UNCHANGED <<accepting, requests, retired>>
    BY <1>7 DEF FulfillSignal, CloseSignal, SendOther
  <2>2. next_request_id' \in {next_request_id, next_request_id + 1}
    BY <1>7 DEF FulfillSignal, CloseSignal, SendOther
  <2> QED
    BY <2>1, <2>2
<1>8. CASE SessionOver /\ Reopen
  BY <1>8 DEF SessionOver, Reopen
<1>9. CASE UNCHANGED routerVars
  BY <1>9 DEF routerVars
<1> QED
  BY <1>2, <1>3, <1>4, <1>5, <1>6, <1>7, <1>8, <1>9 DEF RouterNext

LEMMA SpentStep == RouterInv /\ Spent /\ [RouterNext]_routerVars => Spent'
<1> SUFFICES ASSUME RouterInv, Spent, [RouterNext]_routerVars PROVE Spent'
  OBVIOUS
<1>1. IdsMove
  BY RouterMovesIds
<1>2. next_request_id \in Nat /\ RequestIds \subseteq Nat
  BY IdsAreNumbers
<1>3. \A id \in RequestIds : requests'[id] # NoTicket => id < next_request_id'
  <2> SUFFICES ASSUME NEW id \in RequestIds, requests'[id] # NoTicket PROVE id < next_request_id'
    OBVIOUS
  <2>1. CASE requests'[id] = requests[id]
    <3>1. id < next_request_id /\ accepting
      BY <2>1 DEF Spent
    <3>2. next_request_id' \in {next_request_id, next_request_id + 1}
      BY <1>1, <3>1 DEF IdsMove
    <3> QED
      BY <1>2, <3>1, <3>2
  <2>2. CASE requests'[id] # requests[id]
    BY <1>1, <1>2, <2>2 DEF IdsMove
  <2> QED
    BY <2>1, <2>2
<1>4. \A id \in retired' : id \in RequestIds /\ id < next_request_id'
  <2> SUFFICES ASSUME NEW id \in retired' PROVE id \in RequestIds /\ id < next_request_id'
    OBVIOUS
  <2>1. id \in RequestIds /\ id < next_request_id
    BY <1>1 DEF IdsMove, Spent
  <2>2. next_request_id' \in {next_request_id, next_request_id + 1}
    BY <1>1 DEF IdsMove
  <2> QED
    BY <1>2, <2>1, <2>2
<1>5. ~accepting' => \A id \in RequestIds : requests'[id] = NoTicket
  BY <1>1 DEF IdsMove, Spent
<1> QED
  BY <1>3, <1>4, <1>5 DEF Spent

-----------------------------------------------------------------------------
(* The list of the retired ids, oldest first.  An id is retired at most    *)
(* once in a session, so it is in the list once and evicted for good.      *)
RetiredInv ==
  /\ RetiredTypeOK
  /\ IsInjective(retired_order)
  /\ \A id \in Range(retired_order) : id < next_request_id /\ requests[id] = NoTicket

(* TDLib answers a request once, and not while an answer to it is being    *)
(* delivered.                                                              *)
AnsweredOnce ==
  /\ \A u, v \in unanswered : u[1] = v[1] \/ u[2] = v[2] => u = v
  /\ \A u \in unanswered : u[2] <= opened /\ u[2] # fulfilling.ticket

(* LateAnswersAreRecognised, without the answer in delivery. *)
LateIsKnown ==
  \A u \in unanswered : requests[u[1]] # u[2] =>
    IF u[1] \in Range(retired_order)
    THEN u[1] \in retired
    ELSE Len(retired_order) = MaximumRetired

LateInv == RetiredInv /\ AnsweredOnce /\ LateIsKnown

(* What retire does to the list, for ids that were never retired before.   *)
LEMMA OrdersOfIds ==
  ASSUME NEW S \in SUBSET RequestIds, NEW added \in Orders(S)
  PROVE  added \in Seq(S) /\ IsInjective(added) /\ Range(added) = S
<1>1. IsFiniteSet(S)
  <2>1. IsFiniteSet(1..MaxRequestId)
    BY RouterAssumption, FS_Interval
  <2> QED
    BY <2>1, FS_Subset DEF RequestIds
<1>2. Cardinality(S) \in Nat
  BY <1>1, FS_CardinalityType
<1>3. added \in [1..Cardinality(S) -> S] /\ IsInjective(added) /\ \A x \in S : \E k \in 1..Cardinality(S) : added[k] = x
  BY DEF Orders, Bijection, Injection, Surjection
<1> QED
  BY <1>2, <1>3 DEF Range

LEMMA RetireMoves ==
  ASSUME RetiredTypeOK, IsInjective(retired_order),
         NEW S \in SUBSET RequestIds, S \cap Range(retired_order) = {}, Retire(S)
  PROVE  /\ RetiredTypeOK'
         /\ IsInjective(retired_order')
         /\ Range(retired_order') \subseteq Range(retired_order) \cup S
         /\ \A id \in Range(retired_order) \cup S :
              id \in Range(retired_order') \/ Len(retired_order') = MaximumRetired
         /\ \A id \in Range(retired_order') : id \in S \cup retired => id \in retired'
         /\ Len(retired_order) = MaximumRetired => Len(retired_order') = MaximumRetired
         /\ retired' \subseteq retired \cup S
<1>1. S \ retired = S
  BY DEF RetiredTypeOK
<1>2. PICK added \in Orders(S) :
        LET all == retired_order \o added
            surplus == IF Len(all) > MaximumRetired THEN Len(all) - MaximumRetired ELSE 0
        IN /\ retired_order' = SubSeq(all, surplus + 1, Len(all))
           /\ retired' = (retired \cup S) \ {all[k] : k \in 1..surplus}
  BY <1>1 DEF Retire
<1> DEFINE all == retired_order \o added
           surplus == IF Len(all) > MaximumRetired THEN Len(all) - MaximumRetired ELSE 0
<1>3. /\ retired_order' = SubSeq(all, surplus + 1, Len(all))
      /\ retired' = (retired \cup S) \ {all[k] : k \in 1..surplus}
  BY <1>2
<1>4. added \in Seq(S) /\ IsInjective(added) /\ Range(added) = S
  BY OrdersOfIds
<1>5. added \in Seq(RequestIds) /\ retired_order \in Seq(RequestIds)
  BY <1>4, SeqMonotonic DEF RetiredTypeOK
<1>6. /\ all \in Seq(RequestIds) /\ Len(all) = Len(retired_order) + Len(added)
      /\ \A k \in 1..Len(retired_order) + Len(added) :
           all[k] = IF k <= Len(retired_order) THEN retired_order[k] ELSE added[k - Len(retired_order)]
      /\ Len(retired_order) \in Nat /\ Len(added) \in Nat
  BY <1>5, ConcatProperties, LenProperties
<1>7. /\ DOMAIN all = 1..Len(all) /\ DOMAIN added = 1..Len(added)
      /\ DOMAIN retired_order = 1..Len(retired_order)
  BY <1>5, <1>6, LenProperties
<1>8. IsInjective(all)
  <2> SUFFICES ASSUME NEW j \in 1..Len(all), NEW k \in 1..Len(all), all[j] = all[k], j < k PROVE FALSE
    BY <1>6, <1>7 DEF IsInjective
  <2>1. CASE k <= Len(retired_order)
    BY <2>1, <1>6, <1>7 DEF IsInjective
  <2>2. CASE j > Len(retired_order)
    <3>1. /\ j - Len(retired_order) \in DOMAIN added /\ k - Len(retired_order) \in DOMAIN added
          /\ added[j - Len(retired_order)] = added[k - Len(retired_order)]
      BY <2>2, <1>6, <1>7
    <3> QED
      BY <3>1, <1>4, <1>6 DEF IsInjective
  <2>3. CASE j <= Len(retired_order) /\ k > Len(retired_order)
    <3>1. all[j] \in Range(retired_order)
      BY <2>3, <1>6, <1>7 DEF Range
    <3>2. k - Len(retired_order) \in DOMAIN added /\ all[k] = added[k - Len(retired_order)]
      BY <2>3, <1>6, <1>7
    <3>3. all[k] \in S
      BY <3>2, <1>4 DEF Range
    <3> QED
      BY <3>1, <3>3
  <2> QED
    BY <2>1, <2>2, <2>3, <1>6
<1>9. /\ surplus \in Nat /\ surplus <= Len(all)
      /\ Len(all) - surplus <= MaximumRetired
      /\ surplus > 0 => Len(all) - surplus = MaximumRetired
      /\ surplus = 0 => Len(all) <= MaximumRetired
  BY <1>6, RouterAssumption
<1> HIDE DEF all, surplus
<1>10. /\ retired_order' \in Seq(RequestIds) /\ Len(retired_order') = Len(all) - surplus
       /\ \A k \in 1..Len(all) - surplus : retired_order'[k] = all[surplus + k]
  <2>1. \A k \in surplus + 1..Len(all) : all[k] \in RequestIds
    BY <1>6, <1>9, ElementOfSeq
  <2>2. /\ SubSeq(all, surplus + 1, Len(all)) \in Seq(RequestIds)
        /\ Len(SubSeq(all, surplus + 1, Len(all))) =
             IF surplus + 1 <= Len(all) THEN Len(all) - (surplus + 1) + 1 ELSE 0
        /\ \A k \in 1..Len(all) - (surplus + 1) + 1 : SubSeq(all, surplus + 1, Len(all))[k] = all[surplus + 1 + k - 1]
    BY <2>1, <1>6, <1>9, SubSeqProperties
  <2>3. Len(all) \in Nat
    BY <1>6
  <2> QED
    BY <1>3, <1>9, <2>2, <2>3
<1>11. Len(all) \in Nat /\ DOMAIN retired_order' = 1..Len(all) - surplus
  BY <1>6, <1>9, <1>10, LenProperties
<1>12. Range(all) = Range(retired_order) \cup S
  <2>1. \A k \in 1..Len(retired_order) : k \in DOMAIN all /\ all[k] = retired_order[k]
    BY <1>6, <1>7
  <2>2. \A k \in 1..Len(added) : k + Len(retired_order) \in DOMAIN all /\ all[k + Len(retired_order)] = added[k]
    BY <1>6, <1>7
  <2>3. \A k \in DOMAIN all : all[k] \in Range(retired_order) \cup S
    <3> TAKE k \in DOMAIN all
    <3>1. CASE k <= Len(retired_order)
      BY <3>1, <1>6, <1>7 DEF Range
    <3>2. CASE k > Len(retired_order)
      <4>1. k - Len(retired_order) \in DOMAIN added /\ all[k] = added[k - Len(retired_order)]
        BY <3>2, <1>6, <1>7
      <4> QED
        BY <4>1, <1>4 DEF Range
    <3> QED
      BY <3>1, <3>2, <1>6, <1>7
  <2>4. \A x \in S : \E k \in 1..Len(added) : added[k] = x
    BY <1>4, <1>7 DEF Range
  <2> QED
    BY <2>1, <2>2, <2>3, <2>4, <1>7 DEF Range
<1>13. IsInjective(retired_order')
  <2> SUFFICES ASSUME NEW j \in 1..Len(all) - surplus, NEW k \in 1..Len(all) - surplus,
                      retired_order'[j] = retired_order'[k]
               PROVE  j = k
    BY <1>11 DEF IsInjective
  <2>1. all[surplus + j] = all[surplus + k] /\ surplus + j \in DOMAIN all /\ surplus + k \in DOMAIN all
    BY <1>7, <1>9, <1>10, <1>11
  <2>2. surplus + j = surplus + k
    BY <2>1, <1>8 DEF IsInjective
  <2> QED
    BY <2>2, <1>9
<1>14. \A id : id \in Range(retired_order') <=> \E k \in surplus + 1..Len(all) : all[k] = id
  <2>1. ASSUME NEW k \in 1..Len(all) - surplus
        PROVE  surplus + k \in surplus + 1..Len(all) /\ retired_order'[k] = all[surplus + k]
    BY <1>9, <1>10, <1>11
  <2>2. ASSUME NEW k \in surplus + 1..Len(all)
        PROVE  k - surplus \in 1..Len(all) - surplus /\ retired_order'[k - surplus] = all[k]
    <3>1. k - surplus \in 1..Len(all) - surplus /\ surplus + (k - surplus) = k
      BY <1>9, <1>11
    <3> QED
      BY <3>1, <1>10
  <2>3. Range(retired_order') = {retired_order'[k] : k \in 1..Len(all) - surplus}
    BY <1>11 DEF Range
  <2>4. ASSUME NEW id, id \in Range(retired_order') PROVE \E k \in surplus + 1..Len(all) : all[k] = id
    BY <2>1, <2>3, <2>4
  <2>5. ASSUME NEW k \in surplus + 1..Len(all) PROVE all[k] \in Range(retired_order')
    BY <2>2, <2>3
  <2> QED
    BY <2>4, <2>5
<1>15. Range(retired_order') \subseteq Range(all)
  <2>1. \A k \in surplus + 1..Len(all) : k \in DOMAIN all
    BY <1>7, <1>9, <1>11
  <2>2. \A k \in DOMAIN all : all[k] \in Range(all)
    BY DEF Range
  <2> QED
    BY <1>14, <2>1, <2>2
<1>16. ASSUME NEW id \in Range(all) PROVE id \in Range(retired_order') \/ id \in {all[k] : k \in 1..surplus}
  <2>1. PICK k \in 1..Len(all) : all[k] = id
    BY <1>16, <1>7 DEF Range
  <2>2. k \in 1..surplus \/ k \in surplus + 1..Len(all)
    BY <1>9, <1>11
  <2> QED
    BY <2>1, <2>2, <1>14
<1>17. \A id \in Range(retired_order') : id \notin {all[k] : k \in 1..surplus}
  <2> SUFFICES ASSUME NEW k \in surplus + 1..Len(all), NEW j \in 1..surplus PROVE all[k] # all[j]
    BY <1>14
  <2>1. k \in DOMAIN all /\ j \in DOMAIN all /\ k # j
    BY <1>7, <1>9, <1>11
  <2> QED
    BY <2>1, <1>8 DEF IsInjective
<1>18. retired' \subseteq RequestIds /\ retired' \subseteq Range(retired_order')
  BY <1>3, <1>12, <1>16 DEF RetiredTypeOK
<1>19. RetiredTypeOK'
  BY <1>9, <1>10, <1>18 DEF RetiredTypeOK
<1>20. surplus = 0 => {all[k] : k \in 1..surplus} = {}
  OBVIOUS
<1>21. \A id \in Range(all) : id \in Range(retired_order') \/ Len(retired_order') = MaximumRetired
  BY <1>9, <1>10, <1>16, <1>20
<1>22. Len(retired_order) = MaximumRetired => Len(retired_order') = MaximumRetired
  BY <1>6, <1>9, <1>10, RouterAssumption
<1> QED
  BY <1>3, <1>12, <1>13, <1>15, <1>17, <1>19, <1>21, <1>22

LEMMA LateInvInit == RouterInit => LateInv
<1> SUFFICES ASSUME RouterInit PROVE LateInv
  OBVIOUS
<1>1. retired = {} /\ retired_order = <<>> /\ unanswered = {}
  BY DEF RouterInit
<1>2. Range(retired_order) = {} /\ IsInjective(retired_order) /\ Len(retired_order) = 0
  BY <1>1 DEF Range, IsInjective
<1>3. RetiredTypeOK
  BY <1>1, <1>2, EmptySeq, RouterAssumption DEF RetiredTypeOK
<1> QED
  BY <1>1, <1>2, <1>3 DEF LateInv, RetiredInv, AnsweredOnce, LateIsKnown

(* A step that retires the ids S, which leave the map with it, if any.     *)
LEMMA RetireKeepsLate ==
  ASSUME RouterInv, Spent, LateInv, NEW S \in SUBSET RequestIds, Retire(S),
         \A id \in S : requests[id] # NoTicket,
         \A id \in RequestIds : requests'[id] = IF id \in S THEN NoTicket ELSE requests[id],
         UNCHANGED <<opened, fulfilling, next_request_id, unanswered>>
  PROVE  LateInv'
<1>1. S \cap Range(retired_order) = {}
  BY DEF LateInv, RetiredInv
<1>2. /\ RetiredTypeOK'
      /\ IsInjective(retired_order')
      /\ Range(retired_order') \subseteq Range(retired_order) \cup S
      /\ \A id \in Range(retired_order) \cup S :
           id \in Range(retired_order') \/ Len(retired_order') = MaximumRetired
      /\ \A id \in Range(retired_order') : id \in S \cup retired => id \in retired'
      /\ Len(retired_order) = MaximumRetired => Len(retired_order') = MaximumRetired
  BY <1>1, RetireMoves DEF LateInv, RetiredInv
<1>3. RetiredInv'
  <2>1. \A id \in S : id < next_request_id
    BY DEF Spent
  <2>2. \A id \in Range(retired_order) \cup S : requests'[id] = NoTicket
    BY DEF LateInv, RetiredInv, RetiredTypeOK, Range
  <2> QED
    BY <1>2, <2>1, <2>2 DEF LateInv, RetiredInv
<1>4. AnsweredOnce'
  BY DEF LateInv, AnsweredOnce
<1>5. LateIsKnown'
  BY <1>2 DEF LateInv, LateIsKnown, RouterInv, RoutingTypeOK
<1> QED
  BY <1>3, <1>4, <1>5 DEF LateInv

(* A step that leaves the list alone and opens nothing.                    *)
LEMMA ListStaysLate ==
  ASSUME RouterInv, LateInv, unanswered' \subseteq unanswered,
         next_request_id' \in Nat, next_request_id' >= next_request_id,
         UNCHANGED <<requests, retired, retired_order, opened>>,
         fulfilling' \in {fulfilling, Nothing}
  PROVE  LateInv'
<1>1. RetiredInv'
  <2>1. \A id \in Range(retired_order) : id \in Nat
    BY RouterAssumption DEF LateInv, RetiredInv, RetiredTypeOK, Range, RequestIds
  <2> QED
    BY <2>1 DEF LateInv, RetiredInv, RetiredTypeOK, RouterInv, RoutingTypeOK
<1>2. AnsweredOnce'
  <2>1. \A u \in unanswered : u[2] # NoTicket
    BY Shapes DEF RouterInv, RoutingTypeOK
  <2> QED
    BY <2>1 DEF LateInv, AnsweredOnce, Nothing
<1>3. LateIsKnown'
  BY DEF LateInv, LateIsKnown
<1> QED
  BY <1>1, <1>2, <1>3 DEF LateInv

LEMMA OpenKeepsLate == ASSUME RouterInv, Spent, LateInv, NEW c \in Callers, Open(c) PROVE LateInv'
<1> DEFINE id == next_request_id
<1>1. /\ next_request_id' = id + 1 /\ id \in RequestIds /\ id \in Nat
      /\ UNCHANGED <<retired, retired_order, fulfilling>>
  BY DEF Open, RouterInv, RoutingTypeOK
<1>2. CASE UNCHANGED <<opened, requests, caller, unanswered>>
  BY <1>1, <1>2, ListStaysLate
<1>3. CASE /\ accepting /\ ~Contains(id)
           /\ opened' = opened + 1
           /\ requests' = [requests EXCEPT ![id] = opened']
           /\ unanswered' = unanswered \cup {<<id, opened'>>}
  <2>1. opened \in Nat /\ requests \in [RequestIds -> Tickets \cup {NoTicket}]
    BY DEF RouterInv, RoutingTypeOK
  <2>2. \A u \in unanswered : /\ u[1] \in Nat /\ u[1] < id /\ u[1] \in RequestIds
                              /\ u[2] \in Nat /\ u[2] <= opened
    BY RouterAssumption DEF LateInv, AnsweredOnce, RouterInv, RoutingTypeOK, AnswersMatch, RequestIds, Tickets
  <2>3. \A i \in Range(retired_order) : i \in RequestIds /\ i \in Nat /\ i < id /\ requests[i] = NoTicket
    BY RouterAssumption DEF LateInv, RetiredInv, RetiredTypeOK, Range, RequestIds
  <2>4. RetiredInv'
    <3>1. \A i \in Range(retired_order) : i < id + 1 /\ requests'[i] = NoTicket
      BY <1>1, <1>3, <2>1, <2>3
    <3> QED
      BY <1>1, <3>1 DEF LateInv, RetiredInv, RetiredTypeOK
  <2>5. AnsweredOnce'
    <3>1. fulfilling.ticket # opened'
      <4>1. CASE fulfilling = Nothing
        BY <4>1, <1>3, <2>1, RouterAssumption DEF Nothing
      <4>2. CASE fulfilling # Nothing
        BY <4>2, <1>3, <2>1, Shapes DEF RouterInv, TicketsAreOpened, Tickets
      <4> QED
        BY <4>1, <4>2
    <3> QED
      BY <1>1, <1>3, <2>1, <2>2, <3>1 DEF LateInv, AnsweredOnce
  <2>6. LateIsKnown'
    <3>1. \A u \in unanswered : requests'[u[1]] = requests[u[1]]
      BY <1>1, <1>3, <2>1, <2>2
    <3>2. requests'[id] = opened'
      BY <1>1, <1>3, <2>1
    <3> QED
      BY <1>1, <1>3, <3>1, <3>2 DEF LateInv, LateIsKnown
  <2> QED
    BY <2>4, <2>5, <2>6 DEF LateInv
<1> QED
  BY <1>2, <1>3 DEF Open

LEMMA AnswerKeepsLate == ASSUME RouterInv, LateInv, Answer PROVE LateInv'
<1>1. PICK u \in unanswered :
        /\ unanswered' = unanswered \ {u}
        /\ FulfillTake(u[1], u[2]) \/ FulfillMiss(u[1]) \/ DiscardLate(u[1])
  BY DEF Answer
<1>2. u[1] \in RequestIds /\ u[2] \in Tickets /\ unanswered \subseteq RequestIds \X Tickets
  BY DEF RouterInv, RoutingTypeOK
<1>3. \A v \in unanswered' : v \in unanswered /\ v[1] # u[1] /\ v[2] # u[2]
  BY <1>1 DEF LateInv, AnsweredOnce
<1>4. CASE FulfillTake(u[1], u[2])
  <2>1. /\ requests' = [requests EXCEPT ![u[1]] = NoTicket] /\ fulfilling'.ticket = u[2]
        /\ UNCHANGED <<retired, retired_order, opened, next_request_id>>
    BY <1>2, <1>4 DEF FulfillTake, Contains, RouterInv, AnswersMatch
  <2>2. \A i \in RequestIds : requests'[i] = IF i = u[1] THEN NoTicket ELSE requests[i]
    BY <2>1 DEF RouterInv, RoutingTypeOK
  <2>3. RetiredInv'
    <3>1. Range(retired_order) \subseteq RequestIds
      BY DEF LateInv, RetiredInv, RetiredTypeOK, Range
    <3> QED
      BY <2>1, <2>2, <3>1 DEF LateInv, RetiredInv, RetiredTypeOK
  <2>4. AnsweredOnce'
    BY <1>3, <2>1 DEF LateInv, AnsweredOnce
  <2>5. LateIsKnown'
    BY <1>2, <1>3, <2>1, <2>2 DEF LateInv, LateIsKnown
  <2> QED
    BY <2>3, <2>4, <2>5 DEF LateInv
<1>5. CASE FulfillMiss(u[1])
  BY <1>1, <1>5, ListStaysLate DEF FulfillMiss, RouterInv, RoutingTypeOK
<1>6. CASE DiscardLate(u[1])
  <2>1. retired' = retired \ {u[1]} /\ UNCHANGED <<requests, retired_order, opened, fulfilling, next_request_id>>
    BY <1>6 DEF DiscardLate
  <2>2. RetiredInv'
    BY <2>1 DEF LateInv, RetiredInv, RetiredTypeOK
  <2>3. AnsweredOnce'
    BY <1>3, <2>1 DEF LateInv, AnsweredOnce
  <2>4. LateIsKnown'
    BY <1>3, <2>1 DEF LateInv, LateIsKnown
  <2> QED
    BY <2>2, <2>3, <2>4 DEF LateInv
<1> QED
  BY <1>1, <1>4, <1>5, <1>6

LEMMA LateInvStep == RouterInv /\ Spent /\ LateInv /\ [RouterNext]_routerVars => LateInv'
<1> SUFFICES ASSUME RouterInv, Spent, LateInv, [RouterNext]_routerVars PROVE LateInv'
  OBVIOUS
<1>1. requests \in [RequestIds -> Tickets \cup {NoTicket}] /\ next_request_id \in Nat
  BY DEF RouterInv, RoutingTypeOK
<1>2. ASSUME NEW c \in Callers, WaitReturn(c) \/ WaitTimeout(c) PROVE LateInv'
  BY <1>1, <1>2, ListStaysLate DEF WaitReturn, WaitTimeout
<1>3. ASSUME NEW c \in Callers, WaitRetire(c) PROVE LateInv'
  <2> DEFINE id == caller[c].id
  <2>1. id \in RequestIds /\ caller[c].ticket # NoTicket
    BY <1>3, Shapes DEF WaitRetire, RouterInv, Busy
  <2>2. UNCHANGED <<opened, fulfilling, next_request_id, unanswered>>
    BY <1>3 DEF WaitRetire
  <2>3. CASE requests[id] = caller[c].ticket
    <3>1. requests' = [requests EXCEPT ![id] = NoTicket] /\ Retire({id})
      BY <1>3, <2>3 DEF WaitRetire
    <3>2. \A i \in RequestIds : requests'[i] = IF i \in {id} THEN NoTicket ELSE requests[i]
      BY <1>1, <3>1
    <3>3. {id} \in SUBSET RequestIds /\ \A i \in {id} : requests[i] # NoTicket
      BY <2>1, <2>3
    <3> HIDE DEF id
    <3> QED
      BY <2>2, <3>1, <3>2, <3>3, RetireKeepsLate
  <2>4. CASE requests[id] # caller[c].ticket
    BY <1>1, <1>3, <2>2, <2>4, ListStaysLate DEF WaitRetire
  <2> QED
    BY <2>3, <2>4
<1>4. CASE CloseTake
  <2>1. /\ Retire(OpenIds) /\ requests' = [id \in RequestIds |-> NoTicket]
        /\ UNCHANGED <<opened, fulfilling, next_request_id, unanswered>>
    BY <1>4 DEF CloseTake
  <2>2. /\ OpenIds \in SUBSET RequestIds /\ \A id \in OpenIds : requests[id] # NoTicket
        /\ \A id \in RequestIds : requests'[id] = IF id \in OpenIds THEN NoTicket ELSE requests[id]
    BY <2>1 DEF OpenIds, Contains
  <2> QED
    BY <2>1, <2>2, RetireKeepsLate
<1>5. CASE FulfillSignal \/ (\E t \in closing : CloseSignal(t)) \/ UNCHANGED routerVars
  <2>1. /\ UNCHANGED <<requests, retired, retired_order, opened, next_request_id, unanswered>>
        /\ fulfilling' \in {fulfilling, Nothing}
    BY <1>5 DEF FulfillSignal, CloseSignal, routerVars
  <2> QED
    BY <1>1, <2>1, ListStaysLate
<1>6. CASE SendOther
  <2>1. /\ UNCHANGED <<requests, retired, retired_order, opened, fulfilling, unanswered>>
        /\ next_request_id' = next_request_id + 1
    BY <1>6 DEF SendOther
  <2> QED
    BY <1>1, <2>1, ListStaysLate
<1>7. CASE Reopen
  <2>1. retired' = {} /\ retired_order' = <<>> /\ unanswered' = {}
    BY <1>7 DEF Reopen
  <2>2. Range(retired_order') = {} /\ IsInjective(retired_order') /\ Len(retired_order') = 0
    BY <2>1 DEF Range, IsInjective
  <2>3. RetiredTypeOK'
    BY <2>1, <2>2, EmptySeq, RouterAssumption DEF RetiredTypeOK
  <2> QED
    BY <2>1, <2>2, <2>3 DEF LateInv, RetiredInv, AnsweredOnce, LateIsKnown
<1> QED
  BY <1>2, <1>3, <1>4, <1>5, <1>6, <1>7, OpenKeepsLate, AnswerKeepsLate DEF RouterNext

(* The list grows by ids of the map only, and is full until the session    *)
(* ends once it is full.                                                   *)
LEMMA ListMoves ==
  ASSUME RouterInv, LateInv, [RouterNext]_routerVars
  PROVE  \/ next_request_id' = 1
         \/ /\ Range(retired_order') \subseteq Range(retired_order) \cup OpenIds
            /\ Len(retired_order) = MaximumRetired => Len(retired_order') = MaximumRetired
<1>1. ASSUME NEW S \in SUBSET OpenIds, Retire(S)
      PROVE  /\ Range(retired_order') \subseteq Range(retired_order) \cup OpenIds
             /\ Len(retired_order) = MaximumRetired => Len(retired_order') = MaximumRetired
  <2>1. S \in SUBSET RequestIds /\ S \cap Range(retired_order) = {}
    BY DEF OpenIds, Contains, LateInv, RetiredInv
  <2> QED
    BY <1>1, <2>1, RetireMoves DEF LateInv, RetiredInv
<1>2. ASSUME NEW c \in Callers, WaitRetire(c)
      PROVE  retired_order' = retired_order \/ \E S \in SUBSET OpenIds : Retire(S)
  <2>1. caller[c].id \in RequestIds /\ caller[c].ticket # NoTicket
    BY <1>2, Shapes DEF WaitRetire, RouterInv, Busy
  <2>2. CASE requests[caller[c].id] = caller[c].ticket
    BY <1>2, <2>1, <2>2 DEF WaitRetire, OpenIds, Contains
  <2> QED
    BY <1>2, <2>2 DEF WaitRetire
<1>3. CloseTake => Retire(OpenIds)
  BY DEF CloseTake
<1>4. Reopen => next_request_id' = 1
  BY DEF Reopen
<1>5. \/ \E c \in Callers : WaitRetire(c)
      \/ CloseTake \/ Reopen
      \/ retired_order' = retired_order
  BY DEF RouterNext, Open, WaitReturn, WaitTimeout, Answer, FulfillTake, FulfillMiss, DiscardLate, FulfillSignal,
     CloseSignal, SendOther, routerVars
<1> QED
  BY <1>1, <1>2, <1>3, <1>4, <1>5

LEMMA LateInvHolds == RouterSpec => [](Spent /\ LateInv)
<1>1. RouterInit => Spent /\ LateInv
  BY LateInvInit DEF RouterInit, Spent
<1>2. RouterInv /\ Spent /\ LateInv /\ [RouterNext]_routerVars => Spent' /\ LateInv'
  BY SpentStep, LateInvStep
<1> QED
  BY <1>1, <1>2, RouterInvHolds, PTL DEF RouterSpec

(* Types, with the list of the retired ids: never longer than its limit,   *)
(* and every id that is still retired is in it, so that it will be evicted *)
(* in its turn.                                                            *)
THEOREM RouterTypeCorrect == RouterSpec => []RouterTypeOK
<1>1. RouterInv /\ LateInv => RouterTypeOK
  BY DEF RouterInv, LateInv, RetiredInv, RouterTypeOK
<1> QED
  BY <1>1, RouterInvHolds, LateInvHolds, PTL

(* An answer that comes after its caller has given up is recognised as     *)
(* late, as long as the list of the retired ids is not full.               *)
THEOREM LateAnswersAreRecognisedHolds == RouterSpec => []LateAnswersAreRecognised
<1>1. LateInv => LateAnswersAreRecognised
  BY DEF LateInv, LateIsKnown, LateAnswersAreRecognised, Abandoned
<1> QED
  BY <1>1, LateInvHolds, PTL
=============================================================================
