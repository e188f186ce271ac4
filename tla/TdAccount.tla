----------------------------- MODULE TdAccount -----------------------------
(***************************************************************************)
(* TdAccount (src/infrastructure/tdlib): the owner of one TDLib client.    *)
(* Three kinds of threads meet here: the owner (the desktop's UI thread,   *)
(* which begins, submits and stops), the receive thread it starts and      *)
(* joins, and the readers (workers of the HTTP host, the Callers of        *)
(* RequestRouter).  TDLib itself is external: it takes requests and puts   *)
(* answers and authorization updates into one queue.  Left out are answers *)
(* the receive loop ignores: Ok, and the state getAuthorizationState asks. *)
(***************************************************************************)
EXTENDS RequestRouter

CONSTANTS
  MaxSessions,  \* how often an authorization is begun (a bound)
  MaxInputs     \* how many codes and passwords are submitted (a bound)

ASSUME AccountAssumption == MaxSessions \in Nat /\ MaxInputs \in Nat

VARIABLES
  manager,         \* manager_: the client exists
  running, stopping,
  status,          \* authorization_status_
  auth_input,      \* authorization_input_request_id_, 0 for none
  secrets,         \* options_ holds the API hash, key and phone number
  last_error,      \* last_error_, as the answer that was reported in it
  owner,           \* where the owner is in begin_authorization or stop
  receiver,        \* where the receive thread is in its loop
  sessions, inputs,  \* counters for the bounds
  \* TDLib
  tdlib,           \* its authorization state
  asked,           \* [id, what]: requests it has not answered
  outbox           \* what receive() will return, in order

accountVars == <<manager, running, stopping, status, auth_input, secrets,
                 last_error, owner, receiver, sessions, inputs>>
tdlibVars == <<tdlib, asked, outbox>>
vars == <<routerVars, accountVars, tdlibVars>>

(* "off": no client was activated. *)
TdlibStates == {"off", "WaitTdlibParameters", "WaitPhoneNumber", "WaitCode",
                "WaitPassword", "Ready", "Closing", "Closed"}
InputStates == {"WaitCode", "WaitPassword"}
Reported == TdlibStates \ {"off"}
Status == Reported \cup {"Stopped", "Starting"}

AtRest == [pc |-> "idle", then |-> "idle"]
NoError == [kind |-> "none"]

Init ==
  /\ RouterInit
  /\ manager = FALSE /\ running = FALSE /\ stopping = FALSE
  /\ status = "Stopped" /\ auth_input = 0 /\ secrets = FALSE
  /\ last_error = NoError
  /\ owner = AtRest
  /\ receiver = [pc |-> "off"]
  /\ sessions = 0 /\ inputs = 0
  /\ tdlib = "off" /\ asked = {} /\ outbox = <<>>

(* manager_->send under the account mutex. *)
Ask(what) == asked' = asked \cup {[id |-> next_request_id, what |-> what]}

Update(state) == [kind |-> "update", id |-> 0, state |-> state]

-----------------------------------------------------------------------------
(* The owner.  stop() is the first part of begin_authorization as well.    *)

OwnerGoes(pc) == owner' = [owner EXCEPT !.pc = pc]

(* Mutant of MustClose: only an authorized client is asked to close. *)
MustCloseIfAuthorized == manager /\ ~stopping /\ status = "Ready"

MustClose == manager /\ ~stopping

StopSend(then) ==
  /\ owner.pc = "idle"
  /\ owner' = [pc |-> "close", then |-> then]
  /\ IF MustClose
     THEN stopping' = TRUE /\ status' = "Closing" /\ Ask("close") /\ SendOther
     ELSE UNCHANGED <<stopping, status, asked, routerVars>>
  /\ UNCHANGED <<manager, running, auth_input, secrets, last_error, receiver,
                 sessions, inputs, tdlib, outbox>>

Stop == StopSend("idle")

Begin ==
  /\ sessions < MaxSessions
  /\ StopSend("open")

StopClose ==
  /\ owner.pc = "close"
  /\ CloseTake
  /\ OwnerGoes("join")
  /\ UNCHANGED <<manager, running, stopping, status, auth_input, secrets,
                 last_error, receiver, sessions, inputs, tdlibVars>>

Unjoined == TRUE  \* mutant of Joinable: nobody is waited for

(* close() has completed its tickets and the receive thread has ended. *)
Joinable == closing = {} /\ receiver.pc = "off"

StopJoin ==
  /\ owner.pc = "join"
  /\ Joinable
  /\ manager' = FALSE /\ running' = FALSE /\ stopping' = FALSE
  /\ status' = "Stopped" /\ auth_input' = 0
  /\ tdlib' = "off" /\ asked' = {} /\ outbox' = <<>>
  /\ OwnerGoes("clear")
  /\ UNCHANGED <<routerVars, secrets, last_error, receiver, sessions, inputs>>

StopClear ==
  /\ owner.pc = "clear"
  /\ secrets' = FALSE
  /\ OwnerGoes(owner.then)
  /\ UNCHANGED <<routerVars, manager, running, stopping, status, auth_input,
                 last_error, receiver, sessions, inputs, tdlibVars>>

(* begin_authorization with complete options: a new session, the client,   *)
(* the receive thread.                                                     *)
BeginOpen ==
  /\ owner.pc = "open"
  /\ Reopen
  /\ secrets' = TRUE
  /\ last_error' = NoError
  /\ status' = "Starting"
  /\ stopping' = FALSE /\ manager' = TRUE /\ running' = TRUE
  /\ receiver' = [pc |-> "receive"]
  /\ sessions' = sessions + 1
  /\ OwnerGoes("activate")
  /\ UNCHANGED <<auth_input, inputs, tdlibVars>>

BeginActivate ==
  /\ owner.pc = "activate"
  /\ SendOther
  /\ tdlib' = "WaitTdlibParameters"
  /\ outbox' = Append(outbox, Update("WaitTdlibParameters"))
  /\ owner' = AtRest
  /\ UNCHANGED <<manager, running, stopping, status, auth_input, secrets,
                 last_error, receiver, sessions, inputs, asked>>

(* Mutant of MaySubmit: the input in flight is not looked at. *)
MaySubmitAgain(what) == manager /\ status = what

(* submit_code and submit_password, accepted; a refusal leaves a message.  *)
MaySubmit(what) ==
  /\ auth_input = 0
  /\ manager
  /\ status = what

Submit(what) ==
  /\ owner.pc = "idle"
  /\ MaySubmit(what)
  /\ inputs < MaxInputs /\ inputs' = inputs + 1
  /\ auth_input' = next_request_id
  /\ Ask(what) /\ SendOther
  /\ UNCHANGED <<manager, running, stopping, status, secrets, last_error, owner,
                 receiver, sessions, tdlib, outbox>>

-----------------------------------------------------------------------------
(* The readers. *)

Read(c) ==
  /\ running /\ ~stopping /\ manager
  /\ status = "Ready"
  /\ Open(c)
  /\ IF opened' # opened THEN Ask("read") ELSE UNCHANGED asked
  /\ UNCHANGED <<accountVars, tdlib, outbox>>

ReaderStep(c) ==
  /\ WaitReturn(c) \/ WaitTimeout(c) \/ WaitRetire(c)
  /\ UNCHANGED <<accountVars, tdlibVars>>

CompleteClosed(t) == CloseSignal(t) /\ UNCHANGED <<accountVars, tdlibVars>>

-----------------------------------------------------------------------------
(* The receive thread. *)

ReceiverGoes(pc) == receiver' = [receiver EXCEPT !.pc = pc]
Again == receiver' = [pc |-> "receive"]
OwnerUnchanged == UNCHANGED <<manager, owner, sessions, inputs>>
Flags == <<running, stopping, status, auth_input, secrets, last_error>>

Receive ==
  /\ receiver.pc = "receive"
  /\ outbox # <<>>
  /\ receiver' = [pc |-> "look", got |-> Head(outbox)]
  /\ outbox' = Tail(outbox)
  /\ UNCHANGED <<routerVars, Flags, tdlib, asked>> /\ OwnerUnchanged

Look ==
  /\ receiver.pc = "look"
  /\ ReceiverGoes(IF Contains(receiver.got.id) THEN "fulfill" ELSE "late")
  /\ UNCHANGED <<routerVars, Flags, tdlibVars>> /\ OwnerUnchanged

(* The read request an answer is for. *)
Answered(answer) ==
  {u \in unanswered : answer.kind = "read" /\ u = <<answer.id, answer.ticket>>}

Fulfill ==
  /\ receiver.pc = "fulfill"
  /\ unanswered' = unanswered \ Answered(receiver.got)
  /\ \/ FulfillTake(receiver.got.id, receiver.got.ticket) /\ ReceiverGoes("signal")
     \/ FulfillMiss(receiver.got.id) /\ Again
  /\ UNCHANGED <<Flags, tdlibVars>> /\ OwnerUnchanged

Signal ==
  /\ receiver.pc = "signal"
  /\ FulfillSignal
  /\ Again
  /\ UNCHANGED <<Flags, tdlibVars>> /\ OwnerUnchanged

Late ==
  /\ receiver.pc = "late"
  /\ IF receiver.got.id \in RequestIds
     THEN unanswered' = unanswered \ Answered(receiver.got) /\ DiscardLate(receiver.got.id)
     ELSE UNCHANGED routerVars
  /\ IF receiver.got.id \in retired THEN Again ELSE ReceiverGoes("dispatch")
  /\ UNCHANGED <<Flags, tdlibVars>> /\ OwnerUnchanged

(* Mutant of AfterUpdate: only the final state lifts the guard. *)
AfterReady(state) == IF state = "Ready" THEN 0 ELSE auth_input

AfterUpdate(state) == 0  \* authorization_input_request_id_, in every state

NeverMine(id) == FALSE  \* mutant of IsMyInput: an error lifts no guard
IsMyInput(id) == auth_input = id

(* clear_authorization_input and set_error, for an error that is nobody's. *)
DispatchError ==
  /\ receiver.pc = "dispatch"
  /\ receiver.got.kind # "update"
  /\ auth_input' = IF IsMyInput(receiver.got.id) THEN 0 ELSE auth_input
  /\ last_error' = receiver.got
  /\ Again
  /\ UNCHANGED <<routerVars, running, stopping, status, secrets, tdlibVars>>
  /\ OwnerUnchanged

(* set_status, which also ends the wait for the submitted input. *)
DispatchUpdate ==
  /\ receiver.pc = "dispatch"
  /\ receiver.got.kind = "update"
  /\ status' = receiver.got.state
  /\ auth_input' = AfterUpdate(receiver.got.state)
  /\ CASE receiver.got.state = "WaitTdlibParameters" -> ReceiverGoes("parameters")
       [] receiver.got.state = "WaitPhoneNumber" -> ReceiverGoes("phone")
       [] receiver.got.state = "Closed" -> ReceiverGoes("wipe")
       [] OTHER -> Again
  /\ UNCHANGED <<routerVars, running, stopping, secrets, last_error, tdlibVars>>
  /\ OwnerUnchanged

(* send_tdlib_parameters and send_phone_number. *)
SendOptions ==
  /\ receiver.pc \in {"parameters", "phone"}
  /\ manager
  /\ Ask(receiver.pc) /\ SendOther
  /\ Again
  /\ UNCHANGED <<Flags, tdlib, outbox>> /\ OwnerUnchanged

(* Mutant of ClosedWipe: the options are left for stop(). *)
ClosedKeep ==
  /\ receiver.pc = "wipe"
  /\ ReceiverGoes("close")
  /\ UNCHANGED <<routerVars, Flags, tdlibVars>> /\ OwnerUnchanged

ClosedWipe ==
  /\ receiver.pc = "wipe"
  /\ secrets' = FALSE
  /\ ReceiverGoes("close")
  /\ UNCHANGED <<routerVars, running, stopping, status, auth_input, last_error, tdlibVars>>
  /\ OwnerUnchanged

ClosedClose ==
  /\ receiver.pc = "close"
  /\ CloseTake
  /\ ReceiverGoes("end")
  /\ UNCHANGED <<Flags, tdlibVars>> /\ OwnerUnchanged

ClosedEnd ==
  /\ receiver.pc = "end"
  /\ closing = {}
  /\ stopping' = TRUE /\ running' = FALSE
  /\ receiver' = [pc |-> "off"]
  /\ UNCHANGED <<routerVars, status, auth_input, secrets, last_error, tdlibVars>>
  /\ OwnerUnchanged

ReceiverStep ==
  \/ Receive \/ Look \/ Fulfill \/ Signal \/ Late
  \/ DispatchError \/ DispatchUpdate \/ SendOptions
  \/ ClosedWipe \/ ClosedClose \/ ClosedEnd

-----------------------------------------------------------------------------
(* TDLib, as far as the account sees it. *)

Emit(items) == outbox' = outbox \o items

(* Where a successful request leads. *)
Leads(what) ==
  CASE what = "parameters" -> {"WaitPhoneNumber", "Ready"}
    [] what = "phone" -> {"WaitCode"}
    [] what = "WaitCode" -> {"WaitPassword", "Ready"}
    [] what = "WaitPassword" -> {"Ready"}

Expected(what) ==
  CASE what = "parameters" -> "WaitTdlibParameters"
    [] what = "phone" -> "WaitPhoneNumber"
    [] OTHER -> what

TdlibAuthorize ==
  \E q \in asked :
    /\ tdlib # "Closed"
    /\ q.what \notin {"read", "close"}
    /\ asked' = asked \ {q}
    /\ \/ /\ tdlib = Expected(q.what)
          /\ \E state \in Leads(q.what) : tdlib' = state /\ Emit(<<Update(state)>>)
       \/ /\ Emit(<<[kind |-> "authorization", id |-> q.id]>>)
          /\ UNCHANGED tdlib
    /\ UNCHANGED <<routerVars, accountVars>>

(* In any order, with data or with an error. *)
TdlibAnswer ==
  \E q \in asked :
    /\ tdlib # "Closed"
    /\ q.what = "read"
    /\ asked' = asked \ {q}
    /\ \E u \in unanswered :
         /\ u[1] = q.id
         /\ Emit(<<[kind |-> "read", id |-> q.id, ticket |-> u[2]]>>)
    /\ UNCHANGED <<routerVars, accountVars, tdlib>>

TdlibBeginsClosing ==
  /\ tdlib' = "Closing"
  /\ Emit(<<Update("Closing")>>)
  /\ UNCHANGED <<routerVars, accountVars, asked>>

TdlibClosing ==
  /\ tdlib \notin {"off", "Closing", "Closed"}
  /\ \E q \in asked : q.what = "close"
  /\ TdlibBeginsClosing

(* The session is ended from another device. *)
TdlibLoggedOut ==
  /\ tdlib = "Ready"
  /\ TdlibBeginsClosing

TdlibClosed ==
  /\ tdlib = "Closing"
  /\ \A q \in asked : q.what = "close"
  /\ tdlib' = "Closed"
  /\ Emit(<<Update("Closed")>>)
  /\ UNCHANGED <<routerVars, accountVars, asked>>

Tdlib ==
  \/ TdlibAuthorize \/ TdlibAnswer
  \/ TdlibClosing \/ TdlibLoggedOut \/ TdlibClosed

OwnerContinues == StopClose \/ StopJoin \/ StopClear \/ BeginOpen \/ BeginActivate

Next ==
  \/ Stop \/ Begin
  \/ OwnerContinues
  \/ \E what \in InputStates : Submit(what)
  \/ \E c \in Callers : Read(c) \/ ReaderStep(c)
  \/ \E t \in closing : CompleteClosed(t)
  \/ ReceiverStep
  \/ Tdlib

(* Threads run, a mutex that is free again and again is obtained, TDLib    *)
(* handles what it is asked and closes when told to.  No deadline is       *)
(* assumed to pass and nobody has to log out, begin or stop.               *)
Fairness ==
  /\ WF_vars(OwnerContinues)
  /\ WF_vars(ReceiverStep)
  /\ WF_vars(\E t \in closing : CompleteClosed(t))
  /\ \A c \in Callers : WF_vars((WaitReturn(c) \/ WaitRetire(c)) /\ UNCHANGED <<accountVars, tdlibVars>>)
  /\ WF_vars(TdlibAuthorize) /\ WF_vars(TdlibAnswer)
  /\ WF_vars(TdlibClosing) /\ WF_vars(TdlibClosed)

Spec == Init /\ [][Next]_vars
FairSpec == Spec /\ Fairness

-----------------------------------------------------------------------------
Item == [kind : {"update"}, id : {0}, state : Reported]
          \cup [kind : {"authorization"}, id : Nat]
          \cup [kind : {"read"}, id : RequestIds, ticket : Tickets]

TypeOK ==
  /\ RouterTypeOK
  /\ manager \in BOOLEAN /\ running \in BOOLEAN /\ stopping \in BOOLEAN
  /\ secrets \in BOOLEAN
  /\ status \in Status
  /\ auth_input \in Nat
  /\ last_error \in {NoError} \cup {item \in Item : item.kind # "update"}
  /\ owner \in [pc : {"idle", "close", "join", "clear", "open", "activate"},
                then : {"idle", "open"}]
  /\ receiver.pc \in {"off", "receive", "look", "fulfill", "signal", "late", "dispatch",
                      "parameters", "phone", "wipe", "close", "end"}
  /\ tdlib \in TdlibStates
  /\ asked \subseteq [id : Nat, what : {"read", "close", "parameters", "phone"} \cup InputStates]
  /\ outbox \in Seq(Item)
  /\ receiver.pc # "off" => manager

(* The account uses the router as its protocol wants: ids are fresh within *)
(* a session, and a session is reopened only after its close is complete,  *)
(* no answer is half delivered and the old client is gone.                 *)
UsesRouterProperly == RouterSpec

(* The account implements the authorization protocol of the domain: an     *)
(* input is accepted only in the session and the state that ask for it, at *)
(* most one is in flight, and every change of state ends the wait for it,  *)
(* with updates in TDLib's queue, a stop and a new session in between.     *)
(* (TdAccount has no state for an input the stop has overtaken: its id is  *)
(* kept until the join, but no state accepts an input meanwhile.)          *)
ProtocolState ==
  [Stopped |-> "stopped", Starting |-> "wait_tdlib_parameters",
   WaitTdlibParameters |-> "wait_tdlib_parameters",
   WaitPhoneNumber |-> "wait_phone_number", WaitCode |-> "wait_code",
   WaitPassword |-> "wait_password", Ready |-> "ready",
   Closing |-> "closing", Closed |-> "closed"]

Protocol == INSTANCE AuthorizationStateMachine WITH
  generation <- sessions,
  state <- ProtocolState[status],
  input_in_flight <- auth_input # 0 /\ status # "Closing"

ImplementsAuthorization == Protocol!Spec

(* TDLib is never asked to check two inputs at once, although each update  *)
(* lifts the guard and updates of another request may be in the queue when *)
(* the operator submits.                                                   *)
(* (submit_code, submit_password, set_status, clear_authorization_input)   *)
OneInputAtATime ==
  \A p, q \in asked :
    (p.what \in InputStates /\ q.what \in InputStates) => p = q

(* The secrets live as long as the session.  Key, hash and phone number    *)
(* are sent from options that are still there: neither stop nor begin      *)
(* wipes them under a receive thread that is about to send them.  And none *)
(* are left when nobody is in begin or stop and the receive thread has     *)
(* ended, however it ended.                                                *)
SecretsLiveWithSession ==
  /\ receiver.pc \in {"parameters", "phone"} => secrets
  /\ (owner.pc \in {"idle", "open"} /\ receiver.pc = "off") => ~secrets

(* The answer to a read, however late, never lifts the guard of an         *)
(* authorization input.  It is reported as an error of the account only    *)
(* when the router has retired as many requests as it remembers, and that  *)
(* one was the oldest.  (receive_loop, discard_late, set_error)            *)
ReadErrorsStayPrivate ==
  /\ receiver.pc = "dispatch" /\ receiver.got.kind = "read" => receiver.got.id # auth_input
  /\ last_error.kind = "read" =>
       Len(retired_order) = MaximumRetired /\ last_error.id \notin Range(retired_order)

(* stop and begin_authorization come back: the receive thread they join is *)
(* ended by the Closed update that the close request brings about.         *)
OwnerReturns == owner.pc # "idle" ~> owner.pc = "idle"

(* A submitted code or password does not block the next one for ever: the  *)
(* update or the error it brings about lifts the guard.                    *)
InputGuardLifts == auth_input # 0 ~> auth_input = 0

(* A reader is not left to its deadline when the account is stopped or     *)
(* closed while TDLib still owes it an answer.                             *)
StopReleasesReaders ==
  \A c \in Callers :
    (caller[c] # NotCalling /\ (stopping \/ ~running)) ~> caller[c] = NotCalling
=============================================================================
