-------------------------- MODULE TdAccountProofs --------------------------
(***************************************************************************)
(* TdAccount uses the router within its protocol, so that what is proved   *)
(* of the router alone holds of the account's reads, for every number of   *)
(* readers, requests, inputs and sessions; the secrets live as long as the *)
(* session does; and the account keeps the authorization protocol.         *)
(***************************************************************************)
EXTENDS TdAccount, RequestRouterProofs

(* An id that no request in the map has, and no request that was given up. *)
Foreign(x) ==
  /\ x < next_request_id
  /\ x \in RequestIds => requests[x] = NoTicket
  /\ x \notin retired

LEMMA ForeignKeeps ==
  ASSUME RouterInv, IdsMove, next_request_id' >= next_request_id, NEW x, Foreign(x), x \in Nat
  PROVE  Foreign(x)'
  BY IdsAreNumbers DEF IdsMove, Foreign

(* The next id is one of nobody until it is taken.                         *)
LEMMA NextIsForeign ==
  ASSUME RouterInv, Spent, SendOther, NEW x, x = next_request_id
  PROVE  Foreign(x)'
  BY IdsAreNumbers DEF Spent, SendOther, Foreign

-----------------------------------------------------------------------------
(* What TDLib is asked and has said: the answers on their way, in its      *)
(* queue or in the receive thread's hand at place 0.                       *)
InHand == receiver.pc \in {"look", "fulfill", "late"}
Places == DOMAIN outbox \cup {i \in {0} : InHand}
InFlight(i) == IF i = 0 THEN receiver.got ELSE outbox[i]

Request == [id : Nat, what : {"read", "close", "parameters", "phone"} \cup InputStates]

ItemsAreTyped ==
  /\ asked \subseteq Request
  /\ outbox \in Seq(Item)
  /\ \A i \in Places : InFlight(i) \in Item

(* An answer to a read is owed until it is handed over, and comes once.    *)
ReadsComeOnce ==
  /\ \A i \in Places : InFlight(i).kind = "read" =>
       <<InFlight(i).id, InFlight(i).ticket>> \in unanswered
  /\ \A i, j \in Places :
       InFlight(i).kind = "read" /\ InFlight(j).kind = "read" /\ InFlight(i).id = InFlight(j).id => i = j
  /\ \A i \in Places, q \in asked :
       InFlight(i).kind = "read" /\ q.what = "read" => InFlight(i).id # q.id

(* No other request shares its id with a read.                             *)
OthersAreForeign ==
  /\ \A i \in Places : InFlight(i).kind = "authorization" => Foreign(InFlight(i).id)
  /\ \A q \in asked : q.id < next_request_id
  /\ \A q \in asked : q.what # "read" => Foreign(q.id)

Carried == ItemsAreTyped /\ ReadsComeOnce /\ OthersAreForeign

LEMMA ItemShapes ==
  ASSUME NEW item \in Item
  PROVE  /\ item.kind \in {"update", "authorization", "read"}
         /\ item.id \in Nat
         /\ item.kind = "update" => item.id \notin RequestIds /\ item.id = 0
         /\ item.kind = "read" => item.id \in RequestIds /\ item.ticket \in Tickets
  BY RouterAssumption DEF Item, RequestIds

LEMMA StaysForeign ==
  ASSUME RouterInv, IdsMove, next_request_id' >= next_request_id, Carried,
         NEW i \in Places, InFlight(i).kind = "authorization", NEW j, InFlight(j)' = InFlight(i)
  PROVE  Foreign(InFlight(j).id)'
<1> PICK x : x = InFlight(i).id
  OBVIOUS
<1>1. Foreign(x) /\ x \in Nat
  BY ItemShapes DEF Carried, ItemsAreTyped, OthersAreForeign
<1>2. Foreign(x)' /\ InFlight(j).id' = x
  BY <1>1, ForeignKeeps
<1> QED
  BY <1>2 DEF Foreign

LEMMA RequestStaysForeign ==
  ASSUME RouterInv, IdsMove, next_request_id' >= next_request_id, Carried, NEW q \in asked
  PROVE  q.id < next_request_id' /\ (q.what # "read" => Foreign(q.id)')
<1>1. q.id < next_request_id /\ q.id \in Nat /\ (q.what # "read" => Foreign(q.id))
  BY DEF Carried, ItemsAreTyped, OthersAreForeign, Request
<1>2. next_request_id \in Nat /\ next_request_id' \in Nat
  BY IdsAreNumbers DEF IdsMove
<1> QED
  BY <1>1, <1>2, ForeignKeeps

(* Nothing is added, and what is taken from unanswered is not on its way.  *)
LEMMA CarriedKeeps ==
  ASSUME RouterInv, IdsMove, next_request_id' >= next_request_id, Carried,
         asked' \subseteq asked, outbox' = outbox, Places' \subseteq Places,
         \A i \in Places' : InFlight(i)' = InFlight(i),
         \A i \in Places' : InFlight(i).kind = "read" =>
           <<InFlight(i).id, InFlight(i).ticket>> \in unanswered'
  PROVE  Carried'
<1>1. ItemsAreTyped'
  BY DEF Carried, ItemsAreTyped
<1>2. ReadsComeOnce'
  BY DEF Carried, ReadsComeOnce
<1>3. OthersAreForeign'
  BY StaysForeign, RequestStaysForeign DEF OthersAreForeign
<1> QED
  BY <1>1, <1>2, <1>3 DEF Carried

(* A request with the next id.                                             *)
LEMMA AskKeeps ==
  ASSUME RouterInv, RouterInv', Spent, IdsMove, Carried,
         NEW what \in {"read", "close", "parameters", "phone"} \cup InputStates, Ask(what),
         next_request_id' = next_request_id + 1,
         what # "read" => SendOther,
         unanswered \subseteq unanswered',
         outbox' = outbox, Places' = Places,
         \A i \in Places : InFlight(i)' = InFlight(i)
  PROVE  Carried'
<1> PICK x : x = next_request_id
  OBVIOUS
<1> DEFINE new == [id |-> x, what |-> what]
<1>1. new \in Request /\ asked' = asked \cup {new} /\ next_request_id \in Nat
  BY IdsAreNumbers DEF Ask, Request
<1>2. \A i \in Places : InFlight(i).kind = "read" => InFlight(i).id < next_request_id
  BY DEF Carried, ReadsComeOnce, RouterInv, AnswersMatch
<1>3. ItemsAreTyped'
  BY <1>1 DEF Carried, ItemsAreTyped
<1>4. ReadsComeOnce'
  <2>1. \A i \in Places : InFlight(i).kind = "read" => InFlight(i).id # new.id
    BY <1>1, <1>2, ItemShapes DEF Carried, ItemsAreTyped
  <2> QED
    BY <1>1, <2>1 DEF Carried, ReadsComeOnce
<1>5. OthersAreForeign'
  <2>1. new.id < next_request_id' /\ (what # "read" => Foreign(new.id)')
    BY <1>1, NextIsForeign
  <2> QED
    BY <1>1, <2>1, StaysForeign, RequestStaysForeign DEF OthersAreForeign
<1> QED
  BY <1>3, <1>4, <1>5 DEF Carried

(* One more item in TDLib's queue.                                         *)
LEMMA EmitKeeps ==
  ASSUME RouterInv, IdsMove, next_request_id' >= next_request_id, Carried,
         NEW item \in Item, outbox' = Append(outbox, item), receiver' = receiver,
         asked' \subseteq asked, unanswered \subseteq unanswered',
         item.kind = "read" =>
           /\ <<item.id, item.ticket>> \in unanswered
           /\ \A i \in Places : InFlight(i).kind = "read" => InFlight(i).id # item.id
           /\ \A q \in asked' : q.what = "read" => q.id # item.id,
         item.kind = "authorization" => Foreign(item.id)
  PROVE  Carried'
<1> PICK k : k = Len(outbox) + 1
  OBVIOUS
<1>1. outbox \in Seq(Item) /\ k \in Nat \ {0} /\ DOMAIN outbox = 1..(k - 1)
  BY DEF Carried, ItemsAreTyped
<1>2. outbox' \in Seq(Item) /\ DOMAIN outbox' = 1..k /\ outbox'[k] = item
      /\ \A i \in DOMAIN outbox : outbox'[i] = outbox[i]
  BY <1>1
<1>3. Places' = Places \cup {k} /\ k \notin Places
  BY <1>1, <1>2 DEF Places, InHand
<1>4. \A i \in Places : InFlight(i)' = InFlight(i)
  BY <1>1, <1>2 DEF Places, InFlight
<1>5. InFlight(k)' = item
  BY <1>1, <1>2 DEF InFlight
<1>6. ItemsAreTyped'
  BY <1>2, <1>3, <1>4, <1>5 DEF Carried, ItemsAreTyped
<1>7. ReadsComeOnce'
  BY <1>3, <1>4, <1>5 DEF Carried, ReadsComeOnce
<1>8. OthersAreForeign'
  <2>1. item.kind = "authorization" => Foreign(item.id)'
    BY ItemShapes, ForeignKeeps
  <2>2. item.kind = "authorization" => Foreign(InFlight(k).id)'
    BY <1>5, <2>1 DEF Foreign
  <2> QED
    BY <1>3, <1>4, <1>5, <2>2, StaysForeign, RequestStaysForeign DEF OthersAreForeign
<1> QED
  BY <1>6, <1>7, <1>8 DEF Carried

(* The first item comes into the hand of the receive thread.               *)
LEMMA ReceiveKeeps == ASSUME RouterInv, Spent, Carried, Receive PROVE Carried'
<1>1. UNCHANGED routerVars /\ UNCHANGED asked
  BY DEF Receive
<1>2. IdsMove /\ next_request_id' >= next_request_id /\ unanswered' = unanswered
  BY <1>1, RouterMovesIds, IdsAreNumbers DEF routerVars
<1>3. outbox \in Seq(Item) /\ outbox # <<>> /\ outbox' = Tail(outbox) /\ ~InHand
  BY DEF Receive, Carried, ItemsAreTyped, InHand
<1>4. receiver' = [pc |-> "look", got |-> Head(outbox)]
  BY DEF Receive
<1> PICK n : n = Len(outbox)
  OBVIOUS
<1>5. n \in Nat \ {0} /\ outbox' \in Seq(Item) /\ DOMAIN outbox = 1..n /\ DOMAIN outbox' = 1..(n - 1)
      /\ \A i \in 1..(n - 1) : outbox'[i] = outbox[i + 1]
  BY <1>3
<1>6. Places = 1..n /\ Places' = 0..(n - 1)
  BY <1>3, <1>4, <1>5 DEF Places, InHand
<1>7. \A i \in Places' : i + 1 \in Places /\ InFlight(i)' = InFlight(i + 1)
  BY <1>3, <1>4, <1>5, <1>6 DEF InFlight
<1>8. ItemsAreTyped'
  BY <1>1, <1>5, <1>7 DEF Carried, ItemsAreTyped
<1>9. ReadsComeOnce'
  <2>1. \A i, j \in Places' : i + 1 = j + 1 => i = j
    BY <1>5, <1>6
  <2> QED
    BY <1>1, <1>2, <1>7, <2>1 DEF Carried, ReadsComeOnce
<1>10. OthersAreForeign'
  BY <1>1, <1>2, <1>7, StaysForeign, RequestStaysForeign DEF OthersAreForeign
<1> QED
  BY <1>8, <1>9, <1>10 DEF Carried

LEMMA EmptyQueue ==
  ASSUME asked' = {}, outbox' = <<>>, ~InHand'
  PROVE  Carried'
<1>1. Places' = {} /\ outbox' \in Seq(Item)
  BY DEF Places
<1> QED
  BY <1>1 DEF Carried, ItemsAreTyped, ReadsComeOnce, OthersAreForeign

(* The receive thread goes on, or not: nothing new is in its hand.         *)
LEMMA PlacesStay ==
  ASSUME Carried, outbox' = outbox, InHand' => InHand /\ receiver'.got = receiver.got
  PROVE  Places' \subseteq Places /\ \A i \in Places' : InFlight(i)' = InFlight(i)
<1>1. outbox \in Seq(Item)
  BY DEF Carried, ItemsAreTyped
<1>2. Places' \subseteq Places /\ \A i \in Places' : i \in DOMAIN outbox \/ (i = 0 /\ InHand')
  BY DEF Places
<1>3. \A i \in DOMAIN outbox : i # 0
  BY <1>1
<1> QED
  BY <1>2, <1>3 DEF InFlight

LEMMA HandMoves ==
  ASSUME RouterInv, IdsMove, next_request_id' >= next_request_id, Carried,
         asked' = asked, outbox' = outbox, InHand' => InHand /\ receiver'.got = receiver.got,
         unanswered \subseteq unanswered'
  PROVE  Carried'
<1>1. \A i \in Places : InFlight(i).kind = "read" => <<InFlight(i).id, InFlight(i).ticket>> \in unanswered'
  BY DEF Carried, ReadsComeOnce
<1> QED
  BY <1>1, PlacesStay, CarriedKeeps

(* An answer leaves the hand of the receive thread, with what is owed.     *)
LEMMA HandLetsGo ==
  ASSUME RouterInv, IdsMove, next_request_id' >= next_request_id, Carried, InHand,
         asked' = asked, outbox' = outbox, ~InHand',
         unanswered' = unanswered \ Answered(receiver.got)
  PROVE  Carried'
<1>1. 0 \in Places /\ InFlight(0) = receiver.got /\ outbox \in Seq(Item)
  BY DEF Places, InFlight, Carried, ItemsAreTyped
<1>2. Places' = DOMAIN outbox /\ 0 \notin Places'
  <2>1. \A i \in DOMAIN outbox : i # 0
    BY <1>1
  <2>2. Places' = DOMAIN outbox
    BY DEF Places
  <2> QED
    BY <2>1, <2>2
<1>3. \A i \in Places' : i \in Places /\ i # 0
  BY <1>2 DEF Places
<1>4. \A i \in Places' : InFlight(i).kind = "read" => <<InFlight(i).id, InFlight(i).ticket>> \in unanswered'
  <2> SUFFICES ASSUME NEW i \in Places', InFlight(i).kind = "read"
               PROVE  <<InFlight(i).id, InFlight(i).ticket>> \in unanswered'
    OBVIOUS
  <2>1. <<InFlight(i).id, InFlight(i).ticket>> \in unanswered
    BY <1>3 DEF Carried, ReadsComeOnce
  <2>2. receiver.got.kind = "read" => InFlight(i).id # receiver.got.id
    BY <1>1, <1>3 DEF Carried, ReadsComeOnce
  <2> QED
    BY <2>1, <2>2 DEF Answered
<1> QED
  BY <1>4, PlacesStay, CarriedKeeps

-----------------------------------------------------------------------------
(* Where owner and receive thread are, and what holds there.               *)
Holding == {"look", "fulfill", "signal", "late", "dispatch", "parameters", "phone", "wipe", "close", "end"}

ThreadsAreTyped ==
  /\ receiver \in [pc : {"off", "receive"}] \cup [pc : Holding, got : Item]
  /\ owner \in [pc : {"idle", "close", "join", "clear", "open", "activate"}, then : {"idle", "open"}]
  /\ manager \in BOOLEAN

(* Between two sessions there is no client and nothing of the old one.     *)
SessionsAreApart ==
  /\ owner.pc \in {"join", "clear", "open"} => ~accepting
  /\ owner.pc \in {"clear", "open"} => ~manager /\ closing = {}
  /\ owner.pc = "activate" => manager
  /\ ~manager => receiver.pc = "off" /\ outbox = <<>> /\ asked = {} /\ tdlib = "off"

(* What the receive thread found out about the item it has in hand.        *)
HandIsKnown ==
  /\ fulfilling # Nothing <=> receiver.pc = "signal"
  /\ receiver.pc = "fulfill" => receiver.got.kind = "read"
  /\ receiver.pc = "late" => (receiver.got.id \in RequestIds => requests[receiver.got.id] = NoTicket)

SecretsHeld ==
  /\ receiver.pc \in {"receive"} \cup (Holding \ {"close", "end"}) => secrets
  /\ receiver.pc \in {"close", "end"} => ~secrets
  /\ owner.pc \in {"idle", "open", "activate"} /\ receiver.pc = "off" => ~secrets

AccountInv ==
  /\ Spent /\ Carried
  /\ ThreadsAreTyped /\ SessionsAreApart /\ HandIsKnown /\ SecretsHeld

LEMMA AccountInvInit == Init => AccountInv
<1> SUFFICES ASSUME Init PROVE AccountInv
  OBVIOUS
<1>1. Spent
  BY DEF Init, RouterInit, Spent
<1>2. Carried
  <2>1. Places = {}
    BY DEF Init, Places, InHand
  <2>2. outbox \in Seq(Item) /\ asked = {}
    BY DEF Init
  <2> QED
    BY <2>1, <2>2 DEF Carried, ItemsAreTyped, ReadsComeOnce, OthersAreForeign
<1> QED
  BY <1>1, <1>2 DEF Init, RouterInit, AccountInv, ThreadsAreTyped, SessionsAreApart, HandIsKnown, SecretsHeld,
     AtRest, Holding

(* The item in hand is owed, foreign or an update.                         *)
LEMMA HandFacts ==
  ASSUME AccountInv, InHand
  PROVE  /\ receiver.got \in Item
         /\ receiver.got.kind = "read" => <<receiver.got.id, receiver.got.ticket>> \in unanswered
         /\ receiver.got.kind = "authorization" => Foreign(receiver.got.id)
<1>1. 0 \in Places /\ InFlight(0) = receiver.got
  BY DEF Places, InFlight
<1> QED
  BY <1>1 DEF AccountInv, Carried, ItemsAreTyped, ReadsComeOnce, OthersAreForeign

LEMMA FulfillAnswers == ASSUME AccountInv, Fulfill PROVE Answer
<1>1. InHand /\ receiver.got.kind = "read"
  BY DEF Fulfill, InHand, AccountInv, HandIsKnown
<1>2. PICK u \in unanswered : u = <<receiver.got.id, receiver.got.ticket>>
  BY <1>1, HandFacts
<1>3. Answered(receiver.got) = {u}
  BY <1>1, <1>2 DEF Answered
<1>4. u[1] = receiver.got.id /\ u[2] = receiver.got.ticket
  BY <1>2
<1> QED
  BY <1>3, <1>4 DEF Fulfill, Answer

LEMMA LateAnswers == ASSUME AccountInv, Late PROVE Answer \/ UNCHANGED routerVars
<1>1. InHand
  BY DEF Late, InHand
<1>2. CASE receiver.got.id \notin RequestIds
  BY <1>2 DEF Late
<1>3. CASE receiver.got.id \in RequestIds
  <2>1. unanswered' = unanswered \ Answered(receiver.got) /\ DiscardLate(receiver.got.id)
    BY <1>3 DEF Late
  <2>2. CASE receiver.got.kind = "read"
    <3>1. PICK u \in unanswered : u = <<receiver.got.id, receiver.got.ticket>>
      BY <1>1, <2>2, HandFacts
    <3>2. Answered(receiver.got) = {u} /\ u[1] = receiver.got.id
      BY <2>2, <3>1 DEF Answered
    <3> QED
      BY <2>1, <3>2 DEF Answer
  <2>3. CASE receiver.got.kind = "authorization"
    <3>1. receiver.got.id \notin retired
      BY <1>1, <2>3, HandFacts DEF Foreign
    <3>2. Answered(receiver.got) = {}
      BY <2>3 DEF Answered
    <3> QED
      BY <2>1, <3>1, <3>2 DEF DiscardLate, routerVars
  <2> QED
    BY <1>1, <1>3, <2>2, <2>3, HandFacts, ItemShapes
<1> QED
  BY <1>2, <1>3

LEMMA AccountStepsRouter == RouterInv /\ AccountInv /\ [Next]_vars => [RouterNext]_routerVars
<1> SUFFICES ASSUME RouterInv, AccountInv, [Next]_vars PROVE [RouterNext]_routerVars
  OBVIOUS
<1>1. ASSUME NEW then, StopSend(then) PROVE [RouterNext]_routerVars
  BY <1>1 DEF StopSend, RouterNext
<1>2. CASE StopClose \/ StopJoin \/ StopClear \/ BeginActivate
  BY <1>2 DEF StopClose, StopJoin, StopClear, BeginActivate, RouterNext
<1>3. CASE BeginOpen
  <2>1. SessionOver
    BY <1>3 DEF BeginOpen, SessionOver, AccountInv, SessionsAreApart, HandIsKnown
  <2> QED
    BY <1>3, <2>1 DEF BeginOpen, RouterNext
<1>4. ASSUME NEW what \in InputStates, Submit(what) PROVE [RouterNext]_routerVars
  BY <1>4 DEF Submit, RouterNext
<1>5. ASSUME NEW c \in Callers, Read(c) \/ ReaderStep(c) PROVE [RouterNext]_routerVars
  BY <1>5 DEF Read, ReaderStep, RouterNext
<1>6. ASSUME NEW t \in closing, CompleteClosed(t) PROVE [RouterNext]_routerVars
  BY <1>6 DEF CompleteClosed, RouterNext
<1>7. CASE Fulfill \/ Late
  BY <1>7, FulfillAnswers, LateAnswers DEF RouterNext
<1>8. CASE Receive \/ Look \/ Signal \/ SendOptions \/ ClosedClose
  BY <1>8 DEF Receive, Look, Signal, SendOptions, ClosedClose, RouterNext
<1>9. CASE DispatchError \/ DispatchUpdate \/ ClosedWipe \/ ClosedEnd
  BY <1>9 DEF DispatchError, DispatchUpdate, ClosedWipe, ClosedEnd
<1>10. CASE Tdlib
  BY <1>10 DEF Tdlib, TdlibAuthorize, TdlibAnswer, TdlibClosing, TdlibLoggedOut, TdlibBeginsClosing, TdlibClosed
<1>11. CASE UNCHANGED vars
  BY <1>11 DEF vars
<1> QED
  BY <1>1, <1>2, <1>3, <1>4, <1>5, <1>6, <1>7, <1>8, <1>9, <1>10, <1>11
     DEF Next, Stop, Begin, OwnerContinues, ReceiverStep

-----------------------------------------------------------------------------
(* Each step keeps the answers on their way in order.                      *)

(* What every step but a reopen does.                                      *)
Goes == RouterInv /\ RouterInv' /\ AccountInv /\ IdsMove /\ next_request_id' >= next_request_id

LEMMA NextIdGrows ==
  ASSUME RouterInv, SendOther \/ UNCHANGED next_request_id \/ \E c \in Callers : Open(c)
  PROVE  next_request_id' >= next_request_id
  BY IdsAreNumbers DEF SendOther, Open

(* The owner.                                                              *)
LEMMA OwnerCarries ==
  ASSUME Goes, (\E then : StopSend(then)) \/ StopClose \/ StopJoin \/ StopClear \/ BeginActivate
               \/ \E what \in InputStates : Submit(what)
  PROVE  Carried'
<1> USE DEF Goes
<1>1. ASSUME NEW what \in {"close"} \cup InputStates, Ask(what), SendOther, receiver' = receiver, outbox' = outbox
      PROVE  Carried'
  <2>1. next_request_id' = next_request_id + 1 /\ unanswered' = unanswered
    BY <1>1 DEF SendOther
  <2>2. Places' = Places /\ \A i \in Places : InFlight(i)' = InFlight(i)
    BY <1>1 DEF Places, InFlight, InHand
  <2>3. what # "read"
    BY DEF InputStates
  <2> QED
    BY <1>1, <2>1, <2>2, <2>3, AskKeeps DEF AccountInv
<1>2. ASSUME receiver' = receiver, outbox' = outbox, asked' = asked, unanswered' = unanswered PROVE Carried'
  <2>1. InHand' => InHand /\ receiver'.got = receiver.got
    BY <1>2 DEF InHand
  <2> QED
    BY <1>2, <2>1, HandMoves DEF AccountInv
<1>3. ASSUME NEW then, StopSend(then) PROVE Carried'
  <2>1. CASE MustClose
    BY <1>1, <1>3, <2>1 DEF StopSend
  <2>2. CASE ~MustClose
    BY <1>2, <1>3, <2>2 DEF StopSend, routerVars
  <2> QED
    BY <2>1, <2>2
<1>4. CASE StopClose \/ StopClear
  BY <1>2, <1>4 DEF StopClose, CloseTake, StopClear, routerVars, tdlibVars
<1>5. CASE StopJoin
  <2>1. ~InHand'
    BY <1>5 DEF StopJoin, Joinable, InHand
  <2> QED
    BY <1>5, <2>1, EmptyQueue DEF StopJoin
<1>6. CASE BeginActivate
  <2>1. Update("WaitTdlibParameters") \in Item
    BY DEF Update, Item, Reported, TdlibStates
  <2>2. Update("WaitTdlibParameters").kind = "update"
    BY DEF Update
  <2> QED
    BY <1>6, <2>1, <2>2, EmitKeeps DEF BeginActivate, SendOther, AccountInv
<1>7. ASSUME NEW what \in InputStates, Submit(what) PROVE Carried'
  BY <1>1, <1>7 DEF Submit
<1> QED
  BY <1>3, <1>4, <1>5, <1>6, <1>7

(* The readers and what close completes.                                   *)
LEMMA ReadersCarry ==
  ASSUME Goes, (\E c \in Callers : Read(c) \/ ReaderStep(c)) \/ \E t \in closing : CompleteClosed(t)
  PROVE  Carried'
<1> USE DEF Goes
<1>1. UNCHANGED <<receiver, outbox>>
  BY DEF Read, ReaderStep, CompleteClosed, accountVars, tdlibVars
<1>2. Places' = Places /\ \A i \in Places : InFlight(i)' = InFlight(i)
  BY <1>1 DEF Places, InFlight, InHand
<1>3. InHand' => InHand /\ receiver'.got = receiver.got
  BY <1>1 DEF InHand
<1>4. ASSUME NEW c \in Callers, Read(c) PROVE Carried'
  <2>1. Open(c) /\ next_request_id' = next_request_id + 1 /\ unanswered \subseteq unanswered'
    BY <1>4 DEF Read, Open
  <2>2. CASE Ask("read")
    BY <1>1, <1>2, <2>1, <2>2, AskKeeps DEF AccountInv
  <2>3. CASE asked' = asked
    BY <1>1, <1>3, <2>1, <2>3, HandMoves DEF AccountInv
  <2> QED
    BY <1>4, <2>2, <2>3 DEF Read
<1>5. CASE (\E c \in Callers : ReaderStep(c)) \/ \E t \in closing : CompleteClosed(t)
  <2>1. asked' = asked /\ unanswered' = unanswered
    BY <1>5 DEF ReaderStep, WaitReturn, WaitTimeout, WaitRetire, CompleteClosed, CloseSignal, tdlibVars
  <2> QED
    BY <1>1, <1>3, <2>1, HandMoves DEF AccountInv
<1> QED
  BY <1>4, <1>5

(* The receive thread.                                                     *)
LEMMA ReceiverCarries == ASSUME Goes, ReceiverStep PROVE Carried'
<1> USE DEF Goes
<1>1. ASSUME asked' = asked, outbox' = outbox, unanswered' = unanswered, ~InHand' PROVE Carried'
  BY <1>1, HandMoves DEF AccountInv
<1>2. CASE Receive
  BY <1>2, ReceiveKeeps DEF AccountInv
<1>3. CASE Look
  <2>1. receiver' \in [pc : {"fulfill", "late"}, got : {receiver.got}]
    BY <1>3 DEF Look, ReceiverGoes, AccountInv, ThreadsAreTyped, Holding
  <2>2. InHand /\ receiver'.got = receiver.got
    BY <1>3, <2>1 DEF Look, InHand
  <2> QED
    BY <1>3, <2>2, HandMoves DEF Look, AccountInv, routerVars, tdlibVars
<1>4. CASE Fulfill
  <2>1. InHand /\ ~InHand'
    BY <1>4 DEF Fulfill, InHand, ReceiverGoes, Again, AccountInv, ThreadsAreTyped, Holding
  <2> QED
    BY <1>4, <2>1, HandLetsGo DEF Fulfill, AccountInv, tdlibVars
<1>5. CASE Late
  <2>1. InHand /\ ~InHand'
    BY <1>5 DEF Late, InHand, ReceiverGoes, Again, AccountInv, ThreadsAreTyped, Holding
  <2>2. unanswered' = unanswered \ Answered(receiver.got)
    <3>1. CASE receiver.got.id \in RequestIds
      BY <1>5, <3>1 DEF Late
    <3>2. CASE receiver.got.id \notin RequestIds
      <4>1. Answered(receiver.got) = {}
        BY <2>1, <3>2, HandFacts, ItemShapes DEF Answered
      <4> QED
        BY <1>5, <3>2, <4>1 DEF Late, routerVars
    <3> QED
      BY <3>1, <3>2
  <2> QED
    BY <1>5, <2>1, <2>2, HandLetsGo DEF Late, AccountInv, tdlibVars
<1>6. CASE Signal
  BY <1>1, <1>6 DEF Signal, FulfillSignal, Again, InHand, tdlibVars
<1>7. CASE DispatchError \/ DispatchUpdate
  <2>1. ~InHand'
    BY <1>7 DEF DispatchError, DispatchUpdate, InHand, ReceiverGoes, Again, AccountInv, ThreadsAreTyped, Holding
  <2> QED
    BY <1>1, <1>7, <2>1 DEF DispatchError, DispatchUpdate, routerVars, tdlibVars
<1>8. CASE SendOptions
  <2>1. ~InHand /\ ~InHand'
    BY <1>8 DEF SendOptions, InHand, Again
  <2>2. Places' = Places /\ \A i \in Places : InFlight(i)' = InFlight(i)
    <3>1. outbox' = outbox /\ \A i \in DOMAIN outbox : i # 0
      BY <1>8 DEF SendOptions, AccountInv, Carried, ItemsAreTyped
    <3> QED
      BY <2>1, <3>1 DEF Places, InFlight
  <2>3. PICK what \in {"parameters", "phone"} : what = receiver.pc
    BY <1>8 DEF SendOptions
  <2>4. Ask(what) /\ SendOther /\ outbox' = outbox
    BY <1>8, <2>3 DEF SendOptions
  <2>5. next_request_id' = next_request_id + 1 /\ unanswered' = unanswered
    BY <2>4 DEF SendOther
  <2> QED
    BY <2>2, <2>3, <2>4, <2>5, AskKeeps DEF AccountInv
<1>9. CASE ClosedWipe \/ ClosedClose \/ ClosedEnd
  <2>1. ~InHand'
    BY <1>9 DEF ClosedWipe, ClosedClose, ClosedEnd, InHand, ReceiverGoes, AccountInv, ThreadsAreTyped, Holding
  <2> QED
    BY <1>1, <1>9, <2>1 DEF ClosedWipe, ClosedClose, ClosedEnd, CloseTake, routerVars, tdlibVars
<1> QED
  BY <1>2, <1>3, <1>4, <1>5, <1>6, <1>7, <1>8, <1>9 DEF ReceiverStep

(* TDLib answers what it was asked.                                        *)
LEMMA TdlibCarries == ASSUME Goes, Tdlib PROVE Carried'
<1> USE DEF Goes
<1>1. receiver' = receiver /\ unanswered' = unanswered /\ outbox \in Seq(Item)
  BY DEF Tdlib, TdlibAuthorize, TdlibAnswer, TdlibClosing, TdlibLoggedOut, TdlibBeginsClosing, TdlibClosed,
     accountVars, routerVars, AccountInv, Carried, ItemsAreTyped
<1>2. ASSUME NEW item, Emit(<<item>>) PROVE outbox' = Append(outbox, item)
  BY <1>1, <1>2 DEF Emit
<1>3. ASSUME NEW state \in Reported, Emit(<<Update(state)>>), asked' \subseteq asked PROVE Carried'
  <2>1. Update(state) \in Item /\ Update(state).kind = "update"
    BY DEF Update, Item
  <2> QED
    BY <1>1, <1>2, <1>3, <2>1, EmitKeeps DEF AccountInv
<1>4. CASE TdlibAuthorize
  <2>1. PICK q \in asked :
          /\ q.what \notin {"read", "close"} /\ asked' = asked \ {q}
          /\ \/ \E state \in Leads(q.what) : Emit(<<Update(state)>>)
             \/ Emit(<<[kind |-> "authorization", id |-> q.id]>>)
    BY <1>4 DEF TdlibAuthorize
  <2>2. q \in Request /\ Foreign(q.id)
    BY <2>1 DEF AccountInv, Carried, ItemsAreTyped, OthersAreForeign
  <2>3. CASE \E state \in Leads(q.what) : Emit(<<Update(state)>>)
    <3>1. Leads(q.what) \subseteq Reported
      BY <2>1, <2>2 DEF Request, InputStates, Leads, Reported, TdlibStates
    <3> QED
      BY <1>3, <2>1, <2>3, <3>1
  <2>4. CASE Emit(<<[kind |-> "authorization", id |-> q.id]>>)
    <3> DEFINE item == [kind |-> "authorization", id |-> q.id]
    <3>1. item \in Item /\ item.kind = "authorization" /\ item.id = q.id
      BY <2>2 DEF Item, Request
    <3>2. outbox' = Append(outbox, item)
      BY <1>2, <2>4
    <3> HIDE DEF item
    <3>3. Foreign(item.id)
      BY <2>2, <3>1
    <3> QED
      BY <1>1, <2>1, <3>1, <3>2, <3>3, EmitKeeps DEF AccountInv
  <2> QED
    BY <2>1, <2>3, <2>4
<1>5. CASE TdlibAnswer
  <2>1. PICK q \in asked, u \in unanswered :
          /\ q.what = "read" /\ asked' = asked \ {q} /\ u[1] = q.id
          /\ Emit(<<[kind |-> "read", id |-> q.id, ticket |-> u[2]]>>)
    BY <1>5 DEF TdlibAnswer
  <2> DEFINE item == [kind |-> "read", id |-> q.id, ticket |-> u[2]]
  <2>2. u \in RequestIds \X Tickets /\ q \in Request
    BY DEF RouterInv, RoutingTypeOK, AccountInv, Carried, ItemsAreTyped
  <2>3. item \in Item /\ item.kind = "read" /\ item.id = q.id /\ <<item.id, item.ticket>> = u
    BY <2>1, <2>2 DEF Item
  <2>4. outbox' = Append(outbox, item)
    BY <1>2, <2>1
  <2> HIDE DEF item
  <2>5. \A i \in Places : InFlight(i).kind = "read" => InFlight(i).id # item.id
    BY <2>1, <2>3 DEF AccountInv, Carried, ReadsComeOnce
  <2>6. \A p \in asked' : p.what = "read" => p.id # item.id
    <3> SUFFICES ASSUME NEW p \in asked, p.what = "read", p.id = q.id PROVE p = q
      BY <2>1, <2>3
    <3>1. p \in Request
      BY DEF AccountInv, Carried, ItemsAreTyped
    <3> QED
      BY <2>1, <2>2, <3>1 DEF Request
  <2> QED
    BY <1>1, <2>1, <2>3, <2>4, <2>5, <2>6, EmitKeeps DEF AccountInv
<1>6. CASE TdlibClosing \/ TdlibLoggedOut \/ TdlibClosed
  <2>1. PICK state \in {"Closing", "Closed"} : Emit(<<Update(state)>>)
    BY <1>6 DEF TdlibClosing, TdlibLoggedOut, TdlibBeginsClosing, TdlibClosed
  <2>2. asked' = asked
    BY <1>6 DEF TdlibClosing, TdlibLoggedOut, TdlibBeginsClosing, TdlibClosed
  <2> QED
    BY <1>3, <2>1, <2>2 DEF Reported, TdlibStates
<1> QED
  BY <1>4, <1>5, <1>6 DEF Tdlib

(* Only a new session resets the ids.                                      *)
LEMMA IdsGrow == ASSUME RouterInv, [Next]_vars, ~BeginOpen PROVE next_request_id' >= next_request_id
<1>1. SendOther \/ UNCHANGED next_request_id \/ \E c \in Callers : Open(c)
  BY DEF Next, Stop, Begin, StopSend, OwnerContinues, StopClose, CloseTake, StopJoin, StopClear, BeginActivate,
     Submit, Read, ReaderStep, WaitReturn, WaitTimeout, WaitRetire, CompleteClosed, CloseSignal, ReceiverStep,
     Receive, Look, Fulfill, FulfillTake, FulfillMiss, Signal, FulfillSignal, Late, DiscardLate, DispatchError,
     DispatchUpdate, SendOptions, ClosedWipe, ClosedClose, ClosedEnd, Tdlib, TdlibAuthorize, TdlibAnswer,
     TdlibClosing, TdlibLoggedOut, TdlibBeginsClosing, TdlibClosed, vars, routerVars
<1> QED
  BY <1>1, NextIdGrows

LEMMA CarriedStep ==
  ASSUME RouterInv, RouterInv', AccountInv, IdsMove, [Next]_vars
  PROVE  Carried'
<1>1. ASSUME next_request_id' >= next_request_id, ~BeginOpen PROVE Carried'
  <2>1. Goes
    BY <1>1 DEF Goes
  <2>2. CASE UNCHANGED vars
    <3>1. InHand' => InHand /\ receiver'.got = receiver.got
      BY <2>2 DEF InHand, vars, accountVars
    <3> QED
      BY <2>1, <2>2, <3>1, HandMoves DEF Goes, AccountInv, vars, accountVars, routerVars, tdlibVars
  <2>3. CASE Next
    BY <1>1, <2>1, <2>3, OwnerCarries, ReadersCarry, ReceiverCarries, TdlibCarries
       DEF Next, Stop, Begin, OwnerContinues
  <2> QED
    BY <2>2, <2>3
<1>2. CASE BeginOpen
  <2>1. asked' = {} /\ outbox' = <<>>
    BY <1>2 DEF BeginOpen, AccountInv, SessionsAreApart, tdlibVars
  <2>2. ~InHand'
    BY <1>2 DEF BeginOpen, InHand
  <2> QED
    BY <2>1, <2>2, EmptyQueue
<1>3. CASE ~BeginOpen
  BY <1>1, <1>3, IdsGrow
<1> QED
  BY <1>2, <1>3

-----------------------------------------------------------------------------
(* Where the threads are after each step.                                  *)
ThreadsKnown == ThreadsAreTyped /\ SessionsAreApart /\ HandIsKnown /\ SecretsHeld

(* The ids in the receive thread's hand are not those of requests to come. *)
LEMMA LateStaysLate ==
  ASSUME RouterInv, AccountInv, IdsMove, receiver.pc = "late", receiver' = receiver,
         next_request_id' >= next_request_id
  PROVE  receiver.got.id \in RequestIds => requests'[receiver.got.id] = NoTicket
<1> SUFFICES ASSUME receiver.got.id \in RequestIds PROVE requests'[receiver.got.id] = NoTicket
  OBVIOUS
<1>1. InHand /\ requests[receiver.got.id] = NoTicket
  BY DEF InHand, AccountInv, HandIsKnown
<1>2. receiver.got.id < next_request_id
  <2>1. CASE receiver.got.kind = "read"
    <3>1. PICK u \in unanswered : u = <<receiver.got.id, receiver.got.ticket>>
      BY <1>1, <2>1, HandFacts
    <3> QED
      BY <3>1 DEF RouterInv, AnswersMatch
  <2>2. CASE receiver.got.kind = "authorization"
    BY <1>1, <2>2, HandFacts DEF Foreign
  <2> QED
    BY <1>1, <2>1, <2>2, HandFacts, ItemShapes
<1> QED
  BY <1>1, <1>2, IdsAreNumbers DEF IdsMove

LEMMA OwnerIsKnown ==
  ASSUME Goes, (\E then \in {"idle", "open"} : StopSend(then)) \/ StopClose \/ StopJoin \/ StopClear
               \/ BeginActivate \/ \E what \in InputStates : Submit(what)
  PROVE  ThreadsKnown'
<1> USE DEF Goes
<1>1. receiver.pc = "late" =>
        (receiver.got.id \in RequestIds => requests'[receiver.got.id] = NoTicket)
  <2>1. receiver' = receiver
    BY DEF StopSend, StopClose, StopJoin, StopClear, BeginActivate, Submit
  <2> QED
    BY <2>1, LateStaysLate
<1>2. ASSUME NEW then \in {"idle", "open"}, StopSend(then) PROVE ThreadsKnown'
  BY <1>1, <1>2 DEF StopSend, MustClose, SendOther, routerVars, AccountInv, ThreadsKnown,
     ThreadsAreTyped, SessionsAreApart, HandIsKnown, SecretsHeld
<1>3. CASE StopClose
  BY <1>1, <1>3 DEF StopClose, CloseTake, OwnerGoes, tdlibVars, AccountInv, ThreadsKnown,
     ThreadsAreTyped, SessionsAreApart, HandIsKnown, SecretsHeld
<1>4. CASE StopJoin
  BY <1>1, <1>4 DEF StopJoin, Joinable, OwnerGoes, routerVars, AccountInv, ThreadsKnown,
     ThreadsAreTyped, SessionsAreApart, HandIsKnown, SecretsHeld
<1>5. CASE StopClear
  BY <1>1, <1>5 DEF StopClear, OwnerGoes, routerVars, tdlibVars, AccountInv, ThreadsKnown,
     ThreadsAreTyped, SessionsAreApart, HandIsKnown, SecretsHeld, Holding
<1>6. CASE BeginActivate
  BY <1>1, <1>6 DEF BeginActivate, SendOther, AtRest, AccountInv, ThreadsKnown,
     ThreadsAreTyped, SessionsAreApart, HandIsKnown, SecretsHeld
<1>7. ASSUME NEW what \in InputStates, Submit(what) PROVE ThreadsKnown'
  BY <1>1, <1>7 DEF Submit, MaySubmit, SendOther, AccountInv, ThreadsKnown,
     ThreadsAreTyped, SessionsAreApart, HandIsKnown, SecretsHeld
<1> QED
  BY <1>2, <1>3, <1>4, <1>5, <1>6, <1>7

LEMMA BeginIsKnown == ASSUME RouterInv, AccountInv, BeginOpen PROVE ThreadsKnown'
  BY DEF BeginOpen, Reopen, OwnerGoes, tdlibVars, AccountInv, ThreadsKnown,
     ThreadsAreTyped, SessionsAreApart, HandIsKnown, SecretsHeld, Holding

LEMMA OthersAreKnown ==
  ASSUME Goes, \/ \E c \in Callers : Read(c) \/ ReaderStep(c)
               \/ \E t \in closing : CompleteClosed(t)
               \/ Tdlib
  PROVE  ThreadsKnown'
<1> USE DEF Goes
<1>1. UNCHANGED accountVars /\ accepting' = accepting /\ fulfilling' = fulfilling
  BY DEF Read, Open, ReaderStep, WaitReturn, WaitTimeout, WaitRetire, CompleteClosed, CloseSignal, Tdlib,
     TdlibAuthorize, TdlibAnswer, TdlibClosing, TdlibLoggedOut, TdlibBeginsClosing, TdlibClosed, routerVars
<1>2. closing' \subseteq closing
  BY DEF Read, Open, ReaderStep, WaitReturn, WaitTimeout, WaitRetire, CompleteClosed, CloseSignal, Tdlib,
     TdlibAuthorize, TdlibAnswer, TdlibClosing, TdlibLoggedOut, TdlibBeginsClosing, TdlibClosed, routerVars
<1>3. ~manager => UNCHANGED tdlibVars
  BY DEF Read, ReaderStep, CompleteClosed, Tdlib, TdlibAuthorize, TdlibAnswer, TdlibClosing, TdlibLoggedOut,
     TdlibBeginsClosing, TdlibClosed, AccountInv, SessionsAreApart
<1>4. receiver.pc = "late" =>
        (receiver.got.id \in RequestIds => requests'[receiver.got.id] = NoTicket)
  BY <1>1, LateStaysLate DEF accountVars
<1> QED
  BY <1>1, <1>2, <1>3, <1>4 DEF accountVars, tdlibVars, AccountInv, ThreadsKnown,
     ThreadsAreTyped, SessionsAreApart, HandIsKnown, SecretsHeld

LEMMA ReceiverIsKnown == ASSUME Goes, ReceiverStep PROVE ThreadsKnown'
<1> USE DEF Goes, AccountInv, ThreadsKnown
<1>1. OwnerUnchanged /\ tdlib' = tdlib
  BY DEF ReceiverStep, Receive, Look, Fulfill, Signal, Late, DispatchError, DispatchUpdate, SendOptions, ClosedWipe,
     ClosedClose, ClosedEnd, tdlibVars
<1>2. CASE Receive
  <2>1. receiver' \in [pc : {"look"}, got : Item]
    BY <1>2 DEF Receive, Carried, ItemsAreTyped
  <2> QED
    BY <1>1, <1>2, <2>1 DEF Receive, OwnerUnchanged, Flags, routerVars, ThreadsAreTyped, SessionsAreApart,
       HandIsKnown, SecretsHeld, Holding
<1>3. CASE Look
  <2>1. InHand
    BY <1>3 DEF Look, InHand
  <2>2. Contains(receiver.got.id) => receiver.got.kind = "read"
    BY <2>1, HandFacts, ItemShapes DEF Foreign, Contains
  <2>3. receiver' \in [pc : {IF Contains(receiver.got.id) THEN "fulfill" ELSE "late"}, got : {receiver.got}]
    BY <1>3 DEF Look, ReceiverGoes, ThreadsAreTyped, Holding
  <2>4. receiver.got \in Item
    BY <2>1, HandFacts
  <2> QED
    BY <1>1, <1>3, <2>2, <2>3, <2>4 DEF Look, Contains, OwnerUnchanged, Flags, routerVars, tdlibVars, ThreadsAreTyped,
       SessionsAreApart, HandIsKnown, SecretsHeld, Holding
<1>4. CASE Fulfill
  <2>1. receiver.got \in Item
    BY <1>4, HandFacts DEF Fulfill, InHand
  <2>2. \/ receiver' \in [pc : {"signal"}, got : Item] /\ fulfilling' # Nothing
        \/ receiver' = [pc |-> "receive"] /\ fulfilling' = Nothing
    <3>1. ASSUME FulfillTake(receiver.got.id, receiver.got.ticket) PROVE fulfilling' # Nothing
      BY <3>1, RouterAssumption DEF FulfillTake, Contains, Nothing, RouterInv, RoutingTypeOK
    <3> QED
      BY <1>4, <2>1, <3>1 DEF Fulfill, FulfillMiss, ReceiverGoes, Again, ThreadsAreTyped, Holding
  <2> QED
    BY <1>1, <1>4, <2>2 DEF Fulfill, FulfillTake, FulfillMiss, OwnerUnchanged, Flags, tdlibVars, ThreadsAreTyped,
       SessionsAreApart, HandIsKnown, SecretsHeld, Holding
<1>5. CASE Signal
  BY <1>1, <1>5 DEF Signal, FulfillSignal, Again, OwnerUnchanged, Flags, tdlibVars, ThreadsAreTyped, SessionsAreApart,
     HandIsKnown, SecretsHeld, Holding
<1>6. CASE Late
  <2>1. receiver.got \in Item
    BY <1>6, HandFacts DEF Late, InHand
  <2>2. receiver' \in [pc : {"dispatch"}, got : Item] \cup {[pc |-> "receive"]}
    BY <1>6, <2>1 DEF Late, ReceiverGoes, Again, ThreadsAreTyped, Holding
  <2>3. UNCHANGED <<accepting, fulfilling, closing>>
    BY <1>6 DEF Late, DiscardLate, routerVars
  <2> QED
    BY <1>1, <1>6, <2>2, <2>3 DEF Late, OwnerUnchanged, Flags, tdlibVars, ThreadsAreTyped, SessionsAreApart,
       HandIsKnown, SecretsHeld, Holding
<1>7. CASE DispatchError \/ DispatchUpdate
  <2>1. receiver.got \in Item /\ receiver.pc = "dispatch"
    BY <1>7 DEF DispatchError, DispatchUpdate, ThreadsAreTyped, Holding
  <2>2. receiver' \in [pc : {"parameters", "phone", "wipe"}, got : Item] \cup {[pc |-> "receive"]}
    BY <1>7, <2>1 DEF DispatchError, DispatchUpdate, ReceiverGoes, Again, ThreadsAreTyped, Holding
  <2>3. UNCHANGED <<secrets, routerVars, tdlibVars>>
    BY <1>7 DEF DispatchError, DispatchUpdate
  <2> QED
    BY <1>1, <2>1, <2>2, <2>3 DEF OwnerUnchanged, routerVars, tdlibVars, ThreadsAreTyped, SessionsAreApart,
       HandIsKnown, SecretsHeld, Holding
<1>8. CASE SendOptions
  BY <1>1, <1>8 DEF SendOptions, SendOther, Again, OwnerUnchanged, Flags, ThreadsAreTyped, SessionsAreApart,
     HandIsKnown, SecretsHeld, Holding
<1>9. CASE ClosedWipe \/ ClosedClose
  <2>1. receiver.got \in Item
    BY <1>9 DEF ClosedWipe, ClosedClose, ThreadsAreTyped, Holding
  <2>2. receiver' \in [pc : {"close", "end"}, got : Item]
    BY <1>9, <2>1 DEF ClosedWipe, ClosedClose, ReceiverGoes, ThreadsAreTyped, Holding
  <2>3. ~secrets'
    BY <1>9 DEF ClosedWipe, ClosedClose, Flags, SecretsHeld
  <2>4. /\ accepting' => accepting
        /\ fulfilling' = fulfilling /\ UNCHANGED <<tdlibVars, manager, owner>> /\ receiver.pc # "off"
    BY <1>9 DEF ClosedWipe, ClosedClose, CloseTake, routerVars, OwnerUnchanged
  <2>5. accepting' \in BOOLEAN /\ accepting \in BOOLEAN
    BY DEF RouterInv, RoutingTypeOK
  <2> QED
    BY <1>9, <2>2, <2>3, <2>4, <2>5 DEF ClosedWipe, ClosedClose, tdlibVars, ThreadsAreTyped, SessionsAreApart,
       HandIsKnown, SecretsHeld, Holding
<1>10. CASE ClosedEnd
  BY <1>1, <1>10 DEF ClosedEnd, OwnerUnchanged, routerVars, tdlibVars, ThreadsAreTyped, SessionsAreApart, HandIsKnown,
     SecretsHeld, Holding
<1> QED
  BY <1>2, <1>3, <1>4, <1>5, <1>6, <1>7, <1>8, <1>9, <1>10 DEF ReceiverStep

LEMMA AccountInvStep == RouterInv /\ AccountInv /\ [Next]_vars => RouterInv' /\ AccountInv'
<1> SUFFICES ASSUME RouterInv, AccountInv, [Next]_vars PROVE RouterInv' /\ AccountInv'
  OBVIOUS
<1>1. [RouterNext]_routerVars
  BY AccountStepsRouter
<1>2. RouterInv' /\ IdsMove
  BY <1>1, RouterInvStep, RouterMovesIds
<1>3. Spent'
  BY <1>1, SpentStep DEF AccountInv
<1>4. Carried'
  BY <1>2, CarriedStep
<1>5. ThreadsKnown'
  <2>1. CASE BeginOpen
    BY <2>1, BeginIsKnown
  <2>2. CASE ~BeginOpen
    <3>1. Goes
      BY <1>2, <2>2, IdsGrow DEF Goes
    <3>2. CASE UNCHANGED vars
      BY <3>2 DEF vars, routerVars, accountVars, tdlibVars, AccountInv, ThreadsKnown, ThreadsAreTyped,
         SessionsAreApart, HandIsKnown, SecretsHeld
    <3>3. CASE Next
      BY <2>2, <3>1, <3>3, OwnerIsKnown, OthersAreKnown, ReceiverIsKnown DEF Next, Stop, Begin, OwnerContinues
    <3> QED
      BY <3>2, <3>3
  <2> QED
    BY <2>1, <2>2
<1> QED
  BY <1>2, <1>3, <1>4, <1>5 DEF AccountInv, ThreadsKnown

LEMMA AccountInvHolds == Spec => [](RouterInv /\ AccountInv)
<1>1. Init => RouterInv /\ AccountInv
  BY RouterInvInit, AccountInvInit DEF Init
<1> QED
  BY <1>1, AccountInvStep, PTL DEF Spec

(* The account never leaves the protocol under which the router was        *)
(* checked: ids are fresh in a session, an answer is handed over once, and *)
(* a session begins when all of the last one is over.                      *)
THEOREM AccountUsesRouterProperly == Spec => UsesRouterProperly
<1>1. Init => RouterInit
  BY DEF Init
<1> QED
  BY <1>1, AccountInvHolds, AccountStepsRouter, PTL DEF Spec, UsesRouterProperly, RouterSpec

(* So no reader of an account is left without its answer, and none gets    *)
(* that of another.                                                        *)
THEOREM AccountServesReaders == Spec => [](RequestsMatchWaiters /\ OutcomeIsMine)
  BY AccountUsesRouterProperly, RequestsMatchWaitersHolds, OutcomeIsMineHolds, PTL DEF UsesRouterProperly

(* Key, hash and phone number are there when the receive thread sends them *)
(* and gone when the session is.                                           *)
THEOREM SecretsLiveWithSessionHolds == Spec => []SecretsLiveWithSession
<1>1. AccountInv => SecretsLiveWithSession
  BY DEF AccountInv, SecretsHeld, SecretsLiveWithSession, Holding
<1> QED
  BY <1>1, AccountInvHolds, PTL

-----------------------------------------------------------------------------
(* One turn at a time: between what TDLib is asked to do for the           *)
(* authorization and what the receive thread makes of its answer, a single *)
(* update, error, request or step of the thread is on its way.             *)
Takes(item) ==
  \/ item.kind = "authorization"
  \/ item.kind = "update" /\ item.state \notin {"Closing", "Closed"}

InLine == {i \in DOMAIN outbox : Takes(outbox[i])}
AskedFor == {q \in asked : q.what \notin {"read", "close"}}
InTurn ==
  \/ receiver.pc \in {"look", "fulfill", "late", "dispatch"} /\ Takes(receiver.got)
  \/ receiver.pc \in {"parameters", "phone"}

OneTurn ==
  /\ \A i, j \in InLine : i = j
  /\ \A p, q \in AskedFor : p = q
  /\ InLine # {} => AskedFor = {}
  /\ InTurn => InLine = {} /\ AskedFor = {}

NoTurn == InLine = {} /\ AskedFor = {} /\ ~InTurn

(* A state asks for an input only when the turn is the operator's, or the  *)
(* input is already in flight.                                             *)
TurnIsOperators ==
  owner.pc = "idle" /\ status \in InputStates /\ auth_input = 0 => NoTurn

(* The id of an input is that of no read.                                  *)
InputIsKnown ==
  /\ auth_input \in Nat /\ status \in Status
  /\ auth_input # 0 => manager /\ auth_input < next_request_id
  /\ \A u \in unanswered : u[1] # auth_input
  /\ receiver.pc = "dispatch" /\ receiver.got.kind = "read" =>
       receiver.got.id < next_request_id /\ receiver.got.id # auth_input
  /\ owner.pc = "activate" =>
       status = "Starting" /\ asked = {} /\ outbox = <<>> /\ receiver.pc = "receive" /\ tdlib = "off"

InputInv == OneTurn /\ TurnIsOperators /\ InputIsKnown

LEMMA InputInvInit == Init => InputInv
<1> SUFFICES ASSUME Init PROVE InputInv
  OBVIOUS
<1>1. InLine = {} /\ AskedFor = {} /\ ~InTurn
  BY DEF Init, InLine, AskedFor, InTurn
<1> QED
  BY <1>1 DEF Init, RouterInit, AtRest, InputInv, OneTurn, TurnIsOperators, InputIsKnown, Status, InputStates

LEMMA FewerTurns ==
  ASSUME OneTurn, InLine' \subseteq InLine, AskedFor' \subseteq AskedFor, InTurn' => InTurn
  PROVE  OneTurn' /\ (NoTurn => NoTurn')
  BY DEF OneTurn, NoTurn

(* A request of the account.                                               *)
LEMMA AskTakesTurn ==
  ASSUME NEW what, Ask(what), outbox' = outbox, ~InTurn', InLine = {}, AskedFor = {}
  PROVE  OneTurn'
<1>1. InLine' = {}
  BY DEF InLine
<1>2. \A p, q \in AskedFor' : p = q
  BY DEF AskedFor, Ask
<1> QED
  BY <1>1, <1>2 DEF OneTurn

(* One more item in the queue of TDLib takes the turn of a request.        *)
LEMMA EmitTakesTurn ==
  ASSUME NEW item, outbox \in Seq(Item), outbox' = Append(outbox, item),
         receiver' = receiver, ~InTurn, InLine = {}, AskedFor' = {}
  PROVE  OneTurn'
<1>1. ~InTurn'
  BY DEF InTurn
<1>2. InLine' \subseteq {Len(outbox) + 1}
  BY DEF InLine
<1> QED
  BY <1>1, <1>2 DEF OneTurn

(* The first item comes into the hand of the receive thread.               *)
LEMMA ReceiveTakesTurn ==
  ASSUME outbox \in Seq(Item), Receive, OneTurn
  PROVE  OneTurn' /\ (NoTurn => NoTurn')
<1>1. outbox # <<>> /\ outbox' = Tail(outbox) /\ AskedFor' = AskedFor /\ ~InTurn
  BY DEF Receive, AskedFor, InTurn
<1> PICK n : n = Len(outbox)
  OBVIOUS
<1>2. n \in Nat \ {0} /\ DOMAIN outbox = 1..n /\ DOMAIN outbox' = 1..(n - 1)
      /\ \A i \in 1..(n - 1) : outbox'[i] = outbox[i + 1]
  BY <1>1
<1>3. InTurn' <=> Takes(outbox[1])
  <2>1. receiver' = [pc |-> "look", got |-> outbox[1]]
    BY <1>1 DEF Receive
  <2> QED
    BY <2>1 DEF InTurn, Takes
<1>4. \A i \in InLine' : i + 1 \in InLine /\ i + 1 # 1 /\ i \in Nat
  BY <1>2 DEF InLine, Takes
<1>5. InTurn' => 1 \in InLine
  BY <1>2, <1>3 DEF InLine
<1>6. \A i, j \in InLine' : i + 1 = j + 1 => i = j
  BY <1>4
<1> QED
  BY <1>1, <1>4, <1>5, <1>6 DEF OneTurn, NoTurn

-----------------------------------------------------------------------------
(* The turn passes on.                                                     *)

(* Submit takes it from the operator, begin_authorization starts it.       *)
LEMMA OwnerTurns ==
  ASSUME AccountInv, InputInv,
         (\E then \in {"idle", "open"} : StopSend(then)) \/ StopClose \/ StopJoin \/ StopClear
           \/ BeginOpen \/ BeginActivate \/ \E what \in InputStates : Submit(what)
  PROVE  /\ OneTurn'
         /\ NoTurn => NoTurn' \/ BeginActivate \/ \E what \in InputStates : Submit(what)
<1> USE DEF InputInv
<1>1. ASSUME NEW then \in {"idle", "open"}, StopSend(then) PROVE OneTurn' /\ (NoTurn => NoTurn')
  <2>1. AskedFor' \subseteq AskedFor
    BY <1>1 DEF StopSend, Ask, AskedFor
  <2> QED
    BY <1>1, <2>1, FewerTurns DEF StopSend, InLine, InTurn
<1>2. CASE StopClose \/ StopClear \/ BeginOpen
  <2>1. UNCHANGED tdlibVars /\ (InTurn' => InTurn)
    BY <1>2 DEF StopClose, StopClear, BeginOpen, InTurn
  <2> QED
    BY <2>1, FewerTurns DEF tdlibVars, InLine, AskedFor
<1>3. CASE StopJoin
  <2>1. InLine' = {} /\ AskedFor' = {} /\ ~InTurn'
    BY <1>3 DEF StopJoin, Joinable, InLine, AskedFor, InTurn
  <2> QED
    BY <2>1 DEF OneTurn, NoTurn
<1>4. CASE BeginActivate
  <2>1. receiver.pc = "receive" /\ outbox = <<>> /\ asked = {} /\ asked' = {} /\ receiver' = receiver
    BY <1>4 DEF BeginActivate, InputIsKnown
  <2>2. InLine = {} /\ AskedFor' = {} /\ ~InTurn
    BY <2>1 DEF InLine, AskedFor, InTurn
  <2>3. outbox \in Seq(Item)
    BY DEF AccountInv, Carried, ItemsAreTyped
  <2> QED
    BY <1>4, <2>1, <2>2, <2>3, EmitTakesTurn DEF BeginActivate
<1>5. ASSUME NEW what \in InputStates, Submit(what) PROVE OneTurn'
  <2>1. NoTurn
    BY <1>5 DEF Submit, MaySubmit, TurnIsOperators
  <2>2. ~InTurn'
    BY <1>5, <2>1 DEF Submit, NoTurn, InTurn
  <2> QED
    BY <1>5, <2>1, <2>2, AskTakesTurn DEF Submit, NoTurn
<1> QED
  BY <1>1, <1>2, <1>3, <1>4, <1>5

LEMMA ReadersTurns ==
  ASSUME InputInv, (\E c \in Callers : Read(c) \/ ReaderStep(c)) \/ \E t \in closing : CompleteClosed(t)
  PROVE  OneTurn' /\ (NoTurn => NoTurn')
<1>1. outbox' = outbox /\ receiver' = receiver
  BY DEF Read, ReaderStep, CompleteClosed, accountVars, tdlibVars
<1>2. AskedFor' \subseteq AskedFor
  BY DEF Read, Ask, ReaderStep, CompleteClosed, tdlibVars, AskedFor
<1> QED
  BY <1>1, <1>2, FewerTurns DEF InputInv, InLine, InTurn

(* The receive thread takes an update, and keeps the turn for the request  *)
(* it makes of it.                                                         *)
LEMMA ReceiverTurns ==
  ASSUME AccountInv, InputInv, ReceiverStep
  PROVE  OneTurn' /\ (NoTurn => NoTurn')
<1> USE DEF InputInv
<1>1. ASSUME outbox' = outbox, asked' = asked, InTurn' => InTurn PROVE OneTurn' /\ (NoTurn => NoTurn')
  BY <1>1, FewerTurns DEF InLine, AskedFor
<1>2. CASE Receive
  BY <1>2, ReceiveTakesTurn DEF AccountInv, Carried, ItemsAreTyped
<1>3. CASE Look \/ Late \/ Fulfill
  <2>1. receiver.pc \in {"look", "late", "fulfill"} /\ receiver \in [pc : Holding, got : Item]
    BY <1>3 DEF Look, Late, Fulfill, AccountInv, ThreadsAreTyped
  <2>2. \/ receiver'.pc \in {"fulfill", "late", "dispatch", "signal"} /\ receiver'.got = receiver.got
        \/ receiver'.pc = "receive"
    BY <1>3, <2>1 DEF Look, Late, Fulfill, ReceiverGoes, Again
  <2>3. InTurn' => InTurn
    BY <2>1, <2>2 DEF InTurn, Takes
  <2> QED
    BY <1>1, <1>3, <2>3 DEF Look, Late, Fulfill, tdlibVars
<1>4. CASE DispatchUpdate
  <2>1. receiver.pc = "dispatch" /\ receiver.got.kind = "update" /\ receiver \in [pc : Holding, got : Item]
    BY <1>4 DEF DispatchUpdate, AccountInv, ThreadsAreTyped
  <2>2. receiver'.pc \in {"parameters", "phone"} => receiver.got.state \notin {"Closing", "Closed"}
    BY <1>4, <2>1 DEF DispatchUpdate, ReceiverGoes, Again
  <2>3. receiver'.pc \in {"parameters", "phone", "wipe", "receive"}
    BY <1>4, <2>1 DEF DispatchUpdate, ReceiverGoes, Again
  <2>4. InTurn' => InTurn
    BY <2>1, <2>2, <2>3 DEF InTurn, Takes
  <2> QED
    BY <1>1, <1>4, <2>4 DEF DispatchUpdate, tdlibVars
<1>5. CASE Signal \/ DispatchError \/ ClosedWipe \/ ClosedClose \/ ClosedEnd
  <2>1. receiver'.pc \in {"receive", "close", "end", "off"}
    BY <1>5 DEF Signal, DispatchError, ClosedWipe, ClosedClose, ClosedEnd, ReceiverGoes, Again, AccountInv,
       ThreadsAreTyped, Holding
  <2>2. ~InTurn'
    BY <2>1 DEF InTurn
  <2> QED
    BY <1>1, <1>5, <2>2 DEF Signal, DispatchError, ClosedWipe, ClosedClose, ClosedEnd, tdlibVars
<1>6. CASE SendOptions
  <2>1. InTurn /\ Ask(receiver.pc) /\ outbox' = outbox /\ ~InTurn'
    BY <1>6 DEF SendOptions, InTurn, Again
  <2>2. InLine = {} /\ AskedFor = {}
    BY <2>1 DEF OneTurn
  <2> QED
    BY <2>1, <2>2, AskTakesTurn DEF NoTurn
<1> QED
  BY <1>2, <1>3, <1>4, <1>5, <1>6 DEF ReceiverStep

LEMMA TdlibTurns ==
  ASSUME AccountInv, InputInv, Tdlib
  PROVE  OneTurn' /\ (NoTurn => NoTurn')
<1> USE DEF InputInv
<1>1. receiver' = receiver /\ outbox \in Seq(Item) /\ (InTurn' <=> InTurn)
  BY DEF Tdlib, TdlibAuthorize, TdlibAnswer, TdlibClosing, TdlibLoggedOut, TdlibBeginsClosing, TdlibClosed,
     accountVars, InTurn, AccountInv, Carried, ItemsAreTyped
<1>2. ASSUME NEW item, Emit(<<item>>) PROVE outbox' = Append(outbox, item)
  BY <1>1, <1>2 DEF Emit
<1>3. CASE TdlibAuthorize
  <2>1. PICK q \in asked :
          /\ q.what \notin {"read", "close"} /\ asked' = asked \ {q}
          /\ \E item : Emit(<<item>>)
    BY <1>3 DEF TdlibAuthorize
  <2>2. PICK item : outbox' = Append(outbox, item)
    BY <1>2, <2>1
  <2>3. q \in AskedFor /\ ~NoTurn
    BY <2>1 DEF AskedFor, NoTurn
  <2>4. InLine = {} /\ AskedFor' = {} /\ ~InTurn
    BY <2>1, <2>3 DEF OneTurn, AskedFor
  <2> QED
    BY <1>1, <2>2, <2>3, <2>4, EmitTakesTurn
<1>4. ASSUME NEW item, ~Takes(item), outbox' = Append(outbox, item), asked' \subseteq asked
      PROVE  OneTurn' /\ (NoTurn => NoTurn')
  <2>1. InLine' \subseteq InLine
    BY <1>1, <1>4 DEF InLine, Takes
  <2>2. AskedFor' \subseteq AskedFor
    BY <1>4 DEF AskedFor
  <2> QED
    BY <1>1, <2>1, <2>2, FewerTurns
<1>5. CASE TdlibAnswer
  <2>1. PICK q \in asked, u \in unanswered :
          asked' = asked \ {q} /\ Emit(<<[kind |-> "read", id |-> q.id, ticket |-> u[2]]>>)
    BY <1>5 DEF TdlibAnswer
  <2>2. ~Takes([kind |-> "read", id |-> q.id, ticket |-> u[2]])
    BY DEF Takes
  <2> QED
    BY <1>2, <1>4, <2>1, <2>2
<1>6. CASE TdlibClosing \/ TdlibLoggedOut \/ TdlibClosed
  <2>1. PICK state \in {"Closing", "Closed"} : Emit(<<Update(state)>>)
    BY <1>6 DEF TdlibClosing, TdlibLoggedOut, TdlibBeginsClosing, TdlibClosed
  <2>2. ~Takes(Update(state))
    BY DEF Takes, Update
  <2>3. asked' = asked
    BY <1>6 DEF TdlibClosing, TdlibLoggedOut, TdlibBeginsClosing, TdlibClosed
  <2> QED
    BY <1>2, <1>4, <2>1, <2>2, <2>3
<1> QED
  BY <1>3, <1>5, <1>6 DEF Tdlib

LEMMA TurnsStep ==
  ASSUME AccountInv, InputInv, [Next]_vars
  PROVE  /\ OneTurn'
         /\ NoTurn => NoTurn' \/ BeginActivate \/ \E what \in InputStates : Submit(what)
<1>1. CASE UNCHANGED vars
  BY <1>1, FewerTurns DEF InputInv, vars, accountVars, tdlibVars, InLine, AskedFor, InTurn
<1>2. CASE Next
  BY <1>2, OwnerTurns, ReadersTurns, ReceiverTurns, TdlibTurns
     DEF Next, Stop, Begin, OwnerContinues
<1> QED
  BY <1>1, <1>2

(* The operator's turn comes with the update that asks, or again with the  *)
(* error of the last input.                                                *)
LEMMA OperatorsTurnStep ==
  ASSUME RouterInv, AccountInv, InputInv, ThreadsAreTyped', SessionsAreApart', OneTurn',
         NoTurn => NoTurn' \/ BeginActivate \/ \E what \in InputStates : Submit(what),
         [Next]_vars
  PROVE  TurnIsOperators'
<1> USE DEF InputInv
<1> SUFFICES ASSUME owner'.pc = "idle", status' \in InputStates, auth_input' = 0 PROVE NoTurn'
  BY DEF TurnIsOperators
<1>1. CASE ~manager'
  <2>1. receiver'.pc = "off" /\ outbox' = <<>> /\ asked' = {}
    BY <1>1 DEF SessionsAreApart
  <2> QED
    BY <2>1 DEF NoTurn, InLine, AskedFor, InTurn
<1>2. CASE BeginActivate
  BY <1>2 DEF BeginActivate, InputIsKnown, InputStates
<1>3. ASSUME NEW what \in InputStates, Submit(what) PROVE FALSE
  <2>1. next_request_id # 0
    BY IdsAreNumbers
  <2> QED
    BY <1>3, <2>1 DEF Submit
<1>4. CASE DispatchUpdate
  <2>1. receiver.pc = "dispatch" /\ receiver.got.kind = "update" /\ status' = receiver.got.state
        /\ UNCHANGED tdlibVars
    BY <1>4 DEF DispatchUpdate
  <2>2. InTurn
    BY <2>1 DEF InTurn, Takes, InputStates
  <2>3. receiver' = [pc |-> "receive"]
    BY <1>4, <2>1 DEF DispatchUpdate, Again, InputStates
  <2>4. InLine' = {} /\ AskedFor' = {}
    BY <2>1, <2>2 DEF OneTurn, InLine, AskedFor, tdlibVars
  <2> QED
    BY <2>3, <2>4 DEF NoTurn, InTurn
<1>5. CASE DispatchError /\ IsMyInput(receiver.got.id) /\ auth_input # 0
  <2>1. receiver.pc = "dispatch" /\ receiver.got.kind # "update" /\ UNCHANGED tdlibVars
        /\ receiver' = [pc |-> "receive"]
    BY <1>5 DEF DispatchError, Again
  <2>2. receiver.got \in Item
    BY <2>1 DEF AccountInv, ThreadsAreTyped, Holding
  <2>3. receiver.got.kind = "authorization"
    BY <1>5, <2>1, <2>2, ItemShapes DEF IsMyInput, InputIsKnown
  <2>4. InTurn
    BY <2>1, <2>3 DEF InTurn, Takes
  <2>5. InLine' = {} /\ AskedFor' = {}
    BY <2>1, <2>4 DEF OneTurn, InLine, AskedFor, tdlibVars
  <2> QED
    BY <2>1, <2>5 DEF NoTurn, InTurn
<1>6. CASE owner.pc = "idle" /\ status \in InputStates /\ auth_input = 0
  BY <1>2, <1>3, <1>6 DEF TurnIsOperators
<1>7. \/ ~manager' \/ BeginActivate \/ (\E what \in InputStates : Submit(what)) \/ DispatchUpdate
      \/ DispatchError /\ IsMyInput(receiver.got.id) /\ auth_input # 0
      \/ owner' = owner /\ status' = status /\ auth_input' = auth_input
  <2>1. CASE UNCHANGED vars
    BY <2>1 DEF vars, accountVars
  <2>2. ASSUME NEW then, StopSend(then) PROVE FALSE
    BY <2>2 DEF StopSend
  <2>3. CASE OwnerContinues
    BY <2>3 DEF OwnerContinues, StopClose, StopJoin, StopClear, BeginOpen, OwnerGoes, AccountInv, ThreadsAreTyped,
       SessionsAreApart
  <2>4. CASE (\E c \in Callers : Read(c) \/ ReaderStep(c)) \/ \E t \in closing : CompleteClosed(t)
    BY <2>4 DEF Read, ReaderStep, CompleteClosed, accountVars
  <2>5. CASE ReceiverStep
    BY <2>5 DEF ReceiverStep, Receive, Look, Fulfill, Signal, Late, DispatchError, SendOptions, ClosedWipe,
       ClosedClose, ClosedEnd, OwnerUnchanged, Flags
  <2>6. CASE Tdlib
    BY <2>6 DEF Tdlib, TdlibAuthorize, TdlibAnswer, TdlibClosing, TdlibLoggedOut, TdlibBeginsClosing, TdlibClosed,
       accountVars
  <2> QED
    BY <2>1, <2>2, <2>3, <2>4, <2>5, <2>6 DEF Next, Stop, Begin
<1> QED
  BY <1>1, <1>2, <1>3, <1>4, <1>5, <1>6, <1>7

(* The id of an input stays apart from those of the reads.                 *)
LEMMA OwnerKnowsInput ==
  ASSUME RouterInv, AccountInv, InputInv,
         (\E then \in {"idle", "open"} : StopSend(then)) \/ StopClose \/ StopJoin \/ StopClear
           \/ BeginOpen \/ BeginActivate \/ \E what \in InputStates : Submit(what)
  PROVE  InputIsKnown'
<1> USE DEF InputInv, InputIsKnown
<1>1. next_request_id \in Nat \ {0} /\ \A u \in unanswered : u[1] # 0 /\ u[1] < next_request_id /\ u[1] \in Nat
  <2>1. \A u \in unanswered : u[1] \in RequestIds
    BY DEF RouterInv, RoutingTypeOK
  <2> QED
    BY <2>1, IdsAreNumbers DEF RouterInv, AnswersMatch
<1>2. ASSUME NEW then \in {"idle", "open"}, StopSend(then) PROVE InputIsKnown'
  <2>1. /\ status' \in Status /\ owner'.pc = "close" /\ UNCHANGED <<auth_input, manager, receiver, unanswered>>
        /\ next_request_id' \in {next_request_id, next_request_id + 1}
    BY <1>2 DEF StopSend, SendOther, routerVars, Status, Reported, TdlibStates
  <2>2. receiver.pc = "dispatch" /\ receiver.got.kind = "read" => receiver.got.id \in Nat
    BY ItemShapes DEF AccountInv, ThreadsAreTyped, Holding
  <2> QED
    BY <1>1, <2>1, <2>2
<1>3. CASE StopClose \/ StopClear
  BY <1>1, <1>3 DEF StopClose, CloseTake, StopClear, OwnerGoes, routerVars, AccountInv, ThreadsAreTyped
<1>4. CASE StopJoin
  BY <1>1, <1>4 DEF StopJoin, OwnerGoes, Joinable, routerVars, AccountInv, ThreadsAreTyped, Status
<1>5. CASE BeginOpen
  BY <1>1, <1>5 DEF BeginOpen, Reopen, OwnerGoes, tdlibVars, AccountInv, ThreadsAreTyped, SessionsAreApart, Status
<1>6. CASE BeginActivate
  BY <1>1, <1>6 DEF BeginActivate, SendOther, AtRest
<1>7. ASSUME NEW what \in InputStates, Submit(what) PROVE InputIsKnown'
  <2>1. receiver.pc = "dispatch" /\ receiver.got.kind = "read" => receiver.got.id \in Nat
    BY ItemShapes DEF AccountInv, ThreadsAreTyped, Holding
  <2> QED
    BY <1>1, <1>7, <2>1 DEF Submit, MaySubmit, SendOther
<1> QED
  BY <1>2, <1>3, <1>4, <1>5, <1>6, <1>7

LEMMA OthersKnowInput ==
  ASSUME RouterInv, AccountInv, InputInv,
         \/ \E c \in Callers : Read(c) \/ ReaderStep(c)
         \/ \E t \in closing : CompleteClosed(t)
         \/ Tdlib
  PROVE  InputIsKnown'
<1> USE DEF InputInv, InputIsKnown
<1>1. next_request_id \in Nat \ {0}
  BY IdsAreNumbers
<1>2. UNCHANGED accountVars
  BY DEF Read, ReaderStep, CompleteClosed, Tdlib, TdlibAuthorize, TdlibAnswer, TdlibClosing, TdlibLoggedOut,
     TdlibBeginsClosing, TdlibClosed
<1>3. owner.pc = "activate" => UNCHANGED tdlibVars
  BY DEF Read, ReaderStep, CompleteClosed, Tdlib, TdlibAuthorize, TdlibAnswer, TdlibClosing, TdlibLoggedOut,
     TdlibBeginsClosing, TdlibClosed
<1>4. /\ next_request_id' \in {next_request_id, next_request_id + 1}
      /\ \A u \in unanswered' : u \in unanswered \/ u[1] = next_request_id
  <2>1. ASSUME NEW c \in Callers, Open(c)
        PROVE  /\ next_request_id' = next_request_id + 1
               /\ unanswered' \in {unanswered, unanswered \cup {<<next_request_id, opened'>>}}
    BY <2>1 DEF Open
  <2>2. CASE UNCHANGED <<next_request_id, unanswered>>
    BY <2>2
  <2>3. (\E c \in Callers : Open(c)) \/ UNCHANGED <<next_request_id, unanswered>>
    BY DEF Read, ReaderStep, WaitReturn, WaitTimeout, WaitRetire, CompleteClosed, CloseSignal, Tdlib, TdlibAuthorize,
       TdlibAnswer, TdlibClosing, TdlibLoggedOut, TdlibBeginsClosing, TdlibClosed, routerVars
  <2> QED
    BY <2>1, <2>2, <2>3
<1>5. \A u \in unanswered' : u[1] # auth_input
  BY <1>1, <1>4
<1>6. receiver.pc = "dispatch" /\ receiver.got.kind = "read" => receiver.got.id \in Nat
  BY ItemShapes DEF AccountInv, ThreadsAreTyped, Holding
<1>7. UNCHANGED <<auth_input, status, manager, receiver, owner>>
  BY <1>2 DEF accountVars
<1>8. auth_input # 0 => auth_input < next_request_id'
  BY <1>1, <1>4
<1>9. receiver.pc = "dispatch" /\ receiver.got.kind = "read" => receiver.got.id < next_request_id'
  BY <1>1, <1>4, <1>6
<1> QED
  BY <1>3, <1>5, <1>7, <1>8, <1>9 DEF tdlibVars

LEMMA ReceiverKnowsInput ==
  ASSUME RouterInv, AccountInv, InputInv, ReceiverStep
  PROVE  InputIsKnown'
<1> USE DEF InputInv, InputIsKnown
<1>1. next_request_id \in Nat \ {0} /\ \A u \in unanswered : u[1] # 0 /\ u[1] < next_request_id
  <2>1. \A u \in unanswered : u[1] \in RequestIds
    BY DEF RouterInv, RoutingTypeOK
  <2> QED
    BY <2>1, IdsAreNumbers DEF RouterInv, AnswersMatch
<1>2. OwnerUnchanged /\ unanswered' \subseteq unanswered /\ next_request_id' \in {next_request_id, next_request_id + 1}
  BY DEF ReceiverStep, Receive, Look, Fulfill, FulfillTake, FulfillMiss, Signal, FulfillSignal, Late, DiscardLate,
     DispatchError, DispatchUpdate, SendOptions, SendOther, ClosedWipe, ClosedClose, CloseTake, ClosedEnd, routerVars
<1>3. receiver.pc = "receive" /\ outbox = <<>> => FALSE
  BY DEF ReceiverStep, Receive, Look, Fulfill, Signal, Late, DispatchError, DispatchUpdate, SendOptions, ClosedWipe,
     ClosedClose, ClosedEnd
<1>4. CASE Late
  <2>1. InHand /\ receiver \in [pc : Holding, got : Item]
    BY <1>4 DEF Late, InHand, AccountInv, ThreadsAreTyped
  <2>2. receiver.got.kind = "read" => receiver.got.id < next_request_id /\ receiver.got.id # auth_input
    <3> SUFFICES ASSUME receiver.got.kind = "read"
                 PROVE  receiver.got.id < next_request_id /\ receiver.got.id # auth_input
      OBVIOUS
    <3>1. PICK u \in unanswered : u = <<receiver.got.id, receiver.got.ticket>>
      BY <2>1, HandFacts
    <3> QED
      BY <1>1, <3>1
  <2>3. receiver'.pc \in {"dispatch", "receive"} /\ (receiver'.pc = "dispatch" => receiver'.got = receiver.got)
    BY <1>4, <2>1 DEF Late, ReceiverGoes, Again
  <2>4. UNCHANGED <<auth_input, status, next_request_id>>
    BY <1>4 DEF Late, DiscardLate, Flags, routerVars
  <2> QED
    BY <1>2, <1>3, <2>2, <2>3, <2>4 DEF OwnerUnchanged
<1>5. CASE DispatchError \/ DispatchUpdate
  <2>1. receiver.pc = "dispatch" /\ receiver \in [pc : Holding, got : Item]
    BY <1>5 DEF DispatchError, DispatchUpdate, AccountInv, ThreadsAreTyped
  <2>2. receiver'.pc \in {"receive", "parameters", "phone", "wipe"}
    BY <1>5, <2>1 DEF DispatchError, DispatchUpdate, ReceiverGoes, Again
  <2>3. auth_input' \in {auth_input, 0} /\ UNCHANGED routerVars
    BY <1>5 DEF DispatchError, DispatchUpdate, AfterUpdate
  <2>4. status' \in Status
    BY <1>5, <2>1 DEF DispatchError, DispatchUpdate, Item, Status
  <2> QED
    BY <1>1, <1>2, <2>1, <2>2, <2>3, <2>4 DEF OwnerUnchanged, routerVars
<1>6. CASE Receive \/ Look \/ Fulfill \/ Signal \/ SendOptions \/ ClosedWipe \/ ClosedClose \/ ClosedEnd
  <2>1. receiver'.pc # "dispatch"
    BY <1>6 DEF Receive, Look, Fulfill, Signal, SendOptions, ClosedWipe, ClosedClose, ClosedEnd, ReceiverGoes, Again,
       AccountInv, ThreadsAreTyped, Holding
  <2>2. UNCHANGED <<auth_input, status>>
    BY <1>6 DEF Receive, Look, Fulfill, Signal, SendOptions, ClosedWipe, ClosedClose, ClosedEnd, Flags
  <2>3. receiver.pc # "receive" \/ outbox # <<>>
    BY <1>3
  <2> QED
    BY <1>1, <1>2, <2>1, <2>2, <2>3 DEF OwnerUnchanged
<1> QED
  BY <1>4, <1>5, <1>6 DEF ReceiverStep

LEMMA InputInvStep ==
  RouterInv /\ AccountInv /\ InputInv /\ [Next]_vars /\ RouterInv' /\ AccountInv' => InputInv'
<1> SUFFICES ASSUME RouterInv, AccountInv, InputInv, [Next]_vars, RouterInv', AccountInv' PROVE InputInv'
  OBVIOUS
<1>1. OneTurn' /\ TurnIsOperators'
  BY TurnsStep, OperatorsTurnStep DEF AccountInv
<1>2. InputIsKnown'
  <2>1. CASE UNCHANGED vars
    BY <2>1 DEF vars, accountVars, tdlibVars, routerVars, InputInv, InputIsKnown
  <2>2. CASE Next
    BY <2>2, OwnerKnowsInput, OthersKnowInput, ReceiverKnowsInput DEF Next, Stop, Begin, OwnerContinues
  <2> QED
    BY <2>1, <2>2
<1> QED
  BY <1>1, <1>2 DEF InputInv

LEMMA InputInvHolds == Spec => [](RouterInv /\ AccountInv /\ InputInv)
<1>1. Init => RouterInv /\ AccountInv /\ InputInv
  BY RouterInvInit, AccountInvInit, InputInvInit DEF Init
<1>2. RouterInv /\ AccountInv /\ InputInv /\ [Next]_vars => (RouterInv /\ AccountInv /\ InputInv)'
  BY AccountInvStep, InputInvStep
<1> QED
  BY <1>1, <1>2, PTL DEF Spec

(* TDLib is never asked to check a second code or password while it still  *)
(* has one to check.                                                       *)
THEOREM OneInputAtATimeHolds == Spec => []OneInputAtATime
<1>1. InputInv => OneInputAtATime
  BY DEF InputInv, OneTurn, AskedFor, OneInputAtATime, InputStates
<1> QED
  BY <1>1, InputInvHolds, PTL

(* A step of the account is one of the protocol, or none.                  *)
LEMMA StatesOfProtocol ==
  ASSUME NEW s \in Status
  PROVE  ProtocolState[s] \in Protocol!AuthorizationState
  BY DEF Status, Reported, TdlibStates, ProtocolState, Protocol!AuthorizationState, Protocol!AuthorizationInput,
     Protocol!Asking

LEMMA OtherStepsKeepProtocol ==
  ASSUME [Next]_vars,
         ~ \/ \E then \in {"idle", "open"} : StopSend(then)
           \/ StopJoin \/ BeginOpen \/ DispatchError \/ DispatchUpdate
           \/ \E what \in InputStates : Submit(what)
  PROVE  UNCHANGED <<sessions, status, auth_input>>
<1>1. CASE UNCHANGED vars
  BY <1>1 DEF vars, accountVars
<1>2. CASE StopClose \/ StopClear \/ BeginActivate
  BY <1>2 DEF StopClose, StopClear, BeginActivate
<1>3. CASE (\E c \in Callers : Read(c) \/ ReaderStep(c)) \/ \E t \in closing : CompleteClosed(t)
  BY <1>3 DEF Read, ReaderStep, CompleteClosed, accountVars
<1>4. CASE ReceiverStep
  BY <1>4 DEF ReceiverStep, Receive, Look, Fulfill, Signal, Late, SendOptions, ClosedWipe, ClosedClose, ClosedEnd,
     OwnerUnchanged, Flags
<1>5. CASE Tdlib
  BY <1>5 DEF Tdlib, TdlibAuthorize, TdlibAnswer, TdlibClosing, TdlibLoggedOut, TdlibBeginsClosing, TdlibClosed,
     accountVars
<1> QED
  BY <1>1, <1>2, <1>3, <1>4, <1>5 DEF Next, Stop, Begin, OwnerContinues

LEMMA AccountStepsProtocol ==
  RouterInv /\ AccountInv /\ InputInv /\ InputInv' /\ [Next]_vars => [Protocol!Next]_(Protocol!vars)
<1> SUFFICES ASSUME RouterInv, AccountInv, InputInv, InputInv', [Next]_vars
             PROVE  [Protocol!Next]_(Protocol!vars)
  OBVIOUS
<1> DEFINE flag == auth_input # 0 /\ status # "Closing"
<1>1. status \in Status /\ status' \in Status
  BY DEF InputInv, InputIsKnown
<1>2. ASSUME sessions' = sessions, ~flag' PROVE Protocol!Next
  <2>1. ProtocolState[status'] \in Protocol!AuthorizationState
    BY <1>1, StatesOfProtocol
  <2>2. ProtocolState' = ProtocolState
    BY DEF ProtocolState
  <2> QED
    BY <1>2, <2>1, <2>2 DEF Protocol!Next, Protocol!Observe
<1>3. ASSUME NEW then \in {"idle", "open"}, StopSend(then) PROVE [Protocol!Next]_(Protocol!vars)
  <2>1. CASE MustClose
    BY <1>2, <1>3, <2>1 DEF StopSend
  <2>2. CASE ~MustClose
    BY <1>3, <2>2 DEF StopSend, Protocol!vars, ProtocolState
  <2> QED
    BY <2>1, <2>2
<1>4. CASE StopJoin
  BY <1>2, <1>4 DEF StopJoin
<1>5. CASE BeginOpen
  <2>1. auth_input = 0 /\ auth_input' = auth_input /\ status' = "Starting" /\ sessions' = sessions + 1
    BY <1>5 DEF BeginOpen, InputInv, InputIsKnown, AccountInv, SessionsAreApart
  <2>2. ProtocolState["Starting"] = "wait_tdlib_parameters"
    BY DEF ProtocolState
  <2> QED
    BY <2>1, <2>2 DEF Protocol!Next, Protocol!Begin, ProtocolState
<1>6. CASE DispatchError
  <2>1. auth_input' \in {auth_input, 0} /\ UNCHANGED <<sessions, status>>
    BY <1>6 DEF DispatchError, OwnerUnchanged
  <2>2. CASE auth_input' = auth_input
    BY <2>1, <2>2 DEF Protocol!vars, ProtocolState
  <2>3. CASE auth_input' = 0
    BY <1>2, <2>1, <2>3
  <2> QED
    BY <2>1, <2>2, <2>3
<1>7. CASE DispatchUpdate
  BY <1>2, <1>7 DEF DispatchUpdate, AfterUpdate, OwnerUnchanged
<1>8. ASSUME NEW what \in InputStates, Submit(what) PROVE Protocol!Next
  <2>1. auth_input = 0 /\ status = what /\ auth_input' # 0 /\ UNCHANGED <<sessions, status>>
    BY <1>8, IdsAreNumbers DEF Submit, MaySubmit
  <2>2. PICK input \in {"code", "password"} :
          what = [code |-> "WaitCode", password |-> "WaitPassword"][input]
    <3>1. what = "WaitCode" \/ what = "WaitPassword"
      BY DEF InputStates
    <3> QED
      BY <3>1
  <2>3. input \in Protocol!AuthorizationInput /\ Protocol!Asking[input] = ProtocolState[what] /\ what # "Closing"
    BY <2>2 DEF Protocol!AuthorizationInput, Protocol!Asking, ProtocolState
  <2> QED
    BY <2>1, <2>3 DEF Protocol!Next, Protocol!BeginInput, Protocol!Accepts, ProtocolState
<1>9. CASE UNCHANGED <<sessions, status, auth_input>>
  BY <1>9 DEF Protocol!vars, ProtocolState
<1> QED
  BY <1>3, <1>4, <1>5, <1>6, <1>7, <1>8, <1>9, OtherStepsKeepProtocol

(* The account keeps the authorization protocol of the domain, with three  *)
(* kinds of threads, TDLib's queue, and stops and new sessions in between. *)
THEOREM AuthorizationImplemented == Spec => ImplementsAuthorization
<1>1. Init => Protocol!Init
  BY DEF Init, Protocol!Init, ProtocolState
<1>2. (RouterInv /\ AccountInv /\ InputInv) /\ (RouterInv /\ AccountInv /\ InputInv)' /\ [Next]_vars
        => [Protocol!Next]_(Protocol!vars)
  BY AccountStepsProtocol
<1> QED
  BY <1>1, <1>2, InputInvHolds, PTL DEF Spec, ImplementsAuthorization, Protocol!Spec

-----------------------------------------------------------------------------
(* An id of this session that has left the map and, pushed out by others,  *)
(* the list of the retired ones: the list is full and stays so.            *)
Stray(id) ==
  /\ id \in RequestIds /\ id < next_request_id /\ requests[id] = NoTicket
  /\ id \notin Range(retired_order) /\ Len(retired_order) = MaximumRetired

(* Only the answer to such a request gets past the router.                 *)
StraysAreKnown ==
  /\ receiver.pc = "dispatch" /\ receiver.got.kind = "read" => Stray(receiver.got.id)
  /\ last_error.kind = "read" => Stray(last_error.id)

FlagsAreTyped ==
  /\ running \in BOOLEAN /\ stopping \in BOOLEAN /\ secrets \in BOOLEAN
  /\ last_error \in {NoError} \cup {item \in Item : item.kind # "update"}
  /\ tdlib \in TdlibStates

ErrorInv == LateInv /\ StraysAreKnown /\ FlagsAreTyped

LEMMA StrayStays ==
  ASSUME RouterInv, LateInv, [RouterNext]_routerVars, next_request_id' >= next_request_id,
         NEW id, Stray(id)
  PROVE  Stray(id)'
<1>1. id \in RequestIds /\ id \in Nat \ {0} /\ id < next_request_id /\ requests[id] = NoTicket
  BY IdsAreNumbers DEF Stray
<1>2. next_request_id \in Nat /\ next_request_id' \in {next_request_id, next_request_id + 1}
  BY <1>1, IdsAreNumbers, RouterMovesIds DEF IdsMove
<1>3. id < next_request_id' /\ next_request_id' # 1
  BY <1>1, <1>2
<1>4. /\ Range(retired_order') \subseteq Range(retired_order) \cup OpenIds
      /\ Len(retired_order') = MaximumRetired
  BY <1>3, ListMoves DEF Stray
<1>5. id \notin Range(retired_order')
  BY <1>1, <1>4 DEF Stray, OpenIds, Contains
<1>6. requests'[id] = NoTicket
  BY <1>1, RouterMovesIds DEF IdsMove
<1> QED
  BY <1>1, <1>3, <1>4, <1>5, <1>6 DEF Stray

(* The receive thread gives up an answer to a read as late only when the   *)
(* router has forgotten the request.                                       *)
LEMMA ForgottenIsStray ==
  ASSUME RouterInv, AccountInv, LateInv, Late, receiver.got.kind = "read", receiver.got.id \notin retired
  PROVE  Stray(receiver.got.id)
<1> DEFINE id == receiver.got.id
<1>1. InHand
  BY DEF Late, InHand
<1>2. PICK u \in unanswered : u = <<id, receiver.got.ticket>>
  BY <1>1, HandFacts
<1>3. id \in RequestIds /\ u[1] = id /\ u[2] \in Tickets
  BY <1>2 DEF RouterInv, RoutingTypeOK
<1>4. requests[id] = NoTicket /\ id < next_request_id
  BY <1>2, <1>3 DEF Late, AccountInv, HandIsKnown, RouterInv, AnswersMatch
<1>5. requests[u[1]] # u[2]
  BY <1>3, <1>4, Shapes DEF RouterInv
<1>6. id \notin Range(retired_order) /\ Len(retired_order) = MaximumRetired
  BY <1>3, <1>5 DEF LateInv, LateIsKnown
<1> QED
  BY <1>3, <1>4, <1>6 DEF Stray

LEMMA ReceiverKnowsStrays ==
  ASSUME RouterInv, AccountInv, ErrorInv, ReceiverStep, [RouterNext]_routerVars,
         next_request_id' >= next_request_id
  PROVE  StraysAreKnown'
<1>1. ASSUME NEW id, Stray(id) PROVE Stray(id)'
  BY <1>1, StrayStays DEF ErrorInv
<1>2. CASE Late
  <2>1. receiver \in [pc : Holding, got : Item] /\ last_error' = last_error
    BY <1>2 DEF Late, AccountInv, ThreadsAreTyped, Flags
  <2>2. \/ receiver'.pc = "receive"
        \/ receiver.got.id \notin retired /\ receiver'.got = receiver.got
    BY <1>2, <2>1 DEF Late, ReceiverGoes, Again
  <2> QED
    BY <1>1, <1>2, <2>1, <2>2, ForgottenIsStray DEF ErrorInv, StraysAreKnown
<1>3. CASE DispatchError
  <2>1. receiver.pc = "dispatch" /\ last_error' = receiver.got /\ receiver'.pc = "receive"
    BY <1>3 DEF DispatchError, Again
  <2> QED
    BY <1>1, <2>1 DEF ErrorInv, StraysAreKnown
<1>4. CASE Receive \/ Look \/ Fulfill \/ Signal \/ DispatchUpdate \/ SendOptions \/ ClosedWipe \/ ClosedClose \/ ClosedEnd
  <2>1. receiver'.pc # "dispatch"
    BY <1>4 DEF Receive, Look, Fulfill, Signal, DispatchUpdate, SendOptions, ClosedWipe, ClosedClose, ClosedEnd,
       ReceiverGoes, Again, AccountInv, ThreadsAreTyped, Holding
  <2>2. last_error' = last_error
    BY <1>4 DEF Receive, Look, Fulfill, Signal, DispatchUpdate, SendOptions, ClosedWipe, ClosedClose, ClosedEnd, Flags
  <2> QED
    BY <1>1, <2>1, <2>2 DEF ErrorInv, StraysAreKnown
<1> QED
  BY <1>2, <1>3, <1>4 DEF ReceiverStep

LEMMA StraysStep ==
  ASSUME RouterInv, AccountInv, ErrorInv, [Next]_vars, [RouterNext]_routerVars
  PROVE  StraysAreKnown'
<1>1. CASE BeginOpen
  BY <1>1 DEF BeginOpen, StraysAreKnown, NoError
<1>2. CASE ReceiverStep /\ ~BeginOpen
  BY <1>2, IdsGrow, ReceiverKnowsStrays
<1>3. ASSUME ~BeginOpen, UNCHANGED <<receiver, last_error>> PROVE StraysAreKnown'
  <2>1. \A id : Stray(id) => Stray(id)'
    BY <1>3, IdsGrow, StrayStays DEF ErrorInv
  <2> QED
    BY <1>3, <2>1 DEF ErrorInv, StraysAreKnown
<1>4. ReceiverStep \/ BeginOpen \/ UNCHANGED <<receiver, last_error>>
  BY DEF Next, Stop, Begin, StopSend, OwnerContinues, StopClose, StopJoin, StopClear, BeginActivate, Submit, Read,
     ReaderStep, CompleteClosed, Tdlib, TdlibAuthorize, TdlibAnswer, TdlibClosing, TdlibLoggedOut,
     TdlibBeginsClosing, TdlibClosed, vars, accountVars
<1> QED
  BY <1>1, <1>2, <1>3, <1>4

LEMMA FlagsStep == ASSUME AccountInv, FlagsAreTyped, [Next]_vars PROVE FlagsAreTyped'
<1> USE DEF FlagsAreTyped
<1>1. ASSUME NEW then, StopSend(then) PROVE FlagsAreTyped'
  BY <1>1 DEF StopSend
<1>2. CASE StopClose \/ StopJoin \/ StopClear \/ BeginOpen \/ BeginActivate
  BY <1>2 DEF StopClose, StopJoin, StopClear, BeginOpen, BeginActivate, tdlibVars, TdlibStates
<1>3. CASE ReceiverStep
  <2>1. CASE DispatchError
    <3>1. receiver \in [pc : Holding, got : Item]
      BY <2>1 DEF DispatchError, AccountInv, ThreadsAreTyped
    <3> QED
      BY <2>1, <3>1 DEF DispatchError, tdlibVars
  <2>2. CASE Receive \/ Look \/ Fulfill \/ Signal \/ Late \/ SendOptions
    BY <2>2 DEF Receive, Look, Fulfill, Signal, Late, SendOptions, Flags, tdlibVars
  <2>3. CASE DispatchUpdate \/ ClosedWipe \/ ClosedClose \/ ClosedEnd
    BY <2>3 DEF DispatchUpdate, ClosedWipe, ClosedClose, ClosedEnd, Flags, tdlibVars
  <2> QED
    BY <1>3, <2>1, <2>2, <2>3 DEF ReceiverStep
<1>4. CASE Tdlib
  <2>1. CASE TdlibAuthorize
    <3>1. PICK q \in asked :
            /\ q.what \notin {"read", "close"}
            /\ tdlib' = tdlib \/ \E state \in Leads(q.what) : tdlib' = state
      BY <2>1 DEF TdlibAuthorize
    <3>2. q.what \in {"parameters", "phone", "WaitCode", "WaitPassword"}
      BY <3>1 DEF AccountInv, Carried, ItemsAreTyped, Request, InputStates
    <3>3. tdlib' \in TdlibStates
      BY <3>1, <3>2 DEF Leads, TdlibStates
    <3> QED
      BY <2>1, <3>3 DEF TdlibAuthorize, accountVars
  <2>2. CASE TdlibAnswer \/ TdlibClosing \/ TdlibLoggedOut \/ TdlibClosed
    BY <2>2 DEF TdlibAnswer, TdlibClosing, TdlibLoggedOut, TdlibBeginsClosing, TdlibClosed, accountVars, TdlibStates
  <2> QED
    BY <1>4, <2>1, <2>2 DEF Tdlib
<1>5. ASSUME UNCHANGED <<running, stopping, secrets, last_error, tdlib>> PROVE FlagsAreTyped'
  BY <1>5
<1>6. \/ (\E then : StopSend(then)) \/ StopClose \/ StopJoin \/ StopClear \/ BeginOpen \/ BeginActivate
      \/ ReceiverStep \/ Tdlib
      \/ UNCHANGED <<running, stopping, secrets, last_error, tdlib>>
  BY DEF Next, Stop, Begin, OwnerContinues, Submit, Read, ReaderStep, CompleteClosed, vars, accountVars, tdlibVars
<1> QED
  BY <1>1, <1>2, <1>3, <1>4, <1>5, <1>6

LEMMA ErrorInvHolds == Spec => [](RouterInv /\ AccountInv /\ InputInv /\ ErrorInv)
<1>1. Init => ErrorInv
  <2> SUFFICES ASSUME Init PROVE ErrorInv
    OBVIOUS
  <2>1. receiver.pc # "dispatch" /\ last_error.kind # "read"
    BY DEF Init, NoError
  <2>2. FlagsAreTyped
    BY DEF Init, FlagsAreTyped, TdlibStates
  <2> QED
    BY <2>1, <2>2, LateInvInit DEF Init, ErrorInv, StraysAreKnown
<1>2. RouterInv /\ AccountInv /\ ErrorInv /\ [Next]_vars => ErrorInv'
  <2> SUFFICES ASSUME RouterInv, AccountInv, ErrorInv, [Next]_vars PROVE ErrorInv'
    OBVIOUS
  <2>1. [RouterNext]_routerVars
    BY AccountStepsRouter
  <2>2. LateInv'
    BY <2>1, LateInvStep DEF AccountInv, ErrorInv
  <2>3. StraysAreKnown' /\ FlagsAreTyped'
    BY <2>1, StraysStep, FlagsStep DEF ErrorInv
  <2> QED
    BY <2>2, <2>3 DEF ErrorInv
<1> QED
  BY <1>1, <1>2, InputInvHolds, PTL DEF Spec

(* The answer to a read does not pass for an error of the account, nor for *)
(* the answer to a code or a password, unless the list of the retired ids  *)
(* is full and has dropped its id.                                         *)
THEOREM ReadErrorsStayPrivateHolds == Spec => []ReadErrorsStayPrivate
<1>1. InputInv /\ ErrorInv => ReadErrorsStayPrivate
  BY DEF InputInv, InputIsKnown, ErrorInv, StraysAreKnown, Stray, ReadErrorsStayPrivate
<1> QED
  BY <1>1, ErrorInvHolds, PTL

(* Types of the account, of the router under it and of what TDLib is asked *)
(* and has said; and a receive thread has a client.                        *)
THEOREM AccountTypeCorrect == Spec => []TypeOK
<1>1. RouterInv /\ AccountInv /\ InputInv /\ ErrorInv => TypeOK
  <2> SUFFICES ASSUME RouterInv, AccountInv, InputInv, ErrorInv PROVE TypeOK
    OBVIOUS
  <2>1. RouterTypeOK
    BY DEF RouterInv, ErrorInv, LateInv, RetiredInv, RouterTypeOK
  <2>2. receiver.pc \in {"off", "receive"} \cup Holding /\ (receiver.pc # "off" => manager)
    BY DEF AccountInv, ThreadsAreTyped, SessionsAreApart
  <2> QED
    BY <2>1, <2>2 DEF AccountInv, Carried, ItemsAreTyped, Request, ThreadsAreTyped, Holding, InputInv, InputIsKnown,
       ErrorInv, FlagsAreTyped, TypeOK
<1> QED
  BY <1>1, ErrorInvHolds, PTL
=============================================================================
