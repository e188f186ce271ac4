-------------------------- MODULE ReadCallsProofs --------------------------
(***************************************************************************)
(* Reads use the router within its protocol, so that what is proved of the *)
(* router holds under them; and a list is returned whole, for every number *)
(* of readers, chats, sessions and deadlines.                              *)
(***************************************************************************)
EXTENDS ReadCalls, RequestRouterProofs

LEMMA ReadStepsRouter == [Next]_vars => [RouterNext]_routerVars
<1> SUFFICES ASSUME [Next]_vars PROVE [RouterNext]_routerVars
  OBVIOUS
<1>1. ASSUME NEW c \in Callers, StartRead(c) \/ ReadStep(c) \/ DeadlinePasses(c) PROVE [RouterNext]_routerVars
  <2>1. Open(c) \/ WaitReturn(c) \/ WaitTimeout(c) \/ WaitRetire(c) \/ UNCHANGED routerVars
    BY <1>1 DEF StartRead, ReadStep, Ask, Refused, Accepted, TimesOut, GivesUp, DeadlinePasses
  <2> QED
    BY <2>1 DEF RouterNext
<1>2. CASE LoseAuthorization \/ CloseReads \/ BeginSession \/ Authorize \/ Receive \/ Release
  BY <1>2 DEF LoseAuthorization, CloseReads, BeginSession, Authorize, Receive, Release, RouterNext
<1>3. CASE UNCHANGED vars
  BY <1>3 DEF vars
<1> QED
  BY <1>1, <1>2, <1>3 DEF Next

(* TdAccount's reads, with the sessions under them, use the router as it   *)
(* wants to be used.                                                       *)
THEOREM ReadsUseRouterProperly == Spec => RouterSpec
<1>1. Init => RouterInit
  BY DEF Init
<1> QED
  BY <1>1, ReadStepsRouter, PTL DEF Spec, RouterSpec

(* The two safety properties of the router, as the reads see them.         *)
THEOREM ReadersAreServed == Spec => [](RequestsMatchWaiters /\ OutcomeIsMine)
  BY ReadsUseRouterProperly, RequestsMatchWaitersHolds, OutcomeIsMineHolds, PTL

-----------------------------------------------------------------------------
(* A read in progress has fetched what is listed and not still to do.      *)
InProgress(r) ==
  /\ r \in ReadState
  /\ r.pc = "list" => r.fetched = 0
  /\ r.pc = "chats" => r.todo > 0 /\ r.fetched + r.todo = r.listed

Whole(r) == r \in ReadState /\ r.fetched = r.listed

ReadInv ==
  /\ read \in [Callers -> {r \in {NoRead} \cup ReadState : r = NoRead \/ InProgress(r)}]
  /\ returned \in [Callers -> {r \in {NoRead, Failed} \cup ReadState : r \in {NoRead, Failed} \/ Whole(r)}]
  /\ \A c \in Callers : Busy(c) => Reading(c)

LEMMA AnsweredProgresses ==
  ASSUME NEW r, InProgress(r), NEW after \in Answered(r)
  PROVE  IF after.todo = 0 THEN Whole(after) ELSE InProgress(after)
<1> DEFINE Made(pc, listed, todo, fetched) ==
             [pc |-> pc, listed |-> listed, todo |-> todo, fetched |-> fetched, late |-> r.late]
<1>1. r = Made(r.pc, r.listed, r.todo, r.fetched) /\ r \in ReadState
  BY DEF InProgress, ReadState
<1>2. CASE r.pc = "list"
  <2>1. PICK n \in 0..MaxChats : after = Made("chats", n, n, 0)
    BY <1>1, <1>2 DEF Answered, InProgress
  <2> QED
    BY <1>1, <2>1, ReadCallsAssumption DEF InProgress, Whole, ReadState
<1>3. CASE r.pc = "chats"
  <2>1. after = Made("chats", r.listed, r.todo - 1, r.fetched + 1)
    BY <1>1, <1>3 DEF Answered
  <2>2. r.todo - 1 \in 0..MaxChats /\ r.fetched + 1 \in 0..MaxChats
    BY <1>3, ReadCallsAssumption DEF InProgress, ReadState
  <2> QED
    BY <1>1, <1>3, <2>1, <2>2 DEF InProgress, Whole, ReadState
<1> QED
  BY <1>1, <1>2, <1>3 DEF ReadState

(* Every way a caller can move in the router. *)
LEMMA CallersMove ==
  ASSUME RouterInv, NEW c \in Callers
  PROVE  /\ Open(c) => \A d \in Callers \ {c} : caller'[d] = caller[d]
         /\ WaitReturn(c) \/ WaitRetire(c) =>
              Busy(c) /\ ~Busy(c)' /\ \A d \in Callers \ {c} : caller'[d] = caller[d]
         /\ WaitTimeout(c) => Busy(c) /\ \A d \in Callers : Busy(d)' => Busy(d)
<1>1. caller \in [Callers -> CallerState]
  BY DEF RouterInv, RoutingTypeOK
<1>2. Open(c) => \A d \in Callers \ {c} : caller'[d] = caller[d]
  BY <1>1 DEF Open
<1>3. WaitReturn(c) \/ WaitRetire(c) =>
        Busy(c) /\ ~Busy(c)' /\ \A d \in Callers \ {c} : caller'[d] = caller[d]
  BY <1>1 DEF WaitReturn, WaitRetire, Busy, NotCalling
<1>4. WaitTimeout(c) => Busy(c) /\ \A d \in Callers : Busy(d)' => Busy(d)
  BY <1>1 DEF WaitTimeout, Busy
<1> QED
  BY <1>2, <1>3, <1>4

LEMMA ReadInvStep == ReadInv /\ RouterInv /\ RouterInv' /\ [Next]_vars => ReadInv'
<1> SUFFICES ASSUME ReadInv, RouterInv, RouterInv', [Next]_vars PROVE ReadInv'
  OBVIOUS
<1>1. ASSUME NEW c \in Callers, StartRead(c) PROVE ReadInv'
  <2>1. InProgress(NewRead)
    BY ReadCallsAssumption DEF InProgress, NewRead, ReadState
  <2>2. NewRead # NoRead
    BY DEF NewRead, NoRead
  <2> QED
    BY <1>1, <2>1, <2>2 DEF StartRead, ReadInv, InProgress, routerVars, Busy, Reading
<1>2. ASSUME NEW c \in Callers, Ask(c) PROVE ReadInv'
  <2>1. \A d \in Callers \ {c} : Busy(d)' => Busy(d)
    BY <1>2, CallersMove DEF Ask, Busy, routerVars
  <2>2. CASE caller[c]' = NotCalling
    BY <1>2, <2>1, <2>2 DEF Ask, Return, ReadInv, Busy, Reading, NotCalling
  <2>3. CASE UNCHANGED readVars
    BY <1>2, <2>1, <2>3 DEF Ask, readVars, ReadInv, Reading
  <2> QED
    BY <1>2, <2>2, <2>3 DEF Ask
<1>3. ASSUME NEW c \in Callers, Refused(c) \/ GivesUp(c) PROVE ReadInv'
  <2>1. ~Busy(c)' /\ \A d \in Callers \ {c} : Busy(d)' => Busy(d)
    BY <1>3, CallersMove DEF Refused, GivesUp, Busy
  <2>2. Return(c, Failed)
    BY <1>3 DEF Refused, GivesUp
  <2> QED
    BY <2>1, <2>2 DEF Return, ReadInv, Reading
<1>4. ASSUME NEW c \in Callers, Accepted(c) PROVE ReadInv'
  <2>1. ~Busy(c)' /\ (\A d \in Callers \ {c} : Busy(d)' => Busy(d)) /\ InProgress(read[c])
    BY <1>4, CallersMove DEF Accepted, Busy, ReadInv, Reading
  <2>2. PICK after \in Answered(read[c]) :
          IF after.todo = 0 THEN Return(c, after)
          ELSE read' = [read EXCEPT ![c] = after] /\ UNCHANGED <<authorized, returned, reads>>
    BY <1>4 DEF Accepted
  <2>3. IF after.todo = 0 THEN Whole(after) ELSE InProgress(after)
    BY <2>1, AnsweredProgresses
  <2>4. CASE after.todo = 0
    BY <2>1, <2>2, <2>3, <2>4 DEF Return, ReadInv, Whole, Reading
  <2>5. CASE after.todo # 0
    BY <2>1, <2>2, <2>3, <2>5 DEF ReadInv, InProgress, Reading
  <2> QED
    BY <2>4, <2>5
<1>5. ASSUME NEW c \in Callers, TimesOut(c) PROVE ReadInv'
  BY <1>5, CallersMove DEF TimesOut, readVars, ReadInv, Reading
<1>6. ASSUME NEW c \in Callers, DeadlinePasses(c) PROVE ReadInv'
  <2>1. InProgress([read[c] EXCEPT !.late = TRUE]) /\ [read[c] EXCEPT !.late = TRUE] # NoRead
    BY <1>6 DEF DeadlinePasses, Reading, ReadInv, InProgress, ReadState, NoRead
  <2> QED
    BY <1>6, <2>1 DEF DeadlinePasses, ReadInv, InProgress, routerVars, Busy, Reading
<1>7. CASE UNCHANGED <<caller, read, returned>>
  BY <1>7 DEF ReadInv, Busy, Reading
<1>8. LoseAuthorization \/ CloseReads \/ BeginSession \/ Authorize \/ Receive \/ Release \/ UNCHANGED vars
        => UNCHANGED <<caller, read, returned>>
  BY DEF LoseAuthorization, CloseReads, CloseTake, BeginSession, Reopen, Authorize, Receive, Answer,
         FulfillTake, FulfillMiss, DiscardLate, FulfillSignal, Release, CloseSignal, readVars, routerVars, vars
<1> QED
  BY <1>1, <1>2, <1>3, <1>4, <1>5, <1>6, <1>7, <1>8 DEF Next, ReadStep

(* No read returns a list with a chat left out. *)
THEOREM ListIsWholeHolds == Spec => []ListIsWhole
<1>1. Init => ReadInv
  BY DEF Init, RouterInit, ReadInv, Busy, NotCalling
<1>2. ReadInv => ListIsWhole
  BY DEF ReadInv, ListIsWhole, Whole
<1>3. Spec => []RouterInv
  BY ReadsUseRouterProperly, RouterInvHolds, PTL
<1> QED
  BY <1>1, <1>2, <1>3, ReadInvStep, PTL DEF Spec

Counted == authorized \in BOOLEAN /\ reads \in 0..MaxReads

LEMMA CountedStep == Counted /\ [Next]_vars => Counted'
<1> SUFFICES ASSUME Counted, [Next]_vars PROVE Counted'
  OBVIOUS
<1>1. ASSUME NEW c \in Callers, StartRead(c) PROVE Counted'
  BY <1>1, ReadCallsAssumption DEF StartRead, Counted
<1>2. ASSUME NEW c \in Callers, ReadStep(c) \/ DeadlinePasses(c) PROVE UNCHANGED <<authorized, reads>>
  BY <1>2 DEF ReadStep, Ask, Refused, Accepted, TimesOut, GivesUp, DeadlinePasses, Return, readVars
<1>3. ASSUME LoseAuthorization \/ CloseReads \/ BeginSession \/ Authorize \/ Receive \/ Release
      PROVE  authorized' \in {authorized, TRUE, FALSE} /\ reads' = reads
  BY <1>3 DEF LoseAuthorization, CloseReads, BeginSession, Authorize, Receive, Release, readVars
<1> QED
  BY <1>1, <1>2, <1>3 DEF Next, vars, readVars, Counted

(* Types of the reads and of the router under them, the list of the        *)
(* retired ids with its limit included.                                    *)
THEOREM ReadsTypeCorrect == Spec => []TypeOK
<1>1. Init => ReadInv /\ Counted
  <2> SUFFICES ASSUME Init PROVE ReadInv /\ Counted
    OBVIOUS
  <2>1. 0 \in 0..MaxReads
    BY ReadCallsAssumption
  <2>2. ReadInv
    BY DEF Init, RouterInit, ReadInv, Busy, NotCalling
  <2> QED
    BY <2>1, <2>2 DEF Init, Counted
<1>2. ReadInv /\ Counted /\ RouterTypeOK => TypeOK
  BY DEF ReadInv, Counted, TypeOK
<1>3. Spec => []RouterInv /\ []RouterTypeOK
  BY ReadsUseRouterProperly, RouterInvHolds, RouterTypeCorrect, PTL
<1> QED
  BY <1>1, <1>2, <1>3, ReadInvStep, CountedStep, PTL DEF Spec

(* The late answer to a read is told from an error of the account.         *)
THEOREM LateReadsAreRecognised == Spec => []LateAnswersAreRecognised
  BY ReadsUseRouterProperly, LateAnswersAreRecognisedHolds, PTL
=============================================================================
