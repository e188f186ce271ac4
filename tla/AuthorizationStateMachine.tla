---------------------- MODULE AuthorizationStateMachine ----------------------
(***************************************************************************)
(* The authorization protocol of src/domain/telegram, free of threads and  *)
(* of TDLib: which inputs of the operator are accepted, and when.  Only    *)
(* the tests call this class; TdAccount keeps the same protocol in members *)
(* of its own, and is shown to implement this module.                      *)
(* Left out: the account id and the detail, which nothing reads.           *)
(***************************************************************************)
EXTENDS Naturals

VARIABLES
  generation,      \* which session this is
  state,
  input_in_flight  \* an input was submitted and TDLib has said nothing since

vars == <<generation, state, input_in_flight>>

AuthorizationInput == {"phone_number", "email_address", "email_code", "code",
                       "registration", "password"}

(* The state in which TDLib asks for an input. *)
Asking == [phone_number |-> "wait_phone_number", email_address |-> "wait_email_address",
           email_code |-> "wait_email_code", code |-> "wait_code",
           registration |-> "wait_registration", password |-> "wait_password"]

AuthorizationState ==
  {Asking[input] : input \in AuthorizationInput}
    \cup {"stopped", "wait_tdlib_parameters", "wait_other_device_confirmation", "ready",
          "logging_out", "closing", "closed", "failed"}

Init == generation = 0 /\ state = "stopped" /\ input_in_flight = FALSE

(* begin: what comes from an earlier generation is ignored from now on. *)
Begin ==
  /\ generation' = generation + 1
  /\ state' = "wait_tdlib_parameters"
  /\ input_in_flight' = FALSE

(* observe and fail, of this generation; of another they change nothing. *)
Observe(s) ==
  /\ state' = s
  /\ input_in_flight' = FALSE
  /\ UNCHANGED generation

Fail == Observe("failed")

Accepts(input) == state = Asking[input]

(* begin_input, accepted; a refusal leaves a message. *)
BeginInput(input) ==
  /\ ~input_in_flight
  /\ Accepts(input)
  /\ input_in_flight' = TRUE
  /\ UNCHANGED <<generation, state>>

Next ==
  \/ Begin
  \/ \E s \in AuthorizationState : Observe(s)
  \/ Fail
  \/ \E input \in AuthorizationInput : BeginInput(input)

Spec == Init /\ [][Next]_vars
=============================================================================
