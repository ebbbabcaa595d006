------------------------------ MODULE Lifecycle ------------------------------
(***************************************************************************)
(* The lifecycle of one action attempt: crates/agentverify-core/src/       *)
(* state_machine.rs.  State names are the Rust variant names.  Invalid is  *)
(* not a state of the code: it stands for the Err that State::transition   *)
(* returns, so that a chain of advances keeps the error of its first bad   *)
(* link, as the `?` operator does.                                         *)
(***************************************************************************)

Invalid == "Invalid"

LifecycleStates ==
    {"Proposed", "Validating", "Rejected", "Authorized", "Executing", "Executed",
     "Failed", "Timeout", "Unknown", "Observing", "Verifying", "Verified",
     "VerificationFailed", "Recovering", "Recovered", "Escalated", "Committed"}

IsTerminal(s) == s \in {"Committed", "Rejected", "Escalated", "VerificationFailed"}

\* Mutant of ValidTransitions: an unknown outcome cannot be observed.
TransitionsOfUnknownForgotten(s) ==
    CASE s = "Proposed"   -> {"Validating"}
      [] s = "Validating" -> {"Authorized", "Rejected"}
      [] s = "Authorized" -> {"Executing"}
      [] s = "Executing"  -> {"Executed", "Failed", "Timeout", "Unknown"}
      [] s = "Executed"   -> {"Observing"}
      [] s = "Observing"  -> {"Verifying"}
      [] s = "Verifying"  -> {"Verified", "VerificationFailed"}
      [] s = "Verified"   -> {"Committed"}
      [] OTHER            -> {}

ValidTransitions(s) ==
    CASE s = "Proposed"                            -> {"Validating"}
      [] s = "Validating"                          -> {"Authorized", "Rejected"}
      [] s = "Authorized"                          -> {"Executing"}
      [] s = "Executing"                           -> {"Executed", "Failed", "Timeout", "Unknown"}
      [] s \in {"Executed", "Timeout", "Unknown"}  -> {"Observing"}
      [] s \in {"Failed", "Observing", "Recovered"} -> {"Verifying"}
      [] s = "Verifying"                           -> {"Verified", "VerificationFailed"}
      [] s = "Verified"                            -> {"Committed"}
      [] s = "VerificationFailed"                  -> {"Recovering"}
      [] s = "Recovering"                          -> {"Recovered", "Escalated"}
      [] OTHER                                     -> {}

\* State::transition: a terminal state refuses every successor, whatever the
\* table lists for it.
Transition(s, t) ==
    IF ~IsTerminal(s) /\ t \in ValidTransitions(s) THEN t ELSE Invalid

\* Two consecutive StateMachine::advance calls with no await between them.
Advance2(s, t, u) == Transition(Transition(s, t), u)

=============================================================================
