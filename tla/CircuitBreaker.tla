--------------------------- MODULE CircuitBreaker ---------------------------
(***************************************************************************)
(* The circuit breaker of crates/agentverify-recovery/src/lib.rs, shared   *)
(* by threads that each call CircuitBreaker::execute again and again.      *)
(*                                                                         *)
(* The state, the two counters and the time of the last failure are four   *)
(* separate locks and atomics, so every access is a step of its own.       *)
(* record_failure keeps the write lock of last_failure from its first line *)
(* to its last; is_allowed takes the read lock of it in the open state;    *)
(* record_success does not touch it.                                       *)
(***************************************************************************)
EXTENDS Naturals

CONSTANTS Threads,
          failure_threshold,  \* CircuitBreakerConfig
          success_threshold

ASSUME ConfigAssumption == failure_threshold \in Nat \ {0} /\ success_threshold \in Nat \ {0}

VARIABLES
    state,          \* CircuitState
    failure_count,
    success_count,
    last_failure,   \* "None", "Recent", or "Old" once recovery_timeout has passed
    writer,         \* the thread that holds the write lock of last_failure
    pc,             \* where each thread is in execute
    seen            \* the circuit state each thread read last

breaker == <<state, failure_count, success_count, last_failure, writer>>
vars == <<breaker, pc, seen>>

Nobody == "Nobody"
ASSUME NobodyAssumption == Nobody \notin Threads
CircuitStates == {"Closed", "Open", "HalfOpen"}

Init ==
    /\ state = "Closed"
    /\ failure_count = 0 /\ success_count = 0
    /\ last_failure = "None"
    /\ writer = Nobody
    /\ pc = [t \in Threads |-> "idle"]
    /\ seen = [t \in Threads |-> "Closed"]

Go(t, from, to) == pc[t] = from /\ pc' = [pc EXCEPT ![t] = to]
ReadState(t, from, to) == Go(t, from, to) /\ seen' = [seen EXCEPT ![t] = state]

-----------------------------------------------------------------------------
\* is_allowed

CheckAllowed(t) ==
    /\ ReadState(t, "idle", IF state = "Open" THEN "waiting" ELSE "running")
    /\ UNCHANGED breaker

\* Mutant of TryHalfOpen: the time of the last failure is never old enough.
TryHalfOpenNever(t) ==
    /\ writer = Nobody
    /\ Go(t, "waiting", "idle")
    /\ UNCHANGED <<breaker, seen>>

TryHalfOpen(t) ==
    /\ writer = Nobody
    /\ \/ last_failure = "Old" /\ Go(t, "waiting", "running") /\ state' = "HalfOpen"
       \/ last_failure # "Old" /\ Go(t, "waiting", "idle") /\ UNCHANGED state
    /\ UNCHANGED <<failure_count, success_count, last_failure, writer, seen>>

\* The operation ends well or badly.
Finish(t) ==
    /\ \E how \in {"success", "failure"} : Go(t, "running", how)
    /\ UNCHANGED <<breaker, seen>>

-----------------------------------------------------------------------------
\* record_failure

Unlock == writer' = Nobody

StampFailure(t) ==
    /\ writer = Nobody
    /\ Go(t, "failure", "stamped")
    /\ last_failure' = "Recent"
    /\ writer' = t
    /\ UNCHANGED <<state, failure_count, success_count, seen>>

ReadOnFailure(t) ==
    /\ ReadState(t, "stamped", "failed")
    /\ UNCHANGED breaker

CountFailure(t) ==
    /\ seen[t] = "Closed"
    /\ failure_count' = failure_count + 1
    /\ IF failure_count + 1 >= failure_threshold
       THEN Go(t, "failed", "opening") /\ UNCHANGED writer
       ELSE Go(t, "failed", "idle") /\ Unlock
    /\ UNCHANGED <<state, success_count, last_failure, seen>>

Open(t) ==
    /\ Go(t, "opening", "idle")
    /\ state' = "Open"
    /\ Unlock
    /\ UNCHANGED <<failure_count, success_count, last_failure, seen>>

Reopen(t) ==
    /\ seen[t] = "HalfOpen"
    /\ Go(t, "failed", "reopening")
    /\ state' = "Open"
    /\ UNCHANGED <<failure_count, success_count, last_failure, writer, seen>>

ResetSuccesses(t) ==
    /\ Go(t, "reopening", "idle")
    /\ success_count' = 0
    /\ Unlock
    /\ UNCHANGED <<state, failure_count, last_failure, seen>>

IgnoreFailure(t) ==
    /\ seen[t] = "Open"
    /\ Go(t, "failed", "idle")
    /\ Unlock
    /\ UNCHANGED <<state, failure_count, success_count, last_failure, seen>>

-----------------------------------------------------------------------------
\* record_success

ReadOnSuccess(t) ==
    /\ ReadState(t, "success", "succeeded")
    /\ UNCHANGED breaker

ForgiveFailures(t) ==
    /\ seen[t] = "Closed"
    /\ Go(t, "succeeded", "idle")
    /\ failure_count' = 0
    /\ UNCHANGED <<state, success_count, last_failure, writer, seen>>

CountSuccess(t) ==
    /\ seen[t] = "HalfOpen"
    /\ success_count' = success_count + 1
    /\ Go(t, "succeeded", IF success_count + 1 >= success_threshold THEN "closing" ELSE "idle")
    /\ UNCHANGED <<state, failure_count, last_failure, writer, seen>>

\* Mutant of Close: the counters are cleared by nobody.
CloseKeepsCounters(t) ==
    /\ Go(t, "closing", "idle")
    /\ state' = "Closed"
    /\ UNCHANGED <<failure_count, success_count, last_failure, writer, seen>>

Close(t) ==
    /\ Go(t, "closing", "closed")
    /\ state' = "Closed"
    /\ UNCHANGED <<failure_count, success_count, last_failure, writer, seen>>

ClearFailures(t) ==
    /\ Go(t, "closed", "cleared")
    /\ failure_count' = 0
    /\ UNCHANGED <<state, success_count, last_failure, writer, seen>>

ClearSuccesses(t) ==
    /\ Go(t, "cleared", "idle")
    /\ success_count' = 0
    /\ UNCHANGED <<state, failure_count, last_failure, writer, seen>>

IgnoreSuccess(t) ==
    /\ seen[t] = "Open"
    /\ Go(t, "succeeded", "idle")
    /\ UNCHANGED <<breaker, seen>>

-----------------------------------------------------------------------------
\* recovery_timeout passes.
TimePasses ==
    /\ last_failure = "Recent"
    /\ last_failure' = "Old"
    /\ UNCHANGED <<state, failure_count, success_count, writer, pc, seen>>

ThreadStep(t) ==
    \/ CheckAllowed(t) \/ TryHalfOpen(t) \/ Finish(t)
    \/ StampFailure(t) \/ ReadOnFailure(t) \/ CountFailure(t) \/ Open(t)
    \/ Reopen(t) \/ ResetSuccesses(t) \/ IgnoreFailure(t)
    \/ ReadOnSuccess(t) \/ ForgiveFailures(t) \/ CountSuccess(t)
    \/ Close(t) \/ ClearFailures(t) \/ ClearSuccesses(t) \/ IgnoreSuccess(t)

Next == TimePasses \/ \E t \in Threads : ThreadStep(t)

Spec == Init /\ [][Next]_vars

\* Callers keep calling, their operations end, and time passes.
FairSpec == Spec /\ WF_vars(TimePasses) /\ \A t \in Threads : WF_vars(ThreadStep(t))

-----------------------------------------------------------------------------
\* Properties

Recording == {"stamped", "failed", "opening", "reopening"}

\* Every variable keeps its shape, and the lock of last_failure is held exactly
\* by the thread inside record_failure.
TypeOK ==
    /\ state \in CircuitStates
    /\ failure_count \in Nat /\ success_count \in Nat
    /\ last_failure \in {"None", "Recent", "Old"}
    /\ writer \in Threads \cup {Nobody}
    /\ pc \in [Threads -> {"idle", "waiting", "running", "failure", "success", "succeeded",
                           "closing", "closed", "cleared"} \cup Recording]
    /\ seen \in [Threads -> CircuitStates]
    /\ \A t \in Threads : pc[t] \in Recording <=> writer = t

\* No thread is inside record_failure or record_success.
Settled == \A t \in Threads : pc[t] \in {"idle", "waiting", "running", "failure", "success"}

\* The counters are cleared after the state is written, in steps of their own:
\* still, once the recordings under way are over, a closed breaker has counted
\* fewer failures than open it and a half-open one fewer successes than close it.
CountersSettled ==
    Settled =>
        /\ state = "Closed" => failure_count < failure_threshold
        /\ state = "HalfOpen" => success_count < success_threshold

\* An open breaker does not stay open for ever.
OpenRecovers == state = "Open" ~> state # "Open"

=============================================================================
