---------------------------- MODULE PolicyLimiter ----------------------------
(***************************************************************************)
(* PolicyEngine and its rate limits: crates/agentverify-policy/src/        *)
(* engine.rs and policy.rs.                                                *)
(*                                                                         *)
(* Threads evaluate actions of one name on clones of one engine, which     *)
(* share the two trackers, each behind a mutex of its own; maintenance     *)
(* (cleanup, reset_rate_limits) runs beside them.  A step is one critical  *)
(* section, but rate_limit_status reads the clock twice in its own.  Time  *)
(* is counted in ticks; of a bucket only its age matters, and only up to   *)
(* twice the longest window.                                               *)
(***************************************************************************)
EXTENDS Integers, Policies, FiniteSetsExt

CONSTANTS Threads,
          Keys,      \* idempotency keys
          NoKey,     \* action.idempotency_key = None
          Name,      \* the name of the action
          Requests   \* what a caller may ask, see RequestsAssumption

LimitOf(r) == get_rate_limit(r.policy, r.name)
KeyLimitOf(r) == get_rate_limit_per_key(r.policy, r.name)

\* A policy, an action, a contract and the caller's level.
ASSUME RequestsAssumption ==
    \A r \in Requests :
        /\ r.name \in {Name, <<>>}
        /\ r.key \in Keys \cup {NoKey}
        /\ r.contract \in {"None", "Invalid", "Valid"}
        /\ r.access_level \in DOMAIN AccessLevel
        /\ {LimitOf(r), KeyLimitOf(r)} \subseteq LimitType
ASSUME FiniteAssumption == IsFiniteSet(Requests)
ASSUME KeyAssumption == NoKey \notin Keys

VARIABLES
    request,   \* what each thread evaluates, again and again
    pc,        \* where each thread is in evaluate_with_access
    decision,  \* "None", "Allowed" or why it was denied
    bucket,    \* rate_limit_tracker: the bucket of the action
    by_key,    \* idempotency_tracker: the bucket of each key
    holder,    \* the thread that holds the lock of rate_limit_tracker in rate_limit_status
    janitor,   \* where cleanup and reset_rate_limits are
    recent,    \* history: recent[n] actions got past the limit in the last n ticks
    recent_by  \* history: the same for each key

trackers == <<bucket, by_key>>
history == <<recent, recent_by>>
vars == <<request, pc, decision, trackers, holder, janitor, history>>

Nobody == "Nobody"
ASSUME NobodyAssumption == Nobody \notin Threads
NoBucket == [exists |-> FALSE, count |-> 0, age |-> 0, limit |-> NoLimit]

Real(limits) == {l \in limits : ~l.unlimited}
Limits == Real({LimitOf(r) : r \in Requests})
KeyLimits == Real({KeyLimitOf(r) : r \in Requests})

Longest(limits) == Max({l.window : l \in limits} \cup {1})
Shortest(limits) == Min({l.window : l \in limits} \cup {Longest(limits)})
Largest(limits) == Max({l.max_count : l \in limits} \cup {0})

\* As many ticks of history as the shortest window has.
NoPasses(limits) == [n \in 0..Shortest(limits) |-> 0]

Init ==
    /\ request \in [Threads -> Requests]
    /\ pc = [t \in Threads |-> "idle"]
    /\ decision = [t \in Threads |-> "None"]
    /\ bucket = NoBucket
    /\ by_key = [k \in Keys |-> NoBucket]
    /\ holder = Nobody
    /\ janitor = "idle"
    /\ recent = NoPasses(Limits)
    /\ recent_by = [k \in Keys |-> NoPasses(KeyLimits)]

-----------------------------------------------------------------------------
\* Buckets

\* reset_if_expired
Expired(b) == b.age >= b.limit.window

\* or_insert_with, then reset_if_expired: a bucket keeps the limit it was
\* created with.
Fresh(b, limit) ==
    IF ~b.exists THEN [exists |-> TRUE, count |-> 0, age |-> 0, limit |-> limit]
    ELSE IF Expired(b) THEN [b EXCEPT !.count = 0, !.age = 0]
    ELSE b

\* check_and_increment
Passes(b, limit) == Fresh(b, limit).count < Fresh(b, limit).limit.max_count
Charged(b, limit) ==
    [Fresh(b, limit) EXCEPT !.count = IF Passes(b, limit) THEN @ + 1 ELSE @]

Count(passes, yes) == [n \in DOMAIN passes |-> IF yes /\ n > 0 THEN passes[n] + 1 ELSE passes[n]]

-----------------------------------------------------------------------------
\* evaluate_with_access

\* The checks that come before the rate limits: the first that fails.
Denial(r) ==
    IF ~r.policy.enabled THEN "ActionNotAllowed"
    ELSE IF r.name = <<>> THEN "EmptyActionName"
    ELSE IF r.name \in r.policy.blocked_actions THEN "ActionBlocked"
    ELSE IF ~is_action_allowed(r.policy, r.name) THEN "ActionNotAllowed"
    ELSE IF AccessLevel[r.access_level] < AccessLevel[get_required_access_level(r.policy, r.name)]
         THEN "InsufficientAccessLevel"
    ELSE IF is_contract_required(r.policy, r.name) /\ r.contract = "None" THEN "ContractRequired"
    ELSE IF is_contract_required(r.policy, r.name) /\ r.contract = "Invalid" THEN "ContractInvalid"
    ELSE "None"

Go(t, from, to) == pc[t] = from /\ pc' = [pc EXCEPT ![t] = to]
Decide(t, from, what) == Go(t, from, "idle") /\ decision' = [decision EXCEPT ![t] = what]
Unlocked == holder = Nobody

Deny(t) ==
    /\ Denial(request[t]) # "None"
    /\ Decide(t, "idle", Denial(request[t]))
    /\ UNCHANGED <<request, trackers, holder, janitor, history>>

Admit(t) ==
    /\ Denial(request[t]) = "None"
    /\ Go(t, "idle", "limit")
    /\ decision' = [decision EXCEPT ![t] = "None"]
    /\ UNCHANGED <<request, trackers, holder, janitor, history>>

SkipLimit(t) ==
    /\ LimitOf(request[t]).unlimited
    /\ Go(t, "limit", "key")
    /\ UNCHANGED <<request, decision, trackers, holder, janitor, history>>

CheckLimit(t) ==
    LET limit == LimitOf(request[t])
        yes == Passes(bucket, limit)
    IN  /\ ~limit.unlimited /\ Unlocked
        /\ Go(t, "limit", IF yes THEN "key" ELSE "status")
        /\ bucket' = Charged(bucket, limit)
        /\ recent' = Count(recent, yes)
        /\ UNCHANGED <<request, decision, by_key, holder, janitor, recent_by>>

\* rate_limit_status, for the message of the denial: the first elapsed()
ReadStatus(t) ==
    /\ Unlocked
    /\ IF bucket.exists /\ bucket.age < LimitOf(request[t]).window
       THEN Go(t, "status", "remaining") /\ holder' = t /\ UNCHANGED decision
       ELSE Decide(t, "status", "RateLimitExceeded") /\ UNCHANGED holder
    /\ UNCHANGED <<request, trackers, janitor, history>>

\* Mutant of ReadRemaining: the panic leaves the lock locked.
ReadRemainingPoisons(t) ==
    /\ IF bucket.age > LimitOf(request[t]).window
       THEN Decide(t, "remaining", "Panic") /\ UNCHANGED holder
       ELSE Decide(t, "remaining", "RateLimitExceeded") /\ holder' = Nobody
    /\ UNCHANGED <<request, trackers, janitor, history>>

\* The second elapsed(): the subtraction fails, and unwrap panics, when the
\* window lapsed in between.  A poisoned lock is taken all the same.
ReadRemaining(t) ==
    /\ Decide(t, "remaining", IF bucket.age > LimitOf(request[t]).window THEN "Panic" ELSE "RateLimitExceeded")
    /\ holder' = Nobody
    /\ UNCHANGED <<request, trackers, janitor, history>>

SkipKeyLimit(t) ==
    /\ KeyLimitOf(request[t]).unlimited \/ request[t].key = NoKey
    /\ Decide(t, "key", "Allowed")
    /\ UNCHANGED <<request, trackers, holder, janitor, history>>

CheckKeyLimit(t) ==
    LET limit == KeyLimitOf(request[t])
        k == request[t].key
        yes == Passes(by_key[k], limit)
    IN  /\ ~limit.unlimited /\ k # NoKey
        /\ Decide(t, "key", IF yes THEN "Allowed" ELSE "RateLimitExceeded")
        /\ by_key' = [by_key EXCEPT ![k] = Charged(@, limit)]
        /\ recent_by' = [recent_by EXCEPT ![k] = Count(@, yes)]
        /\ UNCHANGED <<request, bucket, holder, janitor, recent>>

-----------------------------------------------------------------------------
\* cleanup and reset_rate_limits: one tracker, then the other

\* Mutant of Stale: buckets go when half of their window is over.
StaleEarly(b) == b.exists /\ 2 * b.age >= b.limit.window

\* cleanup_expired retains what is younger than two windows.
Stale(b) == b.exists /\ b.age >= 2 * b.limit.window

CleanupActions ==
    /\ janitor = "idle" /\ janitor' = "cleanup" /\ Unlocked
    /\ bucket' = IF Stale(bucket) THEN NoBucket ELSE bucket
    /\ UNCHANGED <<request, pc, decision, by_key, holder, history>>

CleanupKeys ==
    /\ janitor = "cleanup" /\ janitor' = "idle"
    /\ by_key' = [k \in Keys |-> IF Stale(by_key[k]) THEN NoBucket ELSE by_key[k]]
    /\ UNCHANGED <<request, pc, decision, bucket, holder, history>>

ResetActions ==
    /\ janitor = "idle" /\ janitor' = "reset" /\ Unlocked
    /\ bucket' = NoBucket /\ recent' = NoPasses(Limits)
    /\ UNCHANGED <<request, pc, decision, by_key, holder, recent_by>>

ResetKeys ==
    /\ janitor = "reset" /\ janitor' = "idle"
    /\ by_key' = [k \in Keys |-> NoBucket]
    /\ recent_by' = [k \in Keys |-> NoPasses(KeyLimits)]
    /\ UNCHANGED <<request, pc, decision, bucket, holder, recent>>

-----------------------------------------------------------------------------
\* External: the clock.

Older(b) ==
    [b EXCEPT !.age = IF b.exists /\ @ < 2 * Longest(Limits \cup KeyLimits) THEN @ + 1 ELSE @]

Shift(passes) == [n \in DOMAIN passes |-> IF n = 0 THEN 0 ELSE passes[n - 1]]

Tick ==
    /\ bucket' = Older(bucket)
    /\ by_key' = [k \in Keys |-> Older(by_key[k])]
    /\ recent' = Shift(recent)
    /\ recent_by' = [k \in Keys |-> Shift(recent_by[k])]
    /\ UNCHANGED <<request, pc, decision, holder, janitor>>

ThreadStep(t) ==
    \/ Deny(t) \/ Admit(t) \/ SkipLimit(t) \/ CheckLimit(t)
    \/ ReadStatus(t) \/ ReadRemaining(t) \/ SkipKeyLimit(t) \/ CheckKeyLimit(t)

Next ==
    \/ \E t \in Threads : ThreadStep(t)
    \/ CleanupActions \/ CleanupKeys \/ ResetActions \/ ResetKeys
    \/ Tick

Spec == Init /\ [][Next]_vars

\* Callers go on calling, and time passes.
FairSpec == Spec /\ WF_vars(Tick) /\ \A t \in Threads : WF_vars(ThreadStep(t))

-----------------------------------------------------------------------------
\* Properties

WellFormed(b) ==
    /\ b \in [exists : BOOLEAN, count : Nat, age : Nat, limit : LimitType]
    /\ b.count <= b.limit.max_count

\* Every variable keeps its shape, and no bucket is over its own limit.
TypeOK ==
    /\ request \in [Threads -> Requests]
    /\ pc \in [Threads -> {"idle", "limit", "status", "remaining", "key"}]
    /\ decision \in [Threads -> {"None", "Panic"} \cup PolicyDecision]
    /\ WellFormed(bucket)
    /\ DOMAIN by_key = Keys /\ \A k \in Keys : WellFormed(by_key[k])
    /\ holder \in Threads \cup {Nobody}
    /\ \A t \in Threads : holder = t <=> pc[t] = "remaining"
    /\ janitor \in {"idle", "cleanup", "reset"}
    /\ recent \in [0..Shortest(Limits) -> Nat]
    /\ recent_by \in [Keys -> [0..Shortest(KeyLimits) -> Nat]]

\* Windows do not slide, so around the end of one a burst may pass twice: almost,
\* for the window began with an action that passed.
Burst(limits) == Max({0, 2 * Largest(limits) - 1})

\* In no stretch of time as long as the shortest window do more than one less than
\* twice the largest limit get past check_rate_limit, whichever policies the
\* threads evaluate and whenever a cleanup comes in between; the same holds for each
\* key, whatever passes the check of the action and is denied by that of the key.
RateBound ==
    /\ recent[Shortest(Limits)] <= Burst(Limits)
    /\ \A k \in Keys : recent_by[k][Shortest(KeyLimits)] <= Burst(KeyLimits)

\* Denied evaluations are charged to the action when only the limit of their key
\* denies them, and the status message may panic with the tracker locked.  All the
\* same, if every limit admits something, some evaluation that passes the other
\* checks is allowed again and again.
NeverWedged ==
    /\ \E t \in Threads : Denial(request[t]) = "None"
    /\ \A l \in Limits \cup KeyLimits : l.max_count > 0
    => []<>(\E t \in Threads : decision[t] = "Allowed")

=============================================================================
