------------------------------ MODULE Executor ------------------------------
(***************************************************************************)
(* The verified executor: crates/agentverify-runtime/src/executor.rs.      *)
(*                                                                         *)
(* Each run is one call of Executor::execute (simulated dispatch) or       *)
(* Executor::execute_with_executor (dispatch through an ActionExecutor) on *)
(* one shared Executor, whose idempotency store is the in-memory           *)
(* IdempotencyRegistry.  A step ends where the code awaits something that  *)
(* another task can change: the registry's mutex, a sleep, the observer,   *)
(* the action executor, the receipt store.                                 *)
(*                                                                         *)
(* The system of record is outside the code.  It is reduced to how many    *)
(* times the action of a key took effect (effects) and how many dispatches *)
(* are still on their way (transit); a dispatch in transit may arrive at   *)
(* any later time or never.                                                *)
(***************************************************************************)
EXTENDS Naturals, Sequences, Lifecycle

CONSTANTS Runs,              \* the calls made to the executor
          Keys,              \* idempotency keys
          NoKey,             \* action.idempotency_key = None
          Calls,             \* the argument lists a caller may pass
          MaxRetries,        \* ExecutorConfig::max_retries
          VerifyBeforeRetry  \* ExecutorConfig::verify_before_retry

Predicates == {"exists", "not_exists", "bad_pattern"}

\* contract.recovery: "Absent" is None, "Retry" is every strategy other than
\* NoAction, which should_retry does not tell apart.
Recoveries == [strategy : {"Absent", "NoAction", "Retry"}, max_attempts : Nat]

\* What the arguments of a call decide: action.idempotency_key, the entry
\* point, whether an observer is passed, contract.preconditions,
\* contract.postconditions and contract.recovery.
CallType ==
    [key : Keys \cup {NoKey}, simulated : BOOLEAN, observer : BOOLEAN,
     pre : SUBSET Predicates, post : Seq([pred : Predicates, mandatory : BOOLEAN]),
     recovery : Recoveries]

ASSUME CallsAssumption == Calls \subseteq CallType
ASSUME KeyAssumption == NoKey \notin Keys
ASSUME ConfigAssumption == MaxRetries \in Nat /\ VerifyBeforeRetry \in BOOLEAN

VARIABLES
    entries,  \* IdempotencyRegistry::entries: "Vacant" | "InFlight" | a verdict
    pc,       \* where each run is
    call,     \* the arguments of each run
    attempts, \* the loop's attempt counter
    fsm,      \* the StateMachine of the current attempt
    obs,      \* the state the run read last
    details,  \* the attempt postcondition_details comes from, 0 when empty
    verdict,  \* final_result
    policy,   \* the ClaimPolicy of an aborting run
    reply,    \* what the call returned: "Silent" until then
    stored,   \* the runs whose receipt was persisted
    effects,  \* external: how often the action of a key took effect
    transit,  \* external: dispatches that may still take effect
    sent,     \* history: the last attempt whose dispatch may have left
    looked    \* history: the observer answered since that dispatch

registry == <<entries>>
world == <<effects, transit>>
history == <<sent, looked>>
vars == <<entries, pc, call, attempts, fsm, obs, details, verdict, policy, reply,
          stored, effects, transit, sent, looked>>

-----------------------------------------------------------------------------
\* Results, outcomes and policies

\* VerificationResult, without Duplicate: what a run can be completed with.
Verdicts == {"Verified", "Failed", "Unknown", "Partial"}

\* DispatchOutcome and DispatchError.  "Applied", "Transit" and "Nothing" say
\* what a dispatch with that outcome may have done to the system of record.
Unsent == {"Nothing"}
Ambiguous == {"Nothing", "Applied", "Transit"}

OutcomeReach ==
    [Completed |-> {"Applied"}, Accepted |-> {"Transit"},
     TimeoutBeforeDispatch |-> Unsent, TimeoutAfterDispatch |-> Ambiguous,
     TransportError |-> Ambiguous, AmbiguousOutcome |-> Ambiguous]

ErrorReach ==
    [ActionNotSupported |-> Unsent, TimeoutBeforeDispatch |-> Unsent, Rejected |-> Unsent,
     TransportError |-> Ambiguous, TimeoutAfterDispatch |-> Ambiguous,
     AmbiguousError |-> Ambiguous]

\* Mutant of ClaimPolicyFor: a transport error is taken for an unsent request.
ReleaseOnTransportError(error) ==
    IF error \in {"ActionNotSupported", "TimeoutBeforeDispatch", "Rejected", "TransportError"}
    THEN "Release" ELSE "ConsumeUnknown"

ClaimPolicyFor(error) ==
    IF error \in {"ActionNotSupported", "TimeoutBeforeDispatch", "Rejected"}
    THEN "Release" ELSE "ConsumeUnknown"

\* ABORT_POLICY of execute; the policy execute_with_executor passes on every
\* exit after the dispatch.
PolicyAfterDispatch(c) == IF c.simulated THEN "Release" ELSE "ConsumeUnknown"

ShouldRetry(n, recovery) ==
    CASE recovery.strategy = "Absent"   -> n < MaxRetries
      [] recovery.strategy = "NoAction" -> FALSE
      [] OTHER                          -> n < recovery.max_attempts

\* The two arms of the verdict match that may loop.
Retries(result, n, c) ==
    \/ result = "Failed" /\ VerifyBeforeRetry /\ ShouldRetry(n, c.recovery)
    \/ result = "Unknown" /\ ShouldRetry(n, c.recovery)

\* PredicateEngine::evaluate on the states the model tells apart: "Empty" is the
\* {} that stands in for an observation when there is no observer.  A pattern
\* is compiled only once the path resolves to a string.
Evaluate(pred, state) ==
    CASE pred = "exists"     -> IF state = "Present" THEN "Verified" ELSE "Failed"
      [] pred = "not_exists" -> IF state = "Present" THEN "Failed" ELSE "Verified"
      [] OTHER               -> IF state = "Present" THEN "EngineError" ELSE "Failed"

PreconditionsHold(pre, state) == \A p \in pre : Evaluate(p, state) = "Verified"

\* Mutant of VerifyPostconditions: one satisfied postcondition is enough.
VerifyAnyPostcondition(post, state) ==
    IF \E i \in DOMAIN post : Evaluate(post[i].pred, state) = "Verified" THEN "Verified" ELSE "Failed"

\* An engine error ends the evaluation; the arm for the other indeterminate
\* results is dead, for the engine returns none of them.
VerifyPostconditions(post, state) ==
    LET at(i) == Evaluate(post[i].pred, state)
    IN  IF \E i \in DOMAIN post : at(i) = "EngineError" THEN "EngineError"
        ELSE IF \A i \in DOMAIN post : at(i) = "Verified" THEN "Verified"
        ELSE IF \E i \in DOMAIN post : post[i].mandatory /\ at(i) = "Failed" THEN "Failed"
        ELSE "Partial"

-----------------------------------------------------------------------------
\* Where a run is

Key(r) == call[r].key
Keyed(r) == Key(r) \in Keys
Step(r, from, to) == pc[r] = from /\ pc' = [pc EXCEPT ![r] = to]

InRun == {"attempt", "dispatch", "observe", "verify", "complete", "abort"}

\* The run owns the claim on its key.
Holding(r) == pc[r] \in InRun /\ Keyed(r)

\* The observer reads the system of record.
World(r) == IF effects[Key(r)] > 0 THEN "Present" ELSE "Absent"

-----------------------------------------------------------------------------
Init ==
    /\ entries = [k \in Keys |-> "Vacant"]
    /\ pc = [r \in Runs |-> "start"]
    /\ call \in [Runs -> Calls]
    /\ attempts = [r \in Runs |-> 0]
    /\ fsm = [r \in Runs |-> "Proposed"]
    /\ obs = [r \in Runs |-> "Empty"]
    /\ details = [r \in Runs |-> 0]
    /\ verdict = [r \in Runs |-> "Failed"]  \* final_result.unwrap_or(Failed)
    /\ policy = [r \in Runs |-> "Release"]
    /\ reply = [r \in Runs |-> "Silent"]
    /\ stored = {}
    /\ effects = [k \in Keys \cup {NoKey} |-> 0]
    /\ transit = [k \in Keys \cup {NoKey} |-> 0]
    /\ sent = [r \in Runs |-> 0]
    /\ looked = [r \in Runs |-> FALSE]

\* advance_or_abort: go on at `to` in lifecycle state s, or abort the run under
\* policy p when the lifecycle refused the transition.
AdvanceOrAbort(r, s, from, to, p) ==
    /\ Step(r, from, IF s = Invalid THEN "abort" ELSE to)
    /\ fsm' = [fsm EXCEPT ![r] = s]
    /\ policy' = [policy EXCEPT ![r] = IF s = Invalid THEN p ELSE @]

AbortWith(r, from, p) ==
    /\ Step(r, from, "abort")
    /\ policy' = [policy EXCEPT ![r] = p]
    /\ UNCHANGED fsm

Return(r, from, what) ==
    /\ Step(r, from, "done")
    /\ reply' = [reply EXCEPT ![r] = what]

Read(r) ==
    /\ call[r].observer
    /\ obs' = [obs EXCEPT ![r] = World(r)]
    /\ looked' = [looked EXCEPT ![r] = TRUE]

-----------------------------------------------------------------------------
\* The claim: one critical section of the registry's mutex per action

locals == <<call, attempts, fsm, obs, details, verdict, policy, stored>>

StartUnkeyed(r) ==
    /\ ~Keyed(r)
    /\ Step(r, "start", "attempt")
    /\ UNCHANGED <<registry, locals, reply, world, history>>

\* Mutant of Claim: an in-flight key is claimed as if it were vacant.
ClaimInFlight(r) ==
    /\ Keyed(r) /\ entries[Key(r)] \notin Verdicts
    /\ Step(r, "start", "attempt")
    /\ entries' = [entries EXCEPT ![Key(r)] = "InFlight"]
    /\ UNCHANGED <<locals, reply, world, history>>

Claim(r) ==
    /\ Keyed(r) /\ entries[Key(r)] = "Vacant"
    /\ Step(r, "start", "attempt")
    /\ entries' = [entries EXCEPT ![Key(r)] = "InFlight"]
    /\ UNCHANGED <<locals, reply, world, history>>

FindCompleted(r) ==
    /\ Keyed(r) /\ entries[Key(r)] \in Verdicts
    /\ Return(r, "start", entries[Key(r)])
    /\ UNCHANGED <<registry, locals, world, history>>

FindInFlight(r) ==
    /\ Keyed(r) /\ entries[Key(r)] = "InFlight"
    /\ \/ call[r].simulated /\ Return(r, "start", "Duplicate")
       \/ ~call[r].simulated /\ Step(r, "start", "poll") /\ UNCHANGED reply
    /\ UNCHANGED <<registry, locals, world, history>>

\* Mutant of Poll: the poll goes on until somebody completes the key.
PollUntilCompleted(r) ==
    /\ pc[r] = "poll" /\ entries[Key(r)] \in Verdicts
    /\ Return(r, "poll", entries[Key(r)])
    /\ UNCHANGED <<registry, locals, world, history>>

\* The second claim_or_check, 50ms later, whose ClaimResult is dropped: a key
\* that was released meanwhile is claimed again, by a run that then returns.
Poll(r) ==
    /\ Return(r, "poll", IF entries[Key(r)] \in Verdicts THEN entries[Key(r)] ELSE "Duplicate")
    /\ entries' = [entries EXCEPT ![Key(r)] = IF @ = "Vacant" THEN "InFlight" ELSE @]
    /\ UNCHANGED <<locals, world, history>>

-----------------------------------------------------------------------------
\* One attempt of the main loop

StartAttempt(r) == attempts' = [attempts EXCEPT ![r] = @ + 1]

PassPreconditions(r) ==
    /\ \/ call[r].pre = {} /\ UNCHANGED <<obs, looked>>
       \/ call[r].pre # {} /\ PreconditionsHold(call[r].pre, World(r)) /\ Read(r)
    /\ StartAttempt(r)
    /\ AdvanceOrAbort(r, Advance2(Transition("Proposed", "Validating"), "Authorized", "Executing"),
                      "attempt", "dispatch", "Release")
    /\ UNCHANGED <<registry, call, details, verdict, reply, stored, world, sent>>

\* Fails closed: also without an observer, or when it errs or times out.
RejectPreconditions(r) ==
    /\ call[r].pre # {}
    /\ \/ ~PreconditionsHold(call[r].pre, World(r)) /\ Read(r)
       \/ UNCHANGED <<obs, looked>>
    /\ StartAttempt(r)
    /\ AdvanceOrAbort(r, Advance2("Proposed", "Validating", "Rejected"),
                      "attempt", "complete", "Release")
    /\ verdict' = [verdict EXCEPT ![r] = "Failed"]
    /\ UNCHANGED <<registry, call, details, reply, stored, world, sent>>

SimulateExecution(r) ==
    /\ call[r].simulated
    /\ AdvanceOrAbort(r, Advance2(fsm[r], "Unknown", "Observing"), "dispatch", "observe", "Release")
    /\ UNCHANGED <<registry, call, attempts, obs, details, verdict, reply, stored, world, history>>

\* The dispatch's fate at the system of record, and what the run knows of it.
Dispatch(r, fate, reach) ==
    /\ ~call[r].simulated
    /\ effects' = [effects EXCEPT ![Key(r)] = IF fate = "Applied" THEN @ + 1 ELSE @]
    /\ transit' = [transit EXCEPT ![Key(r)] = IF fate = "Transit" THEN @ + 1 ELSE @]
    /\ sent' = [sent EXCEPT ![r] = IF reach = Unsent THEN @ ELSE attempts[r]]
    /\ looked' = [looked EXCEPT ![r] = IF reach = Unsent THEN @ ELSE FALSE]

DispatchReturns(r) ==
    \E o \in {"Completed", "Accepted", "TimeoutBeforeDispatch", "TimeoutAfterDispatch"} :
        /\ \E fate \in OutcomeReach[o] : Dispatch(r, fate, OutcomeReach[o])
        /\ LET s == IF o \in {"Completed", "Accepted"} THEN "Executed" ELSE "Unknown"
           IN  AdvanceOrAbort(r, Advance2(fsm[r], s, "Observing"), "dispatch", "observe", "ConsumeUnknown")
        /\ UNCHANGED <<registry, call, attempts, obs, details, verdict, reply, stored>>

DispatchAmbiguous(r) ==
    /\ \E o \in {"TransportError", "AmbiguousOutcome"} :
          \E fate \in OutcomeReach[o] : Dispatch(r, fate, OutcomeReach[o])
    /\ Step(r, "dispatch", "complete")
    /\ verdict' = [verdict EXCEPT ![r] = "Unknown"]
    /\ UNCHANGED <<registry, call, attempts, fsm, obs, details, policy, reply, stored>>

DispatchFails(r) ==
    \E e \in DOMAIN ErrorReach :
        /\ \E fate \in ErrorReach[e] : Dispatch(r, fate, ErrorReach[e])
        /\ AbortWith(r, "dispatch", ClaimPolicyFor(e))
        /\ UNCHANGED <<registry, call, attempts, obs, details, verdict, reply, stored>>

\* Mutant of Observe: what was read before the dispatch is used again.
ObserveReusesState(r) ==
    /\ AdvanceOrAbort(r, Transition(fsm[r], "Verifying"), "observe", "verify", PolicyAfterDispatch(call[r]))
    /\ UNCHANGED <<registry, call, attempts, obs, details, verdict, reply, stored, world, history>>

Observe(r) ==
    /\ \/ Read(r)
       \/ ~call[r].observer /\ obs' = [obs EXCEPT ![r] = "Empty"] /\ UNCHANGED looked
    /\ AdvanceOrAbort(r, Transition(fsm[r], "Verifying"), "observe", "verify", PolicyAfterDispatch(call[r]))
    /\ UNCHANGED <<registry, call, attempts, details, verdict, reply, stored, world, sent>>

\* ExecutorError::Unknown from the observer is a verdict on the dispatching path.
ObserverUnknown(r) ==
    /\ call[r].observer /\ ~call[r].simulated
    /\ Step(r, "observe", "complete")
    /\ verdict' = [verdict EXCEPT ![r] = "Unknown"]
    /\ UNCHANGED <<registry, call, attempts, fsm, obs, details, policy, reply, stored, world, history>>

\* Any other error of the observer, or its timeout.
ObserverFails(r) ==
    /\ call[r].observer
    /\ AbortWith(r, "observe", PolicyAfterDispatch(call[r]))
    /\ UNCHANGED <<registry, call, attempts, obs, details, verdict, reply, stored, world, history>>

Result(r) == VerifyPostconditions(call[r].post, obs[r])

EvaluationFails(r) ==
    /\ Result(r) = "EngineError"
    /\ AbortWith(r, "verify", PolicyAfterDispatch(call[r]))
    /\ UNCHANGED <<registry, call, attempts, obs, details, verdict, reply, stored, world, history>>

RecordDetails(r) ==
    details' = [details EXCEPT ![r] = IF call[r].post = <<>> THEN 0 ELSE attempts[r]]

RetryAttempt(r) ==
    /\ Retries(Result(r), attempts[r], call[r])
    /\ RecordDetails(r)
    /\ Step(r, "verify", "attempt")
    /\ UNCHANGED <<registry, call, attempts, fsm, obs, verdict, policy, reply, stored, world, history>>

\* The lifecycle after the verdict match: a verified run is committed, the arms for
\* Unknown and Partial advance nothing.
FinalState(result, state) ==
    CASE result = "Verified" -> Advance2(state, "Verified", "Committed")
      [] result = "Failed"   -> Transition(state, "VerificationFailed")
      [] OTHER               -> state

Conclude(r) ==
    /\ Result(r) \in Verdicts
    /\ ~Retries(Result(r), attempts[r], call[r])
    /\ RecordDetails(r)
    /\ verdict' = [verdict EXCEPT ![r] = Result(r)]
    /\ AdvanceOrAbort(r, FinalState(Result(r), fsm[r]), "verify", "complete", PolicyAfterDispatch(call[r]))
    /\ UNCHANGED <<registry, call, attempts, obs, reply, stored, world, history>>

-----------------------------------------------------------------------------
\* The exits

Put(r, value) ==
    entries' = IF Keyed(r) THEN [entries EXCEPT ![Key(r)] = value] ELSE entries

\* Mutant of Complete: an Unknown verdict releases the key.
CompleteReleasesUnknown(r) ==
    /\ Step(r, "complete", "persist")
    /\ Put(r, IF verdict[r] = "Unknown" THEN "Vacant" ELSE verdict[r])
    /\ UNCHANGED <<locals, reply, world, history>>

Complete(r) ==
    /\ Step(r, "complete", "persist")
    /\ Put(r, verdict[r])
    /\ UNCHANGED <<locals, reply, world, history>>

\* store_receipt: a failure to persist is only logged.
Persist(r) ==
    /\ Return(r, "persist", verdict[r])
    /\ stored' \in {stored, stored \cup {r}}
    /\ UNCHANGED <<registry, call, attempts, fsm, obs, details, verdict, policy, world, history>>

\* Mutant of Abort: an unknown effect is recorded as a failure.
AbortGuessesFailed(r) ==
    /\ Return(r, "abort", "Error")
    /\ Put(r, IF policy[r] = "Release" THEN "Vacant" ELSE "Failed")
    /\ UNCHANGED <<locals, world, history>>

\* resolve_claim_on_error
Abort(r) ==
    /\ Return(r, "abort", "Error")
    /\ Put(r, IF policy[r] = "Release" THEN "Vacant" ELSE "Unknown")
    /\ UNCHANGED <<locals, world, history>>

\* External: a dispatch reaches the system of record late.
EffectArrives(k) ==
    /\ transit[k] > 0
    /\ transit' = [transit EXCEPT ![k] = @ - 1]
    /\ effects' = [effects EXCEPT ![k] = @ + 1]
    /\ UNCHANGED <<registry, pc, locals, reply, history>>

AllReturned ==
    /\ \A r \in Runs : pc[r] = "done"
    /\ UNCHANGED vars

RunStep(r) ==
    \/ StartUnkeyed(r) \/ Claim(r) \/ FindCompleted(r) \/ FindInFlight(r) \/ Poll(r)
    \/ PassPreconditions(r) \/ RejectPreconditions(r)
    \/ SimulateExecution(r) \/ DispatchReturns(r) \/ DispatchAmbiguous(r) \/ DispatchFails(r)
    \/ Observe(r) \/ ObserverUnknown(r) \/ ObserverFails(r)
    \/ EvaluationFails(r) \/ RetryAttempt(r) \/ Conclude(r)
    \/ Complete(r) \/ Persist(r) \/ Abort(r)

Next ==
    \/ \E r \in Runs : RunStep(r)
    \/ \E k \in Keys \cup {NoKey} : EffectArrives(k)
    \/ AllReturned

Spec == Init /\ [][Next]_vars

\* Every run is a task of the async runtime: it is polled until it returns.
FairSpec == Spec /\ \A r \in Runs : WF_vars(RunStep(r))

-----------------------------------------------------------------------------
\* Properties

Places == {"start", "poll", "persist", "done"} \cup InRun

\* Every variable keeps the shape the code gives it; counters stay natural.
TypeOK ==
    /\ entries \in [Keys -> {"Vacant", "InFlight"} \cup Verdicts]
    /\ pc \in [Runs -> Places]
    /\ call \in [Runs -> Calls]
    /\ attempts \in [Runs -> Nat]
    /\ fsm \in [Runs -> LifecycleStates \cup {Invalid}]
    /\ obs \in [Runs -> {"Empty", "Absent", "Present"}]
    /\ details \in [Runs -> Nat]
    /\ verdict \in [Runs -> Verdicts]
    /\ policy \in [Runs -> {"Release", "ConsumeUnknown"}]
    /\ reply \in [Runs -> {"Silent", "Duplicate", "Error"} \cup Verdicts]
    /\ stored \subseteq Runs
    /\ effects \in [Keys \cup {NoKey} -> Nat]
    /\ transit \in [Keys \cup {NoKey} -> Nat]
    /\ sent \in [Runs -> Nat]
    /\ looked \in [Runs -> BOOLEAN]

\* claim_or_check "prevents two concurrent requests from both dispatching the
\* same action": of the runs of one key at most one is between its claim and
\* the resolution of that claim.
ClaimExclusive ==
    \A r, s \in Runs : Holding(r) /\ Holding(s) /\ Key(r) = Key(s) => r = s

\* All the calls of a key that are answered with a verdict, by their own run,
\* from the registry at once or after the poll, are answered with the same one.
VerdictAgreement ==
    \A r, s \in Runs :
        /\ Keyed(r) /\ Key(r) = Key(s)
        /\ reply[r] \in Verdicts /\ reply[s] \in Verdicts
        => reply[r] = reply[s]

\* Every advance the executor makes is in the lifecycle table, so no
\* advance_or_abort ever aborts, and the lifecycle state a run ends in tells
\* the same story as its verdict.
LifecycleAgrees ==
    \A r \in Runs :
        /\ fsm[r] # Invalid
        /\ pc[r] \in {"complete", "persist"} =>
             CASE verdict[r] = "Verified" -> fsm[r] = "Committed"
               [] verdict[r] = "Failed"   -> fsm[r] \in {"Rejected", "VerificationFailed"}
               [] OTHER                   -> ~IsTerminal(fsm[r])

\* A run that concludes Verified from an observer, under a contract that asks
\* for the effect to exist, is right about the system of record.
VerifiedHasEffect ==
    \A r \in Runs :
        /\ verdict[r] = "Verified"
        /\ call[r].observer
        /\ \E i \in DOMAIN call[r].post : call[r].post[i].pred = "exists"
        => effects[Key(r)] > 0

\* The key of an action is worth its name: as long as no run of a key needed a
\* second attempt, the action takes effect at most once, whatever dispatches
\* were lost, late or ambiguous and however many calls were made.
AtMostOnceEffect ==
    \A k \in Keys :
        (\A r \in Runs : Key(r) = k => attempts[r] <= 1) => effects[k] + transit[k] <= 1

\* Verify-before-retry: a run with an observer never dispatches again without
\* having read the system of record since its previous dispatch.
LookBeforeRedispatch ==
    \A r \in Runs :
        pc[r] = "dispatch" /\ sent[r] > 0 /\ call[r].observer => looked[r]

\* "Every error exit after a successful claim must be resolved", "no aborted run
\* can leave a claimed key in flight", "caller is responsible for dispatch": a
\* key in flight has a run that will resolve it.
ClaimOwned ==
    \A k \in Keys : entries[k] = "InFlight" => \E r \in Runs : Key(r) = k /\ Holding(r)

\* create_receipt: "paths that never evaluated postconditions (duplicate claims,
\* dispatch failures) pass an empty vector, and the receipt records exactly what
\* was evaluated": a receipt that counts n attempts carries the details of the
\* n-th, or none.
ReceiptDetailsFresh == \A r \in stored : details[r] \in {0, attempts[r]}

\* Every call returns.
EveryCallReturns == \A r \in Runs : <>(pc[r] = "done")

\* The executor implements the key lifecycle its store trait documents.
Abstract == INSTANCE Idempotency WITH
    slot <- entries,
    asks <- [r \in Runs |-> Key(r)],
    answer <- [r \in Runs |-> IF Keyed(r) THEN reply[r] ELSE "Silent"]

ImplementsIdempotency == Abstract!Spec

-----------------------------------------------------------------------------
\* The inductive strengthenings of the properties above

\* A claim and the entry it created stand or fall together, and whatever
\* verdict was handed out, or is about to be, is the one on record.
KeyInvariant ==
    /\ \A r \in Runs : reply[r] = "Silent" <=> pc[r] # "done"
    /\ \A r \in Runs : pc[r] = "poll" => Keyed(r)
    /\ \A r \in Runs : Holding(r) => entries[Key(r)] = "InFlight"
    /\ \A r \in Runs : Keyed(r) /\ pc[r] = "persist" => entries[Key(r)] = verdict[r]
    /\ \A r \in Runs : Keyed(r) /\ reply[r] \in Verdicts => entries[Key(r)] = reply[r]
    /\ ClaimExclusive

\* The lifecycle state goes with the place in the loop.
LifecycleInvariant ==
    /\ LifecycleAgrees
    /\ \A r \in Runs : /\ pc[r] = "dispatch" => fsm[r] = "Executing"
                       /\ pc[r] = "observe" => fsm[r] = "Observing"
                       /\ pc[r] = "verify" => fsm[r] = "Verifying"

\* What a run saw present stays present, and it looked since it dispatched.
EvidenceInvariant ==
    /\ \A r \in Runs : obs[r] = "Present" => effects[Key(r)] > 0
    /\ VerifiedHasEffect
    /\ \A r \in Runs :
         pc[r] \in {"start", "attempt", "dispatch", "verify"} /\ sent[r] > 0 /\ call[r].observer => looked[r]

\* A run that owns the claim and cannot have dispatched yet.
Untouched(r) ==
    /\ Holding(r)
    /\ \/ call[r].simulated
       \/ pc[r] = "attempt" /\ attempts[r] = 0
       \/ pc[r] = "dispatch"
       \/ pc[r] = "abort" /\ policy[r] = "Release"

\* As long as no run of the key is past its first attempt, there is no effect
\* while the key is vacant or its owner has not dispatched.
EffectInvariant ==
    /\ \A r \in Runs : /\ pc[r] \in {"start", "poll"} => attempts[r] = 0
                       /\ pc[r] \in {"dispatch", "observe", "verify"} => attempts[r] > 0
    /\ \A k \in Keys : (\A r \in Runs : Key(r) = k => attempts[r] <= 1) =>
         /\ effects[k] + transit[k] <= 1
         /\ entries[k] = "Vacant" => effects[k] + transit[k] = 0
         /\ \A r \in Runs : Key(r) = k /\ Untouched(r) => effects[k] + transit[k] = 0

=============================================================================
