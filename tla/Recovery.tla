------------------------------ MODULE Recovery ------------------------------
(***************************************************************************)
(* RecoveryExecutor and the strategies it runs:                            *)
(* crates/agentverify-recovery/src/lib.rs.                                 *)
(*                                                                         *)
(* One call of RecoveryExecutor::execute.  The strategies under way are a  *)
(* stack of frames, because a composite strategy runs strategies.  The     *)
(* circuit breaker is shared with callers that are not in this module, so  *)
(* is_allowed may answer either way at any time; CircuitBreaker models     *)
(* what happens inside it.                                                 *)
(***************************************************************************)
EXTENDS Integers, Sequences, SequencesExt

CONSTANTS Strategies,  \* the strategies there are, the parts of composites among them
          Executors,   \* the RecoveryExecutors to run
          MaxMillis,   \* i64::MAX, which is also the longest Duration in milliseconds
          MaxI32       \* i32::MAX

ASSUME WidthsAssumption == MaxMillis \in Nat /\ MaxI32 \in Nat

Kinds == {"Retry", "Fallback", "CircuitBreaker", "Timeout", "Composite", "Chain"}
\* A float is a quotient; over zero it is infinite, and 0/0 is not a number.
F64 == [num : Int, den : Nat]
BackoffType == [type : {"Fixed", "Linear", "Exponential"},
                initial : 0..MaxMillis, max : 0..MaxMillis, multiplier : F64]

ASSUME StrategiesAssumption ==
    /\ Strategies \subseteq [kind : Kinds, max_attempts : Nat, backoff : BackoffType, parts : Seq(Strategies)]
    /\ \A s \in Strategies : /\ s.kind # "Composite" => s.parts = <<>>
                             /\ s.kind = "Retry" => s.max_attempts <= 2 * MaxI32 + 1
\* A composite owns its parts, so none is, at any depth, a part of itself.
ASSUME NestingAssumption ==
    \A T \in SUBSET Strategies : T # {} => \E s \in T : \A i \in DOMAIN s.parts : s.parts[i] \notin T
ASSUME ExecutorsAssumption ==
    Executors \subseteq [primary : Strategies, fallbacks : Seq(Strategies), guarded : BOOLEAN]

VERIFIED == {"Verified", "Duplicate"}            \* is_success
FAILED == {"Failed", "Partial"}                  \* is_failure
Results == VERIFIED \cup FAILED \cup {"Unknown"}

\* What the operation may return, as Ok or as Err.
OpErrors == {"CircuitBreakerOpen", "UnderlyingError"}
Errors == OpErrors \cup {"MaxAttemptsExceeded", "Timeout", "AllFallbacksExhausted", "NotApplicable"}

Float(num, den) == [num |-> num, den |-> den]
Backoff(type, initial, max, multiplier) ==
    [type |-> type, initial |-> initial, max |-> max, multiplier |-> multiplier]
NoBackoff == Backoff("Fixed", 0, 0, Float(2, 1))

Strategy(kind, attempts, backoff, parts) ==
    [kind |-> kind, max_attempts |-> attempts, backoff |-> backoff, parts |-> parts]
Retry(attempts, backoff) == Strategy("Retry", attempts, backoff, <<>>)
FallbackStrategy == Strategy("Fallback", 0, NoBackoff, <<>>)
CircuitBreakerStrategy == Strategy("CircuitBreaker", 0, NoBackoff, <<>>)
TimeoutStrategy == Strategy("Timeout", 0, NoBackoff, <<>>)
Composite(parts) == Strategy("Composite", 0, NoBackoff, parts)
\* execute_fallback_chain with that many operations.  It is no strategy: its callers
\* run it alone, which is an executor with nothing else.
FallbackChain(n) == Strategy("Chain", n, NoBackoff, <<>>)

RecoveryExecutor(primary, fallbacks, guarded) ==
    [primary |-> primary, fallbacks |-> fallbacks, guarded |-> guarded]

Success(r) == [tag |-> "Success", what |-> r]
Failure(e) == [tag |-> "Failure", what |-> e]
NoOutcome == [tag |-> "None", what |-> "None"]

VARIABLES
    executor,  \* the RecoveryExecutor
    pc,        \* "primary", "breaker", "fallbacks", "done" or "panicked"
    tried,     \* fallbacks begun
    stack,     \* the strategies under way, outermost first
    running,   \* the operation is under way
    returned,  \* the outcome of the strategy that ended last, until it is used
    outcome,   \* the outcome of the primary strategy, then of execute
    slept,     \* the backoff delay before the operation that ran last
    runs,      \* history: how often the operation was started
    won        \* history: the operation returned Verified or Duplicate

vars == <<executor, pc, tried, stack, running, returned, outcome, slept, runs, won>>

Frame(s) == [s |-> s, n |-> 0, has_failure |-> FALSE, last_error |-> "None"]

Init ==
    /\ executor \in Executors
    /\ pc = "primary" /\ tried = 0
    /\ stack = <<Frame(executor.primary)>>
    /\ running = FALSE
    /\ returned = NoOutcome /\ outcome = NoOutcome
    /\ slept = 0 /\ runs = 0 /\ won = FALSE

Busy == stack # <<>>
top == Last(stack)
Active(kind) == Busy /\ top.s.kind = kind /\ ~running /\ returned = NoOutcome

\* The strategy on top returns.
Return(o) == stack' = Front(stack) /\ returned' = o
Update(frame) == stack' = [stack EXCEPT ![Len(stack)] = frame] /\ UNCHANGED returned

-----------------------------------------------------------------------------
\* Backoff::calculate_delay

Power(x) ==
    LET power[n \in Nat] == IF n = 0 THEN 1 ELSE x * power[n - 1]
    IN  power

Inverted(x) == IF x.num < 0 THEN Float(-x.den, -x.num) ELSE Float(x.den, x.num)

powi(x, e) ==
    IF e >= 0 THEN Float(Power(x.num)[e], Power(x.den)[e])
              ELSE Float(Power(Inverted(x).num)[-e], Power(Inverted(x).den)[-e])

\* "as i32" wraps; "as i64" cuts the fraction off, saturates, and makes 0 of what is not
\* a number; "as u64" of an i64 wraps.
as_i32(n) == IF n <= MaxI32 THEN n ELSE n - 2 * (MaxI32 + 1)
Whole(n, d, limit) == IF n = 0 THEN 0 ELSE IF d = 0 \/ n \div d > limit THEN limit ELSE n \div d
as_i64(x) == IF x.num >= 0 THEN Whole(x.num, x.den, MaxMillis) ELSE -Whole(-x.num, x.den, MaxMillis + 1)
as_u64(n) == IF n >= 0 THEN n ELSE n + 2 * (MaxMillis + 1)

\* External: a Duration of n milliseconds.  There is none beyond MaxMillis either way,
\* and chrono's constructor and sum panic; a panic is the empty set.
Duration(n) == IF n \in -MaxMillis..MaxMillis THEN {n} ELSE {}

Unclamped(b, attempt) ==
    CASE b.type = "Fixed"  -> {b.initial}
      [] b.type = "Linear" ->
            UNION {Duration(b.initial + extra) :
                   extra \in Duration(as_i64(Float(b.initial * b.multiplier.num * attempt, b.multiplier.den)))}
      [] b.type = "Exponential" ->
            LET power == powi(b.multiplier, as_i32(attempt))
            IN  Duration(as_i64(Float(b.initial * power.num, power.den)))

\* Mutant of CalculateDelay: the delay is not clamped.
CalculateDelayUnclamped(b, attempt) == Unclamped(b, attempt)

\* The delay, or nothing if calculate_delay panics.
CalculateDelay(b, attempt) == {IF delay > b.max THEN b.max ELSE delay : delay \in Unclamped(b, attempt)}

-----------------------------------------------------------------------------
\* The operation

Start ==
    /\ running' = TRUE
    /\ runs' = runs + 1
    /\ UNCHANGED <<executor, pc, tried, outcome, won>>

End(r) ==
    /\ running /\ running' = FALSE
    /\ won' = (won \/ r \in VERIFIED)
    /\ UNCHANGED <<executor, pc, tried, outcome, slept, runs>>

Quiet == UNCHANGED <<executor, pc, tried, running, outcome, slept, runs, won>>

-----------------------------------------------------------------------------
\* RetryStrategy::execute

\* What it sleeps before an attempt.
Delays(frame) ==
    IF frame.n = 0 THEN {0} ELSE {as_u64(d) : d \in CalculateDelay(frame.s.backoff, frame.n - 1)}

\* Mutant of Attempt: 0..=max_attempts.
AttemptOneMore ==
    /\ Active("Retry") /\ top.n <= top.s.max_attempts
    /\ slept' \in Delays(top)
    /\ Update([top EXCEPT !.n = @ + 1])
    /\ Start

Attempt ==
    /\ Active("Retry") /\ top.n < top.s.max_attempts
    /\ slept' \in Delays(top)
    /\ Update([top EXCEPT !.n = @ + 1])
    /\ Start

\* calculate_delay panics, and with it the task that called execute.
Panics ==
    /\ Active("Retry") /\ top.n < top.s.max_attempts
    /\ Delays(top) = {}
    /\ pc' = "panicked" /\ stack' = <<>>
    /\ UNCHANGED <<executor, tried, running, returned, outcome, slept, runs, won>>

\* What the loop leaves: the last error after a terminal failure, else that the
\* attempts are used up, even if the loop ended early.
GivenUp(frame) ==
    Failure(IF frame.has_failure THEN frame.last_error ELSE "MaxAttemptsExceeded")

AttemptEnds(r) ==
    LET frame == [top EXCEPT !.has_failure = @ \/ r \in FAILED,
                             !.last_error = IF r \in Results THEN "NotApplicable" ELSE r]
    IN  /\ Busy /\ top.s.kind = "Retry" /\ End(r)
        /\ IF r \in VERIFIED THEN Return(Success(r))
           ELSE IF r = "CircuitBreakerOpen" THEN Return(GivenUp(frame))
           ELSE Update(frame)

GiveUp ==
    /\ Active("Retry") /\ top.n >= top.s.max_attempts
    /\ Return(GivenUp(top))
    /\ Quiet

-----------------------------------------------------------------------------
\* FallbackStrategy::execute and execute_fallback_chain

Exhausted ==
    /\ \/ Active("Fallback")
       \/ Active("Chain") /\ top.n = top.s.max_attempts
    /\ Return(Failure("AllFallbacksExhausted"))
    /\ Quiet

NextInChain ==
    /\ Active("Chain") /\ top.n < top.s.max_attempts
    /\ Update([top EXCEPT !.n = @ + 1])
    /\ slept' = 0
    /\ Start

ChainEnds(r) ==
    /\ Busy /\ top.s.kind = "Chain" /\ End(r)
    /\ IF r \in VERIFIED THEN Return(Success(r)) ELSE Update(top)

-----------------------------------------------------------------------------
\* CircuitBreakerStrategy::execute asks is_allowed twice: itself, and again in
\* CircuitBreaker::execute.

Allowed ==
    /\ Active("CircuitBreaker") /\ top.n = 0
    /\ Update([top EXCEPT !.n = 1])
    /\ Quiet

RunProtected ==
    /\ Active("CircuitBreaker") /\ top.n = 1
    /\ Update([top EXCEPT !.n = 2])
    /\ slept' = 0
    /\ Start

Refused ==
    /\ Active("CircuitBreaker") /\ top.n \in {0, 1}
    /\ Return(Failure("CircuitBreakerOpen"))
    /\ Quiet

-----------------------------------------------------------------------------
\* TimeoutStrategy::execute

RunTimed ==
    /\ Active("Timeout")
    /\ UNCHANGED <<stack, returned>>
    /\ slept' = 0
    /\ Start

\* The operation is dropped where it stands.
TimesOut ==
    /\ Busy /\ top.s.kind = "Timeout" /\ End("Timeout")
    /\ Return(Failure("Timeout"))

\* Both wrappers call every Ok a success, whatever the result.
WrappedEnds(r) ==
    /\ Busy /\ top.s.kind \in {"Timeout", "CircuitBreaker"} /\ End(r)
    /\ Return(IF r \in Results THEN Success(r) ELSE Failure(r))

OperationEnds == \E r \in Results \cup OpErrors : AttemptEnds(r) \/ ChainEnds(r) \/ WrappedEnds(r)

-----------------------------------------------------------------------------
\* CompositeStrategy::execute

Composing == Busy /\ top.s.kind = "Composite" /\ ~running
Failed == returned.tag # "Success"

\* Mutant of NextPart: the outcome of the part before is not looked at.
NextPartRegardless ==
    /\ Composing /\ top.n < Len(top.s.parts)
    /\ stack' = Append([stack EXCEPT ![Len(stack)].n = @ + 1], Frame(top.s.parts[top.n + 1]))
    /\ returned' = NoOutcome
    /\ Quiet

NextPart ==
    /\ Composing /\ Failed /\ top.n < Len(top.s.parts)
    /\ stack' = Append([stack EXCEPT ![Len(stack)].n = @ + 1], Frame(top.s.parts[top.n + 1]))
    /\ returned' = NoOutcome
    /\ Quiet

EndComposite ==
    /\ Composing
    /\ ~Failed \/ top.n = Len(top.s.parts)
    /\ Return(IF Failed THEN Failure("MaxAttemptsExceeded") ELSE returned)
    /\ Quiet

-----------------------------------------------------------------------------
\* RecoveryExecutor::execute

Finish(o) == pc' = "done" /\ outcome' = o
Idle == UNCHANGED <<executor, running, slept, runs, won>>

PrimaryEnds ==
    /\ pc = "primary" /\ ~Busy
    /\ IF Failed THEN pc' = (IF executor.guarded THEN "breaker" ELSE "fallbacks") /\ outcome' = returned
                 ELSE Finish(returned)
    /\ returned' = NoOutcome
    /\ UNCHANGED <<tried, stack>> /\ Idle

BreakerAllows ==
    /\ pc = "breaker" /\ pc' = "fallbacks"
    /\ UNCHANGED <<tried, stack, returned, outcome>> /\ Idle

BreakerRefuses ==
    /\ pc = "breaker"
    /\ Finish(Failure("CircuitBreakerOpen"))
    /\ UNCHANGED <<tried, stack, returned>> /\ Idle

\* A failed fallback leaves the outcome of the primary strategy.
NextFallback ==
    /\ pc = "fallbacks" /\ ~Busy /\ Failed
    /\ IF tried < Len(executor.fallbacks)
       THEN /\ tried' = tried + 1
            /\ stack' = <<Frame(executor.fallbacks[tried + 1])>>
            /\ UNCHANGED <<pc, outcome>>
       ELSE Finish(outcome) /\ UNCHANGED <<tried, stack>>
    /\ returned' = NoOutcome
    /\ Idle

FallbackSucceeds ==
    /\ pc = "fallbacks" /\ ~Busy /\ ~Failed
    /\ Finish(returned)
    /\ returned' = NoOutcome
    /\ UNCHANGED <<tried, stack>> /\ Idle

Done == pc \in {"done", "panicked"} /\ UNCHANGED vars

\* execute_and_return: the Result it makes of what execute returned.  No strategy
\* here returns NotApplicable.
execute_and_return(o) ==
    IF o.tag = "Success" THEN [ok |-> TRUE, what |-> o.what] ELSE [ok |-> FALSE, what |-> o.what]

Next ==
    \/ Attempt \/ Panics \/ GiveUp \/ Exhausted \/ NextInChain
    \/ Allowed \/ RunProtected \/ Refused \/ RunTimed \/ TimesOut
    \/ OperationEnds
    \/ NextPart \/ EndComposite
    \/ PrimaryEnds \/ BreakerAllows \/ BreakerRefuses \/ NextFallback \/ FallbackSucceeds
    \/ Done

Spec == Init /\ [][Next]_vars

-----------------------------------------------------------------------------
\* Properties

\* Every variable keeps its shape, an operation is only under way for a strategy,
\* and a call ends with an outcome.
TypeOK ==
    /\ executor \in Executors
    /\ pc \in {"primary", "breaker", "fallbacks", "done", "panicked"}
    /\ tried \in 0..Len(executor.fallbacks)
    /\ running \in BOOLEAN /\ (running => Busy)
    /\ {returned, outcome} \subseteq
           {Success(r) : r \in Results} \cup {Failure(e) : e \in Errors} \cup {NoOutcome}
    /\ pc = "done" => outcome # NoOutcome
    /\ slept \in Nat /\ runs \in Nat /\ won \in BOOLEAN

\* How often a strategy itself may run the operation, its parts left out.
Own(s) ==
    CASE s.kind \in {"Retry", "Chain"}            -> s.max_attempts
      [] s.kind \in {"Fallback", "Composite"}     -> 0
      [] s.kind \in {"CircuitBreaker", "Timeout"} -> 1

\* How often a list of strategies may, one after the other and with their parts.
Budget[list \in Seq(Strategies)] ==
    IF list = <<>> THEN 0 ELSE Own(Head(list)) + Budget[Head(list).parts] + Budget[Tail(list)]

\* However strategies are nested, and wherever the breaker interferes, the operation
\* runs at most as often as the retries, wrappers and fallbacks on the way add up to.
RunsBounded == runs <= Budget[<<executor.primary>> \o executor.fallbacks]

\* Once the operation has returned Verified or Duplicate it is not run again, by no
\* outer strategy, fallback or retry, and the call ends with that success.
SuccessEnds ==
    won => /\ ~running
           /\ pc = "done" => LET answer == execute_and_return(outcome)
                             IN  answer.ok /\ answer.what \in VERIFIED

\* Backoffs whose delays should not shrink from one attempt to the next: the exponent
\* of an exponential one is the attempt only up to i32::MAX.
Growing(b, attempt) ==
    LET m == b.multiplier
    IN  \/ b.type = "Fixed"
        \/ b.type = "Linear" /\ m.num >= 0
        \/ b.type = "Exponential" /\ m.num > 0 /\ m.num >= m.den /\ attempt <= MaxI32

\* The sleeps of a retry stay within the backoff's maximum unless the multiplier is
\* negative, and do not shrink where the backoff is one that grows, through fractions,
\* saturation and infinite products and whatever strategies surround the retry.
BackoffGrows ==
    [][Attempt /\ top.n > 0 =>
           LET b == top.s.backoff
           IN  /\ b.multiplier.num >= 0 => slept' <= b.max
               /\ Growing(b, top.n - 1) => slept <= slept']_vars

=============================================================================
