----------------------------- MODULE MCRecovery -----------------------------
(***************************************************************************)
(* A small instance of Recovery for TLC.  The widths are 40000 for i64 and *)
(* 3 for i32, so that products saturate and the exponent wraps within six  *)
(* attempts; the other durations are those of the tests of the repository. *)
(***************************************************************************)
EXTENDS Recovery

Half == Float(1, 2)
Linear == Backoff("Linear", 100, 10000, Half)
Exponential == Backoff("Exponential", 100, 300, Float(2, 1))
Fixed == Backoff("Fixed", 900, 700, Half)

\* Fractions, an exponent that wraps, sums and products past the widths, negative
\* multipliers, infinity and 0/0.
Odd == {Backoff("Exponential", 100, 300, Float(3, 2)), Backoff("Exponential", 100, 300, Half),
        Backoff("Exponential", 100, 30000, Float(-7, 1)), Backoff("Exponential", 100, 30000, Float(1, 0)),
        Backoff("Exponential", 100, 300, Float(0, 0)), Backoff("Exponential", 100, 300, Float(0, 1)),
        Backoff("Linear", 100, 30000, Float(500, 1)), Backoff("Linear", 100, 30000, Float(-2, 1)),
        Backoff("Linear", 100, 30000, Float(-500, 1)), Backoff("Linear", 0, 300, Float(1, 0))}

\* backoff_multiplier_is_configurable, and backoff_delay_is_clamped_to_max up to the clamp.
ASSUME TestedDelays ==
    /\ CalculateDelay(Linear, 2) = {200}
    /\ CalculateDelay(Exponential, 0) = {100} /\ CalculateDelay(Exponential, 1) = {200}

Wrapped == Composite(<<CircuitBreakerStrategy, FallbackStrategy>>)
Nested == Composite(<<Retry(2, Fixed), Wrapped, TimeoutStrategy>>)

AllStrategies ==
    {Retry(0, Linear), Retry(2, Fixed), Retry(3, Linear), Retry(4, Linear), Retry(4, Exponential),
     FallbackStrategy, CircuitBreakerStrategy, TimeoutStrategy, Composite(<<>>), Wrapped, Nested,
     FallbackChain(3)} \cup {Retry(6, b) : b \in Odd}

AllExecutors ==
    [primary : {Retry(4, Linear), Retry(4, Exponential), Nested, TimeoutStrategy,
                Retry(0, Linear), Composite(<<>>)},
     fallbacks : {<<>>, <<CircuitBreakerStrategy, FallbackStrategy>>, <<Nested, Retry(3, Linear)>>},
     guarded : BOOLEAN]
        \cup {RecoveryExecutor(FallbackChain(3), <<>>, FALSE)}
        \cup {RecoveryExecutor(Retry(6, b), <<>>, FALSE) : b \in Odd}

=============================================================================
