------------------------ MODULE CircuitBreakerProofs ------------------------
(***************************************************************************)
(* Theorems about CircuitBreaker, for any number of threads and every pair *)
(* of thresholds.                                                          *)
(***************************************************************************)
EXTENDS CircuitBreaker, TLAPS

-----------------------------------------------------------------------------
\* Type correctness, with who holds the lock of last_failure

\* A step of record_failure or record_success, or none.
LEMMA TypeInductive == TypeOK /\ [Next]_vars => TypeOK'
  <1> SUFFICES ASSUME TypeOK, [Next]_vars PROVE TypeOK'
    OBVIOUS
  <1> USE NobodyAssumption DEF TypeOK, CircuitStates, Recording, breaker, Go, ReadState, Unlock
  <1>1. CASE UNCHANGED vars
    BY <1>1 DEF vars
  <1>2. CASE TimePasses
    BY <1>2 DEF TimePasses
  <1>3. ASSUME NEW t \in Threads, ThreadStep(t) PROVE TypeOK'
    <2>1. CASE CheckAllowed(t)
      BY <2>1 DEF CheckAllowed
    <2>2. CASE TryHalfOpen(t)
      BY <2>2 DEF TryHalfOpen
    <2>3. CASE Finish(t)
      BY <2>3 DEF Finish
    <2>4. CASE StampFailure(t)
      BY <2>4 DEF StampFailure
    <2>5. CASE ReadOnFailure(t)
      BY <2>5 DEF ReadOnFailure
    <2>6. CASE CountFailure(t)
      BY <2>6 DEF CountFailure
    <2>7. CASE Open(t)
      BY <2>7 DEF Open
    <2>8. CASE Reopen(t)
      BY <2>8 DEF Reopen
    <2>9. CASE ResetSuccesses(t)
      BY <2>9 DEF ResetSuccesses
    <2>10. CASE IgnoreFailure(t)
      BY <2>10 DEF IgnoreFailure
    <2>11. CASE ReadOnSuccess(t)
      BY <2>11 DEF ReadOnSuccess
    <2>12. CASE ForgiveFailures(t)
      BY <2>12 DEF ForgiveFailures
    <2>13. CASE CountSuccess(t)
      BY <2>13 DEF CountSuccess
    <2>14. CASE Close(t)
      BY <2>14 DEF Close
    <2>15. CASE ClearFailures(t)
      BY <2>15 DEF ClearFailures
    <2>16. CASE ClearSuccesses(t)
      BY <2>16 DEF ClearSuccesses
    <2>17. CASE IgnoreSuccess(t)
      BY <2>17 DEF IgnoreSuccess
    <2> QED
      BY <1>3, <2>1, <2>2, <2>3, <2>4, <2>5, <2>6, <2>7, <2>8, <2>9, <2>10, <2>11,
         <2>12, <2>13, <2>14, <2>15, <2>16, <2>17 DEF ThreadStep
  <1> QED
    BY <1>1, <1>2, <1>3 DEF Next

\* At every moment the lock of last_failure is held by exactly the thread that is
\* inside record_failure, and by nobody when there is none.
THEOREM TypeCorrect == Spec => []TypeOK
  <1>1. Init => TypeOK
    BY NobodyAssumption DEF Init, TypeOK, CircuitStates, Recording
  <1> QED
    BY <1>1, TypeInductive, PTL DEF Spec

-----------------------------------------------------------------------------
\* The counters

\* The inductive part of CountersSettled.  A closed breaker whose failures reach the
\* threshold has a thread that is about to open it or, because it was closed again
\* in between, one that is about to clear them.  Successes at the threshold,
\* whatever the state, have the thread that counted the last of them on its way
\* to clear them.
Accounted ==
    /\ state = "Closed" /\ failure_count >= failure_threshold =>
           \E t \in Threads : pc[t] \in {"opening", "closed"}
    /\ success_count >= success_threshold =>
           \E t \in Threads : pc[t] \in {"closing", "closed", "cleared"}

LEMMA AccountedInductive == TypeOK /\ Accounted /\ [Next]_vars => Accounted'
  <1> SUFFICES ASSUME TypeOK, Accounted, [Next]_vars PROVE Accounted'
    OBVIOUS
  <1> USE ConfigAssumption DEF TypeOK, Accounted, CircuitStates, Recording, breaker, Go, ReadState, Unlock
  <1>1. CASE UNCHANGED vars
    BY <1>1 DEF vars
  <1>2. CASE TimePasses
    BY <1>2 DEF TimePasses
  <1>3. ASSUME NEW t \in Threads, ThreadStep(t) PROVE Accounted'
    <2>1. CASE CheckAllowed(t)
      BY <2>1 DEF CheckAllowed
    <2>2. CASE TryHalfOpen(t)
      BY <2>2 DEF TryHalfOpen
    <2>3. CASE Finish(t)
      BY <2>3 DEF Finish
    <2>4. CASE StampFailure(t)
      BY <2>4 DEF StampFailure
    <2>5. CASE ReadOnFailure(t)
      BY <2>5 DEF ReadOnFailure
    <2>6. CASE CountFailure(t)
      BY <2>6 DEF CountFailure
    <2>7. CASE Open(t)
      BY <2>7 DEF Open
    <2>8. CASE Reopen(t)
      BY <2>8 DEF Reopen
    <2>9. CASE ResetSuccesses(t)
      BY <2>9 DEF ResetSuccesses
    <2>10. CASE IgnoreFailure(t)
      BY <2>10 DEF IgnoreFailure
    <2>11. CASE ReadOnSuccess(t)
      BY <2>11 DEF ReadOnSuccess
    <2>12. CASE ForgiveFailures(t)
      BY <2>12 DEF ForgiveFailures
    <2>13. CASE CountSuccess(t)
      BY <2>13 DEF CountSuccess
    <2>14. CASE Close(t)
      BY <2>14 DEF Close
    <2>15. CASE ClearFailures(t)
      BY <2>15 DEF ClearFailures
    <2>16. CASE ClearSuccesses(t)
      BY <2>16 DEF ClearSuccesses
    <2>17. CASE IgnoreSuccess(t)
      BY <2>17 DEF IgnoreSuccess
    <2> QED
      BY <1>3, <2>1, <2>2, <2>3, <2>4, <2>5, <2>6, <2>7, <2>8, <2>9, <2>10, <2>11,
         <2>12, <2>13, <2>14, <2>15, <2>16, <2>17 DEF ThreadStep
  <1> QED
    BY <1>1, <1>2, <1>3 DEF Next

\* Whatever threads race between the write of the state and the clearing of the
\* counters, once they are done the counters agree with the state.
THEOREM CountersSettle == Spec => []CountersSettled
  <1>1. Init => Accounted
    BY ConfigAssumption DEF Init, Accounted
  <1>2. TypeOK /\ Accounted => CountersSettled
    BY ConfigAssumption DEF TypeOK, Accounted, CountersSettled, Settled
  <1> QED
    BY <1>1, <1>2, TypeCorrect, AccountedInductive, PTL DEF Spec

=============================================================================
