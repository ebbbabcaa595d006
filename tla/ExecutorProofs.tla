--------------------------- MODULE ExecutorProofs ---------------------------
(***************************************************************************)
(* Theorems about Executor, for any number of calls, keys and attempts and *)
(* every configuration; about the receipt the executor issues on its way   *)
(* to the control center (Delivery), for every signing key and client      *)
(* configuration and whichever requests are late, reordered or lost;       *)
(* and about the connection URI an observer is built from                  *)
(* (PostgresConnection), for parts of any length.                          *)
(***************************************************************************)
EXTENDS Executor, Delivery, PostgresConnection, SequenceTheorems, TLAPS

-----------------------------------------------------------------------------
\* What the operators of the model return

\* The lifecycle answers with one of its states or with its error.
LEMMA TransitionType ==
    ASSUME NEW s, NEW t \in LifecycleStates
    PROVE  Transition(s, t) \in LifecycleStates \cup {Invalid}
  BY DEF Transition

LEMMA Advance2Type ==
    ASSUME NEW s, NEW t, NEW u \in LifecycleStates
    PROVE  Advance2(s, t, u) \in LifecycleStates \cup {Invalid}
  BY DEF Advance2, Transition

\* A verdict is computed: verification ends in a verdict or in an engine error.
LEMMA EvaluateType ==
    ASSUME NEW pred, NEW state
    PROVE  Evaluate(pred, state) \in {"Verified", "Failed", "EngineError"}
  BY DEF Evaluate

-----------------------------------------------------------------------------
\* Type correctness

Policies == {"Release", "ConsumeUnknown"}

\* The arguments of a call are those its caller passed.
LEMMA CallIsTyped ==
    ASSUME TypeOK, NEW r \in Runs
    PROVE  /\ call[r] \in CallType
           /\ Key(r) \in Keys \cup {NoKey}
           /\ call[r].simulated \in BOOLEAN
           /\ call[r].observer \in BOOLEAN
  <1>1. call[r] \in CallType
    BY CallsAssumption DEF TypeOK
  <1> QED
    BY <1>1 DEF CallType, Key

\* advance_or_abort keeps the types of what it assigns.
LEMMA AdvanceType ==
    ASSUME TypeOK, NEW r \in Runs, NEW s \in LifecycleStates \cup {Invalid}, NEW from,
           NEW to \in Places, NEW p \in Policies, AdvanceOrAbort(r, s, from, to, p)
    PROVE  /\ pc' \in [Runs -> Places]
           /\ fsm' \in [Runs -> LifecycleStates \cup {Invalid}]
           /\ policy' \in [Runs -> Policies]
  BY DEF AdvanceOrAbort, TypeOK, Step, Places, InRun, Policies

\* An abort keeps them too.
LEMMA AbortType ==
    ASSUME TypeOK, NEW r \in Runs, NEW from, NEW p \in Policies, AbortWith(r, from, p)
    PROVE  /\ pc' \in [Runs -> Places]
           /\ fsm' \in [Runs -> LifecycleStates \cup {Invalid}]
           /\ policy' \in [Runs -> Policies]
  BY DEF AbortWith, TypeOK, Step, Places, InRun, Policies

\* So does a read of the system of record.
LEMMA ReadType ==
    ASSUME TypeOK, NEW r \in Runs, Read(r)
    PROVE  obs' \in [Runs -> {"Empty", "Absent", "Present"}] /\ looked' \in [Runs -> BOOLEAN]
  BY DEF Read, World, TypeOK

\* And a dispatch.
LEMMA DispatchType ==
    ASSUME TypeOK, NEW r \in Runs, NEW fate, NEW reach, Dispatch(r, fate, reach)
    PROVE  /\ effects' \in [Keys \cup {NoKey} -> Nat]
           /\ transit' \in [Keys \cup {NoKey} -> Nat]
           /\ sent' \in [Runs -> Nat]
           /\ looked' \in [Runs -> BOOLEAN]
  <1>1. \A b \in BOOLEAN : [looked EXCEPT ![r] = b] \in [Runs -> BOOLEAN]
    BY DEF TypeOK
  <1>2. looked' \in [Runs -> BOOLEAN]
    <2>1. CASE reach = Unsent  BY <2>1 DEF Dispatch, TypeOK
    <2>2. CASE reach # Unsent  BY <2>2, <1>1 DEF Dispatch
    <2> QED  BY <2>1, <2>2
  <1>3. effects' \in [Keys \cup {NoKey} -> Nat] /\ transit' \in [Keys \cup {NoKey} -> Nat]
    BY CallIsTyped DEF Dispatch, TypeOK
  <1>4. sent' \in [Runs -> Nat]
    BY DEF Dispatch, TypeOK
  <1> QED  BY <1>2, <1>3, <1>4

\* The claim resolution keeps the registry's type.
LEMMA PutType ==
    ASSUME TypeOK, NEW r \in Runs, NEW v \in {"Vacant", "InFlight"} \cup Verdicts, Put(r, v)
    PROVE  entries' \in [Keys -> {"Vacant", "InFlight"} \cup Verdicts]
  BY CallIsTyped DEF Put, Keyed, TypeOK

\* Every action of a run keeps the types.
LEMMA RunStepType ==
    ASSUME TypeOK, NEW r \in Runs, RunStep(r)
    PROVE  TypeOK'
  <1> USE DEF registry, locals, world, history
  <1>1. CASE StartUnkeyed(r)  BY <1>1 DEF StartUnkeyed, TypeOK, Step, Places, InRun
  <1>2. CASE Claim(r)         BY <1>2 DEF Claim, TypeOK, Step, Places, InRun
  <1>3. CASE FindCompleted(r) BY <1>3 DEF FindCompleted, TypeOK, Step, Return, Places, InRun
  <1>4. CASE FindInFlight(r)  BY <1>4 DEF FindInFlight, TypeOK, Step, Return, Places, InRun
  <1>5. CASE Poll(r)          BY <1>5 DEF Poll, TypeOK, Step, Return, Places, InRun
  <1>6. CASE PassPreconditions(r)
    <2>1. Advance2(Transition("Proposed", "Validating"), "Authorized", "Executing")
            \in LifecycleStates \cup {Invalid}
      BY Advance2Type DEF LifecycleStates
    <2>2. obs' \in [Runs -> {"Empty", "Absent", "Present"}] /\ looked' \in [Runs -> BOOLEAN]
      BY <1>6, ReadType DEF PassPreconditions, TypeOK
    <2>3. attempts' \in [Runs -> Nat]
      BY <1>6 DEF PassPreconditions, StartAttempt, TypeOK
    <2>4. /\ pc' \in [Runs -> Places]
          /\ fsm' \in [Runs -> LifecycleStates \cup {Invalid}]
          /\ policy' \in [Runs -> Policies]
      BY <1>6, <2>1, AdvanceType DEF PassPreconditions, Places, InRun, Policies
    <2> QED  BY <1>6, <2>2, <2>3, <2>4 DEF PassPreconditions, TypeOK, Policies
  <1>7. CASE RejectPreconditions(r)
    <2>1. Advance2("Proposed", "Validating", "Rejected") \in LifecycleStates \cup {Invalid}
      BY Advance2Type DEF LifecycleStates
    <2>2. obs' \in [Runs -> {"Empty", "Absent", "Present"}] /\ looked' \in [Runs -> BOOLEAN]
      BY <1>7, ReadType DEF RejectPreconditions, TypeOK
    <2>3. attempts' \in [Runs -> Nat] /\ verdict' \in [Runs -> Verdicts]
      BY <1>7 DEF RejectPreconditions, StartAttempt, TypeOK, Verdicts
    <2>4. /\ pc' \in [Runs -> Places]
          /\ fsm' \in [Runs -> LifecycleStates \cup {Invalid}]
          /\ policy' \in [Runs -> Policies]
      BY <1>7, <2>1, AdvanceType DEF RejectPreconditions, Places, InRun, Policies
    <2> QED  BY <1>7, <2>2, <2>3, <2>4 DEF RejectPreconditions, TypeOK, Policies
  <1>8. CASE SimulateExecution(r)
    <2>1. Advance2(fsm[r], "Unknown", "Observing") \in LifecycleStates \cup {Invalid}
      BY Advance2Type DEF LifecycleStates
    <2>2. /\ pc' \in [Runs -> Places]
          /\ fsm' \in [Runs -> LifecycleStates \cup {Invalid}]
          /\ policy' \in [Runs -> Policies]
      BY <1>8, <2>1, AdvanceType DEF SimulateExecution, Places, InRun, Policies
    <2> QED  BY <1>8, <2>2 DEF SimulateExecution, TypeOK, Policies
  <1>9. CASE DispatchReturns(r)
    <2>1. PICK o : /\ \E fate \in OutcomeReach[o] : Dispatch(r, fate, OutcomeReach[o])
                   /\ LET s == IF o \in {"Completed", "Accepted"} THEN "Executed" ELSE "Unknown"
                      IN  AdvanceOrAbort(r, Advance2(fsm[r], s, "Observing"), "dispatch", "observe",
                                         "ConsumeUnknown")
      BY <1>9 DEF DispatchReturns
    <2>2. \A s : Advance2(fsm[r], s, "Observing") \in LifecycleStates \cup {Invalid}
      BY Advance2Type DEF LifecycleStates
    <2>3. /\ pc' \in [Runs -> Places]
          /\ fsm' \in [Runs -> LifecycleStates \cup {Invalid}]
          /\ policy' \in [Runs -> Policies]
      BY <2>1, <2>2, AdvanceType DEF Places, InRun, Policies
    <2>4. /\ effects' \in [Keys \cup {NoKey} -> Nat]
          /\ transit' \in [Keys \cup {NoKey} -> Nat]
          /\ sent' \in [Runs -> Nat]
          /\ looked' \in [Runs -> BOOLEAN]
      BY <2>1, DispatchType
    <2> QED  BY <1>9, <2>3, <2>4 DEF DispatchReturns, TypeOK, Policies
  <1>10. CASE DispatchAmbiguous(r)
    <2>1. PICK fate, reach : Dispatch(r, fate, reach)
      BY <1>10 DEF DispatchAmbiguous
    <2>2. /\ effects' \in [Keys \cup {NoKey} -> Nat]
          /\ transit' \in [Keys \cup {NoKey} -> Nat]
          /\ sent' \in [Runs -> Nat]
          /\ looked' \in [Runs -> BOOLEAN]
      BY <2>1, DispatchType
    <2>3. pc' \in [Runs -> Places] /\ verdict' \in [Runs -> Verdicts]
      BY <1>10 DEF DispatchAmbiguous, TypeOK, Step, Places, InRun, Verdicts
    <2> QED  BY <1>10, <2>2, <2>3 DEF DispatchAmbiguous, TypeOK
  <1>11. CASE DispatchFails(r)
    <2>1. PICK e : /\ \E fate \in ErrorReach[e] : Dispatch(r, fate, ErrorReach[e])
                   /\ AbortWith(r, "dispatch", ClaimPolicyFor(e))
      BY <1>11 DEF DispatchFails
    <2>2. /\ effects' \in [Keys \cup {NoKey} -> Nat]
          /\ transit' \in [Keys \cup {NoKey} -> Nat]
          /\ sent' \in [Runs -> Nat]
          /\ looked' \in [Runs -> BOOLEAN]
      BY <2>1, DispatchType
    <2>3. /\ pc' \in [Runs -> Places]
          /\ fsm' \in [Runs -> LifecycleStates \cup {Invalid}]
          /\ policy' \in [Runs -> Policies]
      BY <2>1, AbortType DEF ClaimPolicyFor, Policies
    <2> QED  BY <1>11, <2>2, <2>3 DEF DispatchFails, TypeOK, Policies
  <1>12. CASE Observe(r)
    <2>1. Transition(fsm[r], "Verifying") \in LifecycleStates \cup {Invalid}
      BY TransitionType DEF LifecycleStates
    <2>2. obs' \in [Runs -> {"Empty", "Absent", "Present"}] /\ looked' \in [Runs -> BOOLEAN]
      BY <1>12, ReadType DEF Observe, TypeOK
    <2>3. /\ pc' \in [Runs -> Places]
          /\ fsm' \in [Runs -> LifecycleStates \cup {Invalid}]
          /\ policy' \in [Runs -> Policies]
      BY <1>12, <2>1, AdvanceType DEF Observe, PolicyAfterDispatch, Places, InRun, Policies
    <2> QED  BY <1>12, <2>2, <2>3 DEF Observe, TypeOK, Policies
  <1>13. CASE ObserverUnknown(r)
    <2>1. pc' \in [Runs -> Places] /\ verdict' \in [Runs -> Verdicts]
      BY <1>13 DEF ObserverUnknown, TypeOK, Step, Places, InRun, Verdicts
    <2> QED  BY <1>13, <2>1 DEF ObserverUnknown, TypeOK
  <1>14. CASE ObserverFails(r)
    <2>1. /\ pc' \in [Runs -> Places]
          /\ fsm' \in [Runs -> LifecycleStates \cup {Invalid}]
          /\ policy' \in [Runs -> Policies]
      BY <1>14, AbortType DEF ObserverFails, PolicyAfterDispatch, Policies
    <2> QED  BY <1>14, <2>1 DEF ObserverFails, TypeOK, Policies
  <1>15. CASE EvaluationFails(r)
    <2>1. /\ pc' \in [Runs -> Places]
          /\ fsm' \in [Runs -> LifecycleStates \cup {Invalid}]
          /\ policy' \in [Runs -> Policies]
      BY <1>15, AbortType DEF EvaluationFails, PolicyAfterDispatch, Policies
    <2> QED  BY <1>15, <2>1 DEF EvaluationFails, TypeOK, Policies
  <1>16. CASE RetryAttempt(r)
    <2>1. pc' \in [Runs -> Places] /\ details' \in [Runs -> Nat]
      BY <1>16 DEF RetryAttempt, RecordDetails, TypeOK, Step, Places, InRun
    <2> QED  BY <1>16, <2>1 DEF RetryAttempt, TypeOK
  <1>17. CASE Conclude(r)
    <2> DEFINE s == FinalState(Result(r), fsm[r])
    <2>1. s \in LifecycleStates \cup {Invalid}
      BY Advance2Type, TransitionType DEF FinalState, LifecycleStates, TypeOK
    <2>2. AdvanceOrAbort(r, s, "verify", "complete", PolicyAfterDispatch(call[r]))
      BY <1>17 DEF Conclude
    <2> HIDE DEF s
    <2>3. /\ pc' \in [Runs -> Places]
          /\ fsm' \in [Runs -> LifecycleStates \cup {Invalid}]
          /\ policy' \in [Runs -> Policies]
      BY <2>1, <2>2, AdvanceType DEF PolicyAfterDispatch, Places, InRun, Policies
    <2>4. details' \in [Runs -> Nat] /\ verdict' \in [Runs -> Verdicts]
      BY <1>17 DEF Conclude, RecordDetails, TypeOK
    <2> QED  BY <1>17, <2>3, <2>4 DEF Conclude, TypeOK, Policies
  <1>18. CASE Complete(r)
    <2>1. entries' \in [Keys -> {"Vacant", "InFlight"} \cup Verdicts]
      BY <1>18, PutType DEF Complete, TypeOK
    <2> QED  BY <1>18, <2>1 DEF Complete, TypeOK, Step, Places, InRun
  <1>19. CASE Persist(r)  BY <1>19 DEF Persist, TypeOK, Step, Return, Places, InRun
  <1>20. CASE Abort(r)
    <2>1. entries' \in [Keys -> {"Vacant", "InFlight"} \cup Verdicts]
      BY <1>20, PutType DEF Abort, Verdicts
    <2> QED  BY <1>20, <2>1 DEF Abort, TypeOK, Step, Return, Places, InRun
  <1> QED
    BY <1>1, <1>2, <1>3, <1>4, <1>5, <1>6, <1>7, <1>8, <1>9, <1>10, <1>11, <1>12, <1>13,
       <1>14, <1>15, <1>16, <1>17, <1>18, <1>19, <1>20 DEF RunStep

\* Every variable of the executor keeps its type.
THEOREM TypeCorrect == Spec => []TypeOK
  <1>1. Init => TypeOK
    BY DEF Init, TypeOK, Places, InRun, LifecycleStates, Verdicts
  <1>2. TypeOK /\ [Next]_vars => TypeOK'
    <2> SUFFICES ASSUME TypeOK, [Next]_vars PROVE TypeOK'
      OBVIOUS
    <2>1. CASE \E r \in Runs : RunStep(r)
      BY <2>1, RunStepType
    <2>2. CASE \E k \in Keys \cup {NoKey} : EffectArrives(k)
      BY <2>2 DEF EffectArrives, TypeOK, registry, locals, history
    <2>3. CASE UNCHANGED vars
      BY <2>3 DEF vars, TypeOK
    <2> QED  BY <2>1, <2>2, <2>3 DEF Next, AllReturned
  <1> QED  BY <1>1, <1>2, PTL DEF Spec

-----------------------------------------------------------------------------
\* The claim on a key

\* The actions between the claim and its resolution, which touch neither the
\* registry nor the caller.
Work(r) ==
    \/ PassPreconditions(r) \/ RejectPreconditions(r)
    \/ SimulateExecution(r) \/ DispatchReturns(r) \/ DispatchAmbiguous(r) \/ DispatchFails(r)
    \/ Observe(r) \/ ObserverUnknown(r) \/ ObserverFails(r)
    \/ EvaluationFails(r) \/ RetryAttempt(r) \/ Conclude(r)

\* They keep the run between its claim and its resolution.
LEMMA WorkShape ==
    ASSUME TypeOK, NEW r \in Runs, Work(r)
    PROVE  /\ UNCHANGED <<entries, call, reply, stored>>
           /\ pc[r] \in InRun
           /\ \E p \in InRun : pc' = [pc EXCEPT ![r] = p]
           /\ \A s \in Runs \ {r} : verdict'[s] = verdict[s]
  <1> USE DEF registry, locals, world, history, Step, InRun, TypeOK
  <1>1. CASE PassPreconditions(r)   BY <1>1 DEF PassPreconditions, AdvanceOrAbort
  <1>2. CASE RejectPreconditions(r) BY <1>2 DEF RejectPreconditions, AdvanceOrAbort
  <1>3. CASE SimulateExecution(r)   BY <1>3 DEF SimulateExecution, AdvanceOrAbort
  <1>4. CASE DispatchReturns(r)     BY <1>4 DEF DispatchReturns, AdvanceOrAbort
  <1>5. CASE DispatchAmbiguous(r)   BY <1>5 DEF DispatchAmbiguous
  <1>6. CASE DispatchFails(r)       BY <1>6 DEF DispatchFails, AbortWith
  <1>7. CASE Observe(r)             BY <1>7 DEF Observe, AdvanceOrAbort
  <1>8. CASE ObserverUnknown(r)     BY <1>8 DEF ObserverUnknown
  <1>9. CASE ObserverFails(r)       BY <1>9 DEF ObserverFails, AbortWith
  <1>10. CASE EvaluationFails(r)    BY <1>10 DEF EvaluationFails, AbortWith
  <1>11. CASE RetryAttempt(r)       BY <1>11 DEF RetryAttempt
  <1>12. CASE Conclude(r)           BY <1>12 DEF Conclude, AdvanceOrAbort
  <1> QED
    BY <1>1, <1>2, <1>3, <1>4, <1>5, <1>6, <1>7, <1>8, <1>9, <1>10, <1>11, <1>12 DEF Work

\* No step changes the arguments of a call.
LEMMA CallConstant ==
    ASSUME TypeOK, [Next]_vars
    PROVE  call' = call
  <1>1. ASSUME NEW r \in Runs, RunStep(r) PROVE call' = call
    <2>1. CASE Work(r)  BY <2>1, WorkShape
    <2>2. CASE \/ StartUnkeyed(r) \/ Claim(r) \/ FindCompleted(r) \/ FindInFlight(r) \/ Poll(r)
               \/ Complete(r) \/ Persist(r) \/ Abort(r)
      BY <2>2 DEF StartUnkeyed, Claim, FindCompleted, FindInFlight, Poll, Complete, Persist,
         Abort, locals
    <2> QED  BY <1>1, <2>1, <2>2 DEF RunStep, Work
  <1> QED
    BY <1>1 DEF Next, EffectArrives, AllReturned, locals, vars

\* A step of one run keeps the key invariant.
LEMMA RunStepKey ==
    ASSUME TypeOK, KeyInvariant, NEW r \in Runs, RunStep(r)
    PROVE  KeyInvariant'
  <1> USE DEF Key, Keyed, Holding
  <1>0. call' = call
    BY CallConstant DEF Next
  <1>1. CASE StartUnkeyed(r)
    <2>1. /\ pc' = [pc EXCEPT ![r] = "attempt"] /\ pc[r] = "start"
          /\ UNCHANGED <<entries, reply, verdict, call>> /\ ~Keyed(r)
      BY <1>1 DEF StartUnkeyed, Step, registry, locals
    <2> QED  BY <2>1 DEF KeyInvariant, ClaimExclusive, TypeOK, InRun
  <1>2. CASE Claim(r)
    <2>1. /\ pc' = [pc EXCEPT ![r] = "attempt"] /\ pc[r] = "start"
          /\ entries' = [entries EXCEPT ![Key(r)] = "InFlight"]
          /\ Keyed(r) /\ entries[Key(r)] = "Vacant"
          /\ UNCHANGED <<reply, verdict, call>>
      BY <1>2 DEF Claim, Step, locals
    <2>2. \A s \in Runs : Holding(s) => Key(s) # Key(r)
      BY <2>1 DEF KeyInvariant
    <2>3. \A s \in Runs : Holding(s)' <=> Holding(s) \/ s = r
      BY <2>1 DEF TypeOK, InRun
    <2>4. ClaimExclusive'
      BY <1>0, <2>2, <2>3 DEF KeyInvariant, ClaimExclusive
    <2>5. \A s \in Runs : Holding(s)' => entries'[Key(s)] = "InFlight"
      BY <2>1, <2>3 DEF KeyInvariant, TypeOK
    <2>6. \A s \in Runs : Keyed(s) /\ pc'[s] = "persist" => entries'[Key(s)] = verdict[s]
      BY <2>1 DEF KeyInvariant, TypeOK, Verdicts
    <2>7. \A s \in Runs : Keyed(s) /\ reply[s] \in Verdicts => entries'[Key(s)] = reply[s]
      BY <2>1 DEF KeyInvariant, TypeOK, Verdicts
    <2>8. \A s \in Runs : /\ reply'[s] = "Silent" <=> pc'[s] # "done"
                         /\ pc'[s] = "poll" => Keyed(s)
      BY <2>1 DEF KeyInvariant, TypeOK
    <2> QED  BY <2>1, <2>4, <2>5, <2>6, <2>7, <2>8 DEF KeyInvariant
  <1>3. CASE FindCompleted(r)
    <2>1. /\ pc' = [pc EXCEPT ![r] = "done"] /\ pc[r] = "start"
          /\ reply' = [reply EXCEPT ![r] = entries[Key(r)]]
          /\ Keyed(r) /\ entries[Key(r)] \in Verdicts
          /\ UNCHANGED <<entries, verdict, call>>
      BY <1>3 DEF FindCompleted, Return, Step, registry, locals
    <2> QED  BY <2>1 DEF KeyInvariant, ClaimExclusive, TypeOK, InRun, Verdicts
  <1>4. CASE FindInFlight(r)
    <2>1. CASE call[r].simulated
      <3>1. /\ pc' = [pc EXCEPT ![r] = "done"] /\ pc[r] = "start"
            /\ reply' = [reply EXCEPT ![r] = "Duplicate"]
            /\ UNCHANGED <<entries, verdict, call>>
        BY <1>4, <2>1 DEF FindInFlight, Return, Step, registry, locals
      <3> QED  BY <3>1 DEF KeyInvariant, ClaimExclusive, TypeOK, InRun, Verdicts
    <2>2. CASE ~call[r].simulated
      <3>1. /\ pc' = [pc EXCEPT ![r] = "poll"] /\ pc[r] = "start" /\ Keyed(r)
            /\ UNCHANGED <<entries, reply, verdict, call>>
        BY <1>4, <2>2 DEF FindInFlight, Step, registry, locals
      <3> QED  BY <3>1 DEF KeyInvariant, ClaimExclusive, TypeOK, InRun, Verdicts
    <2> QED  BY <2>1, <2>2
  <1>5. CASE Poll(r)
    <2>1. /\ pc' = [pc EXCEPT ![r] = "done"] /\ pc[r] = "poll" /\ Keyed(r)
          /\ reply' = [reply EXCEPT ![r] = IF entries[Key(r)] \in Verdicts THEN entries[Key(r)] ELSE "Duplicate"]
          /\ entries' = [entries EXCEPT ![Key(r)] = IF entries[Key(r)] = "Vacant" THEN "InFlight" ELSE entries[Key(r)]]
          /\ UNCHANGED <<verdict, call>>
      BY <1>5 DEF Poll, Return, Step, locals, KeyInvariant
    <2> QED  BY <2>1 DEF KeyInvariant, ClaimExclusive, TypeOK, InRun, Verdicts
  <1>6. CASE Work(r)
    <2>1. PICK p \in InRun : pc' = [pc EXCEPT ![r] = p]
      BY <1>6, WorkShape
    <2>2. /\ UNCHANGED <<entries, call, reply>> /\ pc[r] \in InRun
          /\ \A s \in Runs \ {r} : verdict'[s] = verdict[s]
      BY <1>6, WorkShape
    <2> QED  BY <2>1, <2>2 DEF KeyInvariant, ClaimExclusive, TypeOK, InRun, Verdicts
  <1>7. CASE Complete(r)
    <2>1. /\ pc' = [pc EXCEPT ![r] = "persist"] /\ pc[r] = "complete"
          /\ entries' = IF Keyed(r) THEN [entries EXCEPT ![Key(r)] = verdict[r]] ELSE entries
          /\ UNCHANGED <<reply, verdict, call>>
      BY <1>7 DEF Complete, Put, Step, locals
    <2> QED  BY <2>1 DEF KeyInvariant, ClaimExclusive, TypeOK, InRun, Verdicts
  <1>8. CASE Persist(r)
    <2>1. /\ pc' = [pc EXCEPT ![r] = "done"] /\ pc[r] = "persist"
          /\ reply' = [reply EXCEPT ![r] = verdict[r]]
          /\ UNCHANGED <<entries, verdict, call>>
      BY <1>8 DEF Persist, Return, Step, registry
    <2> QED  BY <2>1 DEF KeyInvariant, ClaimExclusive, TypeOK, InRun, Verdicts
  <1>9. CASE Abort(r)
    <2>1. PICK v \in {"Vacant", "Unknown"} :
            entries' = IF Keyed(r) THEN [entries EXCEPT ![Key(r)] = v] ELSE entries
      BY <1>9 DEF Abort, Put
    <2>2. /\ pc' = [pc EXCEPT ![r] = "done"] /\ pc[r] = "abort"
          /\ reply' = [reply EXCEPT ![r] = "Error"]
          /\ UNCHANGED <<verdict, call>>
      BY <1>9 DEF Abort, Return, Step, locals
    <2>3. CASE Keyed(r)
      <3>1. entries' = [entries EXCEPT ![Key(r)] = v]
        BY <2>1, <2>3
      <3>2. Holding(r) /\ entries[Key(r)] = "InFlight"
        BY <2>2, <2>3 DEF KeyInvariant, InRun
      <3>3. \A s \in Runs : Holding(s)' <=> Holding(s) /\ s # r
        BY <2>2 DEF TypeOK, InRun
      <3>4. \A s \in Runs : Holding(s)' => Key(s) # Key(r)
        BY <3>2, <3>3 DEF KeyInvariant, ClaimExclusive
      <3>5. ClaimExclusive'
        BY <1>0, <3>3 DEF KeyInvariant, ClaimExclusive
      <3>6. (\A s \in Runs : Holding(s) => entries[Key(s)] = "InFlight")'
        BY <1>0, <3>1, <3>3, <3>4 DEF KeyInvariant, TypeOK
      <3>7. (\A s \in Runs : Keyed(s) /\ pc[s] = "persist" => entries[Key(s)] = verdict[s])'
        BY <2>2, <3>1, <3>2 DEF KeyInvariant, TypeOK, Verdicts
      <3>8. (\A s \in Runs : Keyed(s) /\ reply[s] \in Verdicts => entries[Key(s)] = reply[s])'
        BY <2>2, <3>1, <3>2 DEF KeyInvariant, TypeOK, Verdicts
      <3>9. (\A s \in Runs : reply[s] = "Silent" <=> pc[s] # "done")'
        BY <2>2 DEF KeyInvariant, TypeOK
      <3>10. (\A s \in Runs : pc[s] = "poll" => Keyed(s))'
        BY <2>2 DEF KeyInvariant, TypeOK
      <3> QED  BY <3>5, <3>6, <3>7, <3>8, <3>9, <3>10 DEF KeyInvariant
    <2>4. CASE ~Keyed(r)
      <3>1. entries' = entries
        BY <2>1, <2>4
      <3> QED  BY <2>2, <2>4, <3>1 DEF KeyInvariant, ClaimExclusive, TypeOK, InRun, Verdicts
    <2> QED  BY <2>3, <2>4
  <1> QED
    BY <1>1, <1>2, <1>3, <1>4, <1>5, <1>6, <1>7, <1>8, <1>9 DEF RunStep, Work

\* The key invariant holds of every reachable state.
THEOREM KeyCorrect == Spec => []KeyInvariant
  <1>1. Init => KeyInvariant
    BY DEF Init, KeyInvariant, ClaimExclusive, Holding, InRun, Verdicts
  <1>2. TypeOK /\ KeyInvariant /\ [Next]_vars => KeyInvariant'
    <2> SUFFICES ASSUME TypeOK, KeyInvariant, [Next]_vars PROVE KeyInvariant'
      OBVIOUS
    <2>1. CASE \E r \in Runs : RunStep(r)
      BY <2>1, RunStepKey
    <2>2. CASE \E k \in Keys \cup {NoKey} : EffectArrives(k)
      BY <2>2 DEF EffectArrives, KeyInvariant, ClaimExclusive, Holding, Keyed, Key, registry, locals
    <2>3. CASE UNCHANGED vars
      BY <2>3 DEF vars, KeyInvariant, ClaimExclusive, Holding, Keyed, Key
    <2> QED  BY <2>1, <2>2, <2>3 DEF Next, AllReturned
  <1> QED  BY <1>1, <1>2, TypeCorrect, PTL DEF Spec

\* At most one run at a time is between the claim on a key and its resolution.
THEOREM ClaimIsExclusive == Spec => []ClaimExclusive
  <1>1. KeyInvariant => ClaimExclusive
    BY DEF KeyInvariant
  <1> QED  BY <1>1, KeyCorrect, PTL

\* All the calls of a key that are answered with a verdict get the same one.
THEOREM VerdictsAgree == Spec => []VerdictAgreement
  <1>1. KeyInvariant => VerdictAgreement
    BY DEF KeyInvariant, VerdictAgreement, Keyed
  <1> QED  BY <1>1, KeyCorrect, PTL

-----------------------------------------------------------------------------
\* The executor implements the key lifecycle

asked == [r \in Runs |-> Key(r)]
answered == [r \in Runs |-> IF Keyed(r) THEN reply[r] ELSE "Silent"]
abstraction == <<entries, asked, answered>>

\* A step of one run is a step of the abstract specification or changes
\* nothing in it.
LEMMA RunStepRefines ==
    ASSUME TypeOK, KeyInvariant, NEW r \in Runs, RunStep(r)
    PROVE  Abstract!Next \/ UNCHANGED abstraction
  <1> DEFINE k == Key(r)
  <1>0. call' = call /\ asked' = asked /\ asked[r] = k
    BY CallConstant DEF Next, asked, Key
  <1>1. CASE UNCHANGED <<entries, reply>>
    BY <1>0, <1>1 DEF abstraction, answered, Keyed, Key
  <1>2. CASE ~Keyed(r) /\ UNCHANGED entries /\ \E v : reply' = [reply EXCEPT ![r] = v]
    BY <1>0, <1>2 DEF abstraction, answered, Keyed, Key, TypeOK
  <1>3. ASSUME Keyed(r), NEW v, reply' = [reply EXCEPT ![r] = v], pc[r] # "done"
        PROVE  answered[r] = "Silent" /\ answered' = [answered EXCEPT ![r] = v]
    BY <1>0, <1>3 DEF answered, Keyed, Key, TypeOK, KeyInvariant
  <1>4. ASSUME UNCHANGED reply PROVE UNCHANGED answered
    BY <1>0, <1>4 DEF answered, Keyed, Key
  <1>5. CASE Claim(r)
    <2>1. Keyed(r) /\ entries[k] = "Vacant" /\ entries' = [entries EXCEPT ![k] = "InFlight"]
          /\ UNCHANGED reply
      BY <1>5 DEF Claim
    <2> QED  BY <2>1, <1>0, <1>4 DEF Abstract!Next, Abstract!Own, Abstract!Claim, asked, answered, Keyed
  <1>6. ASSUME Keyed(r), entries[k] \in Verdicts, UNCHANGED entries, pc[r] # "done",
               reply' = [reply EXCEPT ![r] = entries[k]]
        PROVE  Abstract!Next
    <2>1. answered[r] = "Silent" /\ answered' = [answered EXCEPT ![r] = entries[k]]
      BY <1>6, <1>3
    <2>2. Abstract!Report(r, k)
      BY <2>1, <1>6, <1>0 DEF Abstract!Report, Abstract!Tell, asked, answered
    <2> QED  BY <2>2, <1>6 DEF Abstract!Next, Keyed
  <1>7. CASE FindCompleted(r)
    BY <1>7, <1>6 DEF FindCompleted, Return, Step, registry
  <1>8. ASSUME Keyed(r), pc[r] # "done", reply' = [reply EXCEPT ![r] = "Duplicate"],
               Abstract!Claim(k) \/ UNCHANGED entries
        PROVE  Abstract!Next
    <2>1. answered[r] = "Silent" /\ answered' = [answered EXCEPT ![r] = "Duplicate"]
      BY <1>8, <1>3
    <2>2. Abstract!TurnAway(r, k)
      BY <2>1, <1>8, <1>0 DEF Abstract!TurnAway, Abstract!Tell, asked, answered
    <2> QED  BY <2>2, <1>8 DEF Abstract!Next, Keyed
  <1>9. CASE FindInFlight(r)
    <2>1. CASE UNCHANGED reply  BY <2>1, <1>1, <1>9 DEF FindInFlight, registry
    <2>2. CASE Return(r, "start", "Duplicate")
      BY <2>2, <1>8, <1>9 DEF FindInFlight, Return, Step, registry
    <2> QED  BY <2>1, <2>2, <1>9 DEF FindInFlight
  <1>10. CASE Poll(r)
    <2>1. /\ Keyed(r) /\ pc[r] # "done"
          /\ reply' = [reply EXCEPT ![r] = IF entries[k] \in Verdicts THEN entries[k] ELSE "Duplicate"]
          /\ entries' = [entries EXCEPT ![k] = IF entries[k] = "Vacant" THEN "InFlight" ELSE entries[k]]
      BY <1>10 DEF Poll, Return, Step, KeyInvariant
    <2>2. CASE entries[k] = "Vacant"
      BY <2>1, <2>2, <1>8 DEF Abstract!Claim, Verdicts
    <2>3. CASE entries[k] # "Vacant"
      <3>1. UNCHANGED entries  BY <2>1, <2>3 DEF TypeOK
      <3> QED  BY <2>1, <3>1, <1>6, <1>8
    <2> QED  BY <2>2, <2>3
  <1>11. CASE Work(r)
    BY <1>11, <1>1, WorkShape
  <1>12. CASE Complete(r)
    <2>1. Put(r, verdict[r]) /\ UNCHANGED reply /\ pc[r] = "complete"
      BY <1>12 DEF Complete, Step
    <2>2. CASE Keyed(r)
      <3>1. entries[k] = "InFlight"  BY <2>1, <2>2 DEF KeyInvariant, Holding, InRun
      <3>2. Abstract!Complete(k, verdict[r])
        BY <2>1, <2>2, <3>1, <1>0, <1>4 DEF Abstract!Complete, Abstract!Settle, Put, asked, answered
      <3> QED  BY <3>2, <2>2 DEF Abstract!Next, Keyed, TypeOK
    <2>3. CASE ~Keyed(r)  BY <2>1, <2>3, <1>1 DEF Put
    <2> QED  BY <2>2, <2>3
  <1>13. CASE Persist(r)
    <2>1. reply' = [reply EXCEPT ![r] = verdict[r]] /\ UNCHANGED entries /\ pc[r] = "persist"
      BY <1>13 DEF Persist, Return, Step, registry
    <2>2. CASE Keyed(r)
      BY <2>1, <2>2, <1>6 DEF KeyInvariant, TypeOK
    <2>3. CASE ~Keyed(r)  BY <2>1, <2>3, <1>2
    <2> QED  BY <2>2, <2>3
  <1>14. CASE Abort(r)
    <2>1. PICK v \in {"Vacant", "Unknown"} : Put(r, v)
      BY <1>14 DEF Abort
    <2>2. reply' = [reply EXCEPT ![r] = "Error"] /\ pc[r] = "abort"
      BY <1>14 DEF Abort, Return, Step
    <2>3. CASE Keyed(r)
      <3>1. entries[k] = "InFlight"  BY <2>2, <2>3 DEF KeyInvariant, Holding, InRun
      <3>2. answered[r] = "Silent" /\ answered' = [answered EXCEPT ![r] = "Error"]
        BY <2>2, <2>3, <1>3
      <3>3. Abstract!Abandon(r, k)
        BY <2>1, <2>3, <3>1, <3>2, <1>0
        DEF Abstract!Abandon, Abstract!Settle, Abstract!Tell, Put, asked, answered
      <3> QED  BY <3>3, <2>3 DEF Abstract!Next, Keyed
    <2>4. CASE ~Keyed(r)  BY <2>1, <2>2, <2>4, <1>2 DEF Put
    <2> QED  BY <2>3, <2>4
  <1>15. CASE StartUnkeyed(r)
    BY <1>15, <1>1 DEF StartUnkeyed, registry
  <1> QED
    BY <1>5, <1>7, <1>9, <1>10, <1>11, <1>12, <1>13, <1>14, <1>15 DEF RunStep, Work

\* Seen through its keys and replies, every behaviour of the executor is one of
\* the key lifecycle that the IdempotencyStore trait documents: in particular a
\* verdict on record is final.
THEOREM ExecutorImplementsIdempotency == Spec => ImplementsIdempotency
  <1>1. Init => Abstract!Init
    BY CallIsTyped, CallsAssumption DEF Init, Abstract!Init, Key, Keyed, CallType
  <1>2. TypeOK /\ KeyInvariant /\ [Next]_vars => [Abstract!Next]_abstraction
    <2> SUFFICES ASSUME TypeOK, KeyInvariant, [Next]_vars
                 PROVE  Abstract!Next \/ UNCHANGED abstraction
      OBVIOUS
    <2>1. CASE \E r \in Runs : RunStep(r)
      BY <2>1, RunStepRefines
    <2>2. CASE UNCHANGED <<entries, call, reply>>
      BY <2>2 DEF abstraction, asked, answered, Keyed, Key
    <2> QED
      BY <2>1, <2>2 DEF Next, EffectArrives, AllReturned, vars, registry, locals
  <1> QED
    BY <1>1, <1>2, TypeCorrect, KeyCorrect, PTL
    DEF Spec, ImplementsIdempotency, Abstract!Spec, abstraction, asked, answered

\* A step of one run leaves what belongs to the other runs alone.
LEMMA RunStepFrame ==
    ASSUME TypeOK, NEW r \in Runs, RunStep(r), NEW s \in Runs \ {r}
    PROVE  /\ pc'[s] = pc[s] /\ fsm'[s] = fsm[s] /\ verdict'[s] = verdict[s]
           /\ attempts'[s] = attempts[s] /\ obs'[s] = obs[s] /\ policy'[s] = policy[s]
           /\ sent'[s] = sent[s] /\ looked'[s] = looked[s]
  <1> USE DEF registry, locals, world, history, Step, TypeOK
  <1>1. CASE StartUnkeyed(r)  BY <1>1 DEF StartUnkeyed
  <1>2. CASE Claim(r)         BY <1>2 DEF Claim
  <1>3. CASE FindCompleted(r) BY <1>3 DEF FindCompleted, Return
  <1>4. CASE FindInFlight(r)  BY <1>4 DEF FindInFlight, Return
  <1>5. CASE Poll(r)          BY <1>5 DEF Poll, Return
  <1>6. CASE PassPreconditions(r)
    BY <1>6 DEF PassPreconditions, AdvanceOrAbort, StartAttempt, Read
  <1>7. CASE RejectPreconditions(r)
    BY <1>7 DEF RejectPreconditions, AdvanceOrAbort, StartAttempt, Read
  <1>8. CASE SimulateExecution(r)   BY <1>8 DEF SimulateExecution, AdvanceOrAbort
  <1>9. CASE DispatchReturns(r)     BY <1>9 DEF DispatchReturns, AdvanceOrAbort, Dispatch
  <1>10. CASE DispatchAmbiguous(r)  BY <1>10 DEF DispatchAmbiguous, Dispatch
  <1>11. CASE DispatchFails(r)      BY <1>11 DEF DispatchFails, AbortWith, Dispatch
  <1>12. CASE Observe(r)            BY <1>12 DEF Observe, AdvanceOrAbort, Read
  <1>13. CASE ObserverUnknown(r)    BY <1>13 DEF ObserverUnknown
  <1>14. CASE ObserverFails(r)      BY <1>14 DEF ObserverFails, AbortWith
  <1>15. CASE EvaluationFails(r)    BY <1>15 DEF EvaluationFails, AbortWith
  <1>16. CASE RetryAttempt(r)       BY <1>16 DEF RetryAttempt
  <1>17. CASE Conclude(r)           BY <1>17 DEF Conclude, AdvanceOrAbort
  <1>18. CASE Complete(r)           BY <1>18 DEF Complete
  <1>19. CASE Persist(r)            BY <1>19 DEF Persist, Return
  <1>20. CASE Abort(r)              BY <1>20 DEF Abort, Return
  <1> QED
    BY <1>1, <1>2, <1>3, <1>4, <1>5, <1>6, <1>7, <1>8, <1>9, <1>10, <1>11, <1>12, <1>13,
       <1>14, <1>15, <1>16, <1>17, <1>18, <1>19, <1>20 DEF RunStep

-----------------------------------------------------------------------------
\* The lifecycle

\* The advances the executor makes are in the table.
LEMMA Advances ==
    /\ Advance2(Transition("Proposed", "Validating"), "Authorized", "Executing") = "Executing"
    /\ Advance2("Proposed", "Validating", "Rejected") = "Rejected"
    /\ \A s \in {"Executed", "Unknown"} : Advance2("Executing", s, "Observing") = "Observing"
    /\ Transition("Observing", "Verifying") = "Verifying"
    /\ Advance2("Verifying", "Verified", "Committed") = "Committed"
    /\ Transition("Verifying", "VerificationFailed") = "VerificationFailed"
  BY DEF Advance2, Transition, ValidTransitions, IsTerminal, Invalid

\* What the lifecycle invariant says of one run.
LifecycleOf(r) ==
    /\ fsm[r] # Invalid
    /\ pc[r] = "dispatch" => fsm[r] = "Executing"
    /\ pc[r] = "observe" => fsm[r] = "Observing"
    /\ pc[r] = "verify" => fsm[r] = "Verifying"
    /\ pc[r] \in {"complete", "persist"} =>
         /\ verdict[r] = "Verified" => fsm[r] = "Committed"
         /\ verdict[r] = "Failed" => fsm[r] \in {"Rejected", "VerificationFailed"}
         /\ verdict[r] \in {"Unknown", "Partial"} => ~IsTerminal(fsm[r])

LEMMA LifecycleByRun ==
    ASSUME TypeOK
    PROVE  LifecycleInvariant <=> \A r \in Runs : LifecycleOf(r)
  BY DEF LifecycleInvariant, LifecycleAgrees, LifecycleOf, TypeOK, Verdicts

\* A step of one run keeps its lifecycle in step with its place.
LEMMA RunStepLifecycle ==
    ASSUME TypeOK, NEW r \in Runs, LifecycleOf(r), RunStep(r)
    PROVE  LifecycleOf(r)'
  <1> USE DEF registry, locals, world, history, Step, TypeOK, LifecycleOf
  <1>1. CASE StartUnkeyed(r)  BY <1>1 DEF StartUnkeyed
  <1>2. CASE Claim(r)         BY <1>2 DEF Claim
  <1>3. CASE FindCompleted(r) BY <1>3 DEF FindCompleted, Return
  <1>4. CASE FindInFlight(r)  BY <1>4 DEF FindInFlight, Return
  <1>5. CASE Poll(r)          BY <1>5 DEF Poll, Return
  <1>6. CASE PassPreconditions(r)   BY <1>6, Advances DEF PassPreconditions, AdvanceOrAbort, Invalid
  <1>7. CASE RejectPreconditions(r) BY <1>7, Advances DEF RejectPreconditions, AdvanceOrAbort, Invalid
  <1>8. CASE SimulateExecution(r)   BY <1>8, Advances DEF SimulateExecution, AdvanceOrAbort, Invalid
  <1>9. CASE DispatchReturns(r)     BY <1>9, Advances DEF DispatchReturns, AdvanceOrAbort, Invalid
  <1>10. CASE DispatchAmbiguous(r)  BY <1>10 DEF DispatchAmbiguous, IsTerminal
  <1>11. CASE DispatchFails(r)      BY <1>11 DEF DispatchFails, AbortWith
  <1>12. CASE Observe(r)            BY <1>12, Advances DEF Observe, AdvanceOrAbort, Invalid
  <1>13. CASE ObserverUnknown(r)    BY <1>13 DEF ObserverUnknown, IsTerminal
  <1>14. CASE ObserverFails(r)      BY <1>14 DEF ObserverFails, AbortWith
  <1>15. CASE EvaluationFails(r)    BY <1>15 DEF EvaluationFails, AbortWith
  <1>16. CASE RetryAttempt(r)       BY <1>16 DEF RetryAttempt
  <1>17. CASE Conclude(r)           BY <1>17, Advances DEF Conclude, FinalState, AdvanceOrAbort, Invalid, IsTerminal
  <1>18. CASE Complete(r)           BY <1>18 DEF Complete
  <1>19. CASE Persist(r)            BY <1>19 DEF Persist, Return
  <1>20. CASE Abort(r)              BY <1>20 DEF Abort, Return
  <1> QED
    BY <1>1, <1>2, <1>3, <1>4, <1>5, <1>6, <1>7, <1>8, <1>9, <1>10, <1>11, <1>12, <1>13,
       <1>14, <1>15, <1>16, <1>17, <1>18, <1>19, <1>20 DEF RunStep

\* The executor never asks the lifecycle for a forbidden transition, so the
\* advance_or_abort exits are dead, and the lifecycle state a run completes in
\* tells the same story as its verdict.
THEOREM LifecycleCorrect == Spec => []LifecycleAgrees
  <1>1. Init => LifecycleInvariant
    BY DEF Init, LifecycleInvariant, LifecycleAgrees, Invalid
  <1>2. TypeOK /\ LifecycleInvariant /\ [Next]_vars /\ TypeOK' => LifecycleInvariant'
    <2> SUFFICES ASSUME TypeOK, LifecycleInvariant, [Next]_vars, TypeOK'
                 PROVE  LifecycleInvariant'
      OBVIOUS
    <2>1. \A s \in Runs : LifecycleOf(s)
      BY LifecycleByRun
    <2>2. ASSUME NEW r \in Runs, RunStep(r), NEW s \in Runs PROVE LifecycleOf(s)'
      <3>1. CASE s = r  BY <3>1, <2>1, <2>2, RunStepLifecycle
      <3>2. CASE s # r  BY <3>2, <2>1, <2>2, RunStepFrame DEF LifecycleOf
      <3> QED  BY <3>1, <3>2
    <2>3. ASSUME UNCHANGED <<pc, fsm, verdict>>, NEW s \in Runs PROVE LifecycleOf(s)'
      BY <2>1, <2>3 DEF LifecycleOf
    <2>4. \A s \in Runs : LifecycleOf(s)'
      <3>1. CASE \E r \in Runs : RunStep(r)  BY <3>1, <2>2
      <3>2. CASE ~\E r \in Runs : RunStep(r)
        BY <3>2, <2>3 DEF Next, EffectArrives, AllReturned, vars, locals
      <3> QED  BY <3>1, <3>2
    <2> QED  BY <2>4 DEF LifecycleInvariant, LifecycleAgrees, LifecycleOf, TypeOK, Verdicts
  <1>3. LifecycleInvariant => LifecycleAgrees
    BY DEF LifecycleInvariant
  <1> QED  BY <1>1, <1>2, <1>3, TypeCorrect, PTL DEF Spec

-----------------------------------------------------------------------------
\* The evidence behind a verdict

\* A contract that asks for the effect to exist is verified only by a state in
\* which it does.
LEMMA VerifiedNeedsEvidence ==
    ASSUME NEW post, NEW state, VerifyPostconditions(post, state) = "Verified",
           \E i \in DOMAIN post : post[i].pred = "exists"
    PROVE  state = "Present"
  BY DEF VerifyPostconditions, Evaluate

\* The system of record forgets no effect.
LEMMA EffectsGrow ==
    ASSUME TypeOK, [Next]_vars, NEW k \in Keys \cup {NoKey}
    PROVE  effects'[k] >= effects[k]
  <1>1. ASSUME NEW r \in Runs, RunStep(r) PROVE effects'[k] >= effects[k]
    <2>1. ASSUME NEW fate, NEW reach, Dispatch(r, fate, reach) PROVE effects'[k] >= effects[k]
      BY <2>1, CallIsTyped DEF Dispatch, TypeOK
    <2>2. CASE DispatchReturns(r)   BY <2>1, <2>2 DEF DispatchReturns
    <2>3. CASE DispatchAmbiguous(r) BY <2>1, <2>3 DEF DispatchAmbiguous
    <2>4. CASE DispatchFails(r)     BY <2>1, <2>4 DEF DispatchFails
    <2>5. CASE effects' = effects   BY <2>5 DEF TypeOK
    <2>6. CASE \/ PassPreconditions(r) \/ RejectPreconditions(r) \/ SimulateExecution(r)
               \/ Observe(r) \/ ObserverUnknown(r) \/ ObserverFails(r)
               \/ EvaluationFails(r) \/ RetryAttempt(r) \/ Conclude(r)
      BY <2>5, <2>6 DEF PassPreconditions, RejectPreconditions, SimulateExecution, Observe,
         ObserverUnknown, ObserverFails, EvaluationFails, RetryAttempt, Conclude, world
    <2>7. CASE \/ StartUnkeyed(r) \/ Claim(r) \/ FindCompleted(r) \/ FindInFlight(r) \/ Poll(r)
               \/ Complete(r) \/ Persist(r) \/ Abort(r)
      BY <2>5, <2>7 DEF StartUnkeyed, Claim, FindCompleted, FindInFlight, Poll, Complete,
         Persist, Abort, world
    <2> QED  BY <1>1, <2>2, <2>3, <2>4, <2>6, <2>7 DEF RunStep
  <1>2. CASE \E c \in Keys \cup {NoKey} : EffectArrives(c)
    BY <1>2 DEF EffectArrives, TypeOK
  <1>3. CASE UNCHANGED vars
    BY <1>3 DEF vars, TypeOK
  <1> QED  BY <1>1, <1>2, <1>3 DEF Next, AllReturned

\* What the evidence invariant says of one run.
EvidenceOf(r) ==
    /\ obs[r] = "Present" => effects[Key(r)] > 0
    /\ /\ verdict[r] = "Verified"
       /\ call[r].observer
       /\ \E i \in DOMAIN call[r].post : call[r].post[i].pred = "exists"
       => effects[Key(r)] > 0
    /\ pc[r] \in {"start", "attempt", "dispatch", "verify"} /\ sent[r] > 0 /\ call[r].observer
       => looked[r]

\* Where a run's observation, its verdict and its duty to look come from.
LEMMA RunStepSees ==
    ASSUME TypeOK, NEW r \in Runs, EvidenceOf(r), RunStep(r)
    PROVE  /\ obs'[r] \in {obs[r], World(r), "Empty"}
           /\ verdict'[r] = "Verified" => verdict[r] = "Verified" \/ Result(r) = "Verified"
           /\ pc'[r] \in {"start", "attempt", "dispatch", "verify"} /\ sent'[r] > 0
                /\ call[r].observer => looked'[r]
  <1> USE DEF registry, locals, world, history, Step, TypeOK, EvidenceOf
  <1>1. CASE StartUnkeyed(r)  BY <1>1 DEF StartUnkeyed
  <1>2. CASE Claim(r)         BY <1>2 DEF Claim
  <1>3. CASE FindCompleted(r) BY <1>3 DEF FindCompleted, Return
  <1>4. CASE FindInFlight(r)  BY <1>4 DEF FindInFlight, Return
  <1>5. CASE Poll(r)          BY <1>5 DEF Poll, Return
  <1>6. CASE PassPreconditions(r)
    BY <1>6 DEF PassPreconditions, AdvanceOrAbort, Read
  <1>7. CASE RejectPreconditions(r)
    BY <1>7 DEF RejectPreconditions, AdvanceOrAbort, Read
  <1>8. CASE SimulateExecution(r)   BY <1>8 DEF SimulateExecution, AdvanceOrAbort
  <1>9. CASE DispatchReturns(r)     BY <1>9 DEF DispatchReturns, AdvanceOrAbort
  <1>10. CASE DispatchAmbiguous(r)  BY <1>10 DEF DispatchAmbiguous
  <1>11. CASE DispatchFails(r)      BY <1>11 DEF DispatchFails, AbortWith
  <1>12. CASE Observe(r)            BY <1>12 DEF Observe, AdvanceOrAbort, Read
  <1>13. CASE ObserverUnknown(r)    BY <1>13 DEF ObserverUnknown
  <1>14. CASE ObserverFails(r)      BY <1>14 DEF ObserverFails, AbortWith
  <1>15. CASE EvaluationFails(r)    BY <1>15 DEF EvaluationFails, AbortWith
  <1>16. CASE RetryAttempt(r)       BY <1>16 DEF RetryAttempt
  <1>17. CASE Conclude(r)           BY <1>17 DEF Conclude, AdvanceOrAbort
  <1>18. CASE Complete(r)           BY <1>18 DEF Complete
  <1>19. CASE Persist(r)            BY <1>19 DEF Persist, Return
  <1>20. CASE Abort(r)              BY <1>20 DEF Abort, Return
  <1> QED
    BY <1>1, <1>2, <1>3, <1>4, <1>5, <1>6, <1>7, <1>8, <1>9, <1>10, <1>11, <1>12, <1>13,
       <1>14, <1>15, <1>16, <1>17, <1>18, <1>19, <1>20 DEF RunStep

\* A step of any run keeps the evidence of every run sound.
LEMMA StepEvidence ==
    ASSUME TypeOK, TypeOK', [Next]_vars, NEW s \in Runs, EvidenceOf(s)
    PROVE  EvidenceOf(s)'
  <1>1. /\ call' = call /\ Key(s)' = Key(s)
        /\ effects[Key(s)] > 0 => effects'[Key(s)] > 0
    <2>1. call' = call  BY CallConstant
    <2>2. Key(s) \in Keys \cup {NoKey}  BY CallIsTyped
    <2>3. effects'[Key(s)] >= effects[Key(s)]  BY <2>2, EffectsGrow
    <2>4. effects[Key(s)] \in Nat /\ effects'[Key(s)] \in Nat
      BY <2>2 DEF TypeOK
    <2> QED  BY <2>1, <2>3, <2>4 DEF Key
  <1>2. CASE RunStep(s)
    <2>1. obs'[s] = "Present" => effects'[Key(s)] > 0
      BY <1>1, <1>2, RunStepSees DEF EvidenceOf, World
    <2>2. ASSUME verdict'[s] = "Verified", call[s].observer,
                 \E i \in DOMAIN call[s].post : call[s].post[i].pred = "exists"
          PROVE  effects'[Key(s)] > 0
      <3>1. CASE verdict[s] = "Verified"  BY <1>1, <2>2, <3>1 DEF EvidenceOf
      <3>2. CASE Result(s) = "Verified"
        <4>1. obs[s] = "Present"
          BY <2>2, <3>2, VerifiedNeedsEvidence DEF Result
        <4> QED  BY <1>1, <4>1 DEF EvidenceOf
      <3> QED  BY <1>2, <2>2, <3>1, <3>2, RunStepSees
    <2> QED  BY <1>1, <1>2, <2>1, <2>2, RunStepSees DEF EvidenceOf
  <1>3. CASE \E r \in Runs \ {s} : RunStep(r)
    BY <1>1, <1>3, RunStepFrame DEF EvidenceOf
  <1>4. CASE UNCHANGED <<pc, obs, verdict, sent, looked>>
    BY <1>1, <1>4 DEF EvidenceOf
  <1>5. CASE ~\E r \in Runs : RunStep(r)
    BY <1>4, <1>5 DEF Next, EffectArrives, AllReturned, vars, locals, history
  <1> QED  BY <1>2, <1>3, <1>5

\* The evidence invariant holds of every reachable state.
THEOREM EvidenceCorrect == Spec => []EvidenceInvariant
  <1>1. Init => EvidenceInvariant
    BY DEF Init, EvidenceInvariant, VerifiedHasEffect
  <1>2. TypeOK /\ EvidenceInvariant /\ [Next]_vars /\ TypeOK' => EvidenceInvariant'
    <2> SUFFICES ASSUME TypeOK, EvidenceInvariant, [Next]_vars, TypeOK'
                 PROVE  EvidenceInvariant'
      OBVIOUS
    <2>1. \A s \in Runs : EvidenceOf(s)
      BY DEF EvidenceInvariant, VerifiedHasEffect, EvidenceOf
    <2>2. \A s \in Runs : EvidenceOf(s)'
      BY <2>1, StepEvidence
    <2> QED  BY <2>2 DEF EvidenceInvariant, VerifiedHasEffect, EvidenceOf
  <1> QED  BY <1>1, <1>2, TypeCorrect, PTL DEF Spec

\* A verdict of Verified that an observer backed is true of the system of record.
THEOREM VerifiedIsTrue == Spec => []VerifiedHasEffect
  <1>1. EvidenceInvariant => VerifiedHasEffect
    BY DEF EvidenceInvariant
  <1> QED  BY <1>1, EvidenceCorrect, PTL

\* A run with an observer looks at the system of record between two dispatches.
THEOREM LooksBeforeRedispatch == Spec => []LookBeforeRedispatch
  <1>1. EvidenceInvariant => LookBeforeRedispatch
    BY DEF EvidenceInvariant, LookBeforeRedispatch
  <1> QED  BY <1>1, EvidenceCorrect, PTL

-----------------------------------------------------------------------------
\* At most one effect

\* How often the action of a key took, or may still take, effect.
Total(k) == effects[k] + transit[k]

\* No run of the key is past its first attempt.
FirstAttempts(k) == \A r \in Runs : Key(r) = k => attempts[r] <= 1

\* Where the attempt counter of a run stands.
AttemptsOf(r) ==
    /\ pc[r] \in {"start", "poll"} => attempts[r] = 0
    /\ pc[r] \in {"dispatch", "observe", "verify"} => attempts[r] > 0

\* A step of one run keeps its counter where it belongs and never lowers it.
LEMMA RunStepAttempts ==
    ASSUME TypeOK, NEW r \in Runs, AttemptsOf(r), RunStep(r)
    PROVE  AttemptsOf(r)' /\ attempts'[r] >= attempts[r]
  <1> USE DEF registry, locals, world, history, Step, TypeOK, AttemptsOf
  <1>1. CASE StartUnkeyed(r)  BY <1>1 DEF StartUnkeyed
  <1>2. CASE Claim(r)         BY <1>2 DEF Claim
  <1>3. CASE FindCompleted(r) BY <1>3 DEF FindCompleted, Return
  <1>4. CASE FindInFlight(r)  BY <1>4 DEF FindInFlight, Return
  <1>5. CASE Poll(r)          BY <1>5 DEF Poll, Return
  <1>6. CASE PassPreconditions(r)
    BY <1>6 DEF PassPreconditions, AdvanceOrAbort, StartAttempt
  <1>7. CASE RejectPreconditions(r)
    BY <1>7 DEF RejectPreconditions, AdvanceOrAbort, StartAttempt
  <1>8. CASE SimulateExecution(r)   BY <1>8 DEF SimulateExecution, AdvanceOrAbort
  <1>9. CASE DispatchReturns(r)     BY <1>9 DEF DispatchReturns, AdvanceOrAbort
  <1>10. CASE DispatchAmbiguous(r)  BY <1>10 DEF DispatchAmbiguous
  <1>11. CASE DispatchFails(r)      BY <1>11 DEF DispatchFails, AbortWith
  <1>12. CASE Observe(r)            BY <1>12 DEF Observe, AdvanceOrAbort
  <1>13. CASE ObserverUnknown(r)    BY <1>13 DEF ObserverUnknown
  <1>14. CASE ObserverFails(r)      BY <1>14 DEF ObserverFails, AbortWith
  <1>15. CASE EvaluationFails(r)    BY <1>15 DEF EvaluationFails, AbortWith
  <1>16. CASE RetryAttempt(r)       BY <1>16 DEF RetryAttempt
  <1>17. CASE Conclude(r)           BY <1>17 DEF Conclude, AdvanceOrAbort
  <1>18. CASE Complete(r)           BY <1>18 DEF Complete
  <1>19. CASE Persist(r)            BY <1>19 DEF Persist, Return
  <1>20. CASE Abort(r)              BY <1>20 DEF Abort, Return
  <1> QED
    BY <1>1, <1>2, <1>3, <1>4, <1>5, <1>6, <1>7, <1>8, <1>9, <1>10, <1>11, <1>12, <1>13,
       <1>14, <1>15, <1>16, <1>17, <1>18, <1>19, <1>20 DEF RunStep

\* The actions that dispatch nothing leave the system of record alone.
LEMMA QuietStep ==
    ASSUME NEW r \in Runs, RunStep(r),
           ~(DispatchReturns(r) \/ DispatchAmbiguous(r) \/ DispatchFails(r))
    PROVE  UNCHANGED world
  BY DEF RunStep, StartUnkeyed, Claim, FindCompleted, FindInFlight, Poll, PassPreconditions,
     RejectPreconditions, SimulateExecution, Observe, ObserverUnknown, ObserverFails,
     EvaluationFails, RetryAttempt, Conclude, Complete, Persist, Abort

\* A dispatch adds at most one effect to the key of its run, none if it is unsent.
LEMMA DispatchTotal ==
    ASSUME TypeOK, NEW r \in Runs, NEW fate, NEW reach, Dispatch(r, fate, reach),
           NEW k \in Keys
    PROVE  /\ Key(r) # k => Total(k)' = Total(k)
           /\ Key(r) = k => Total(k)' <= Total(k) + 1
           /\ fate = "Nothing" => Total(k)' = Total(k)
  BY DEF Dispatch, Total, TypeOK

\* What the effect invariant says of one key.
EffectOf(k) ==
    /\ Total(k) <= 1
    /\ entries[k] = "Vacant" => Total(k) = 0
    /\ \A r \in Runs : Key(r) = k /\ Untouched(r) => Total(k) = 0

\* A run touches no entry but the one of its key.
LEMMA RunStepEntries ==
    ASSUME TypeOK, NEW r \in Runs, RunStep(r), NEW k \in Keys \ {Key(r)}
    PROVE  entries'[k] = entries[k]
  <1>1. CASE Work(r)  BY <1>1, WorkShape
  <1>2. CASE Poll(r) \/ Claim(r)
    BY <1>2 DEF Poll, Claim, TypeOK
  <1>3. CASE Complete(r) \/ Abort(r)
    BY <1>3 DEF Complete, Abort, Put, TypeOK
  <1>4. CASE StartUnkeyed(r) \/ FindCompleted(r) \/ FindInFlight(r) \/ Persist(r)
    BY <1>4 DEF StartUnkeyed, FindCompleted, FindInFlight, Persist, registry
  <1> QED  BY <1>1, <1>2, <1>3, <1>4 DEF RunStep, Work

\* A dispatch from an untouched key leaves at most one effect, and none that
\* its run could release.
LEMMA DispatchEffect ==
    ASSUME TypeOK, KeyInvariant, NEW r \in Runs, Keyed(r), EffectOf(Key(r)),
           DispatchReturns(r) \/ DispatchAmbiguous(r) \/ DispatchFails(r)
    PROVE  /\ Total(Key(r))' <= 1
           /\ entries'[Key(r)] = "InFlight"
           /\ Untouched(r)' => Total(Key(r))' = 0
  <1> DEFINE k == Key(r)
  <1>0. RunStep(r) /\ Work(r) /\ k \in Keys /\ call' = call
    BY CallConstant DEF RunStep, Work, Next, Keyed
  <1>1. pc[r] = "dispatch" /\ ~call[r].simulated
    BY DEF DispatchReturns, DispatchAmbiguous, DispatchFails, Dispatch, AdvanceOrAbort, AbortWith, Step
  <1>2. Untouched(r) /\ entries[k] = "InFlight" /\ Total(k) = 0
    BY <1>1 DEF Untouched, Holding, InRun, KeyInvariant, EffectOf
  <1>3. entries'[k] = "InFlight"
    BY <1>0, <1>2, WorkShape
  <1>4. ASSUME NEW fate, NEW reach, Dispatch(r, fate, reach)
        PROVE  Total(k)' <= 1 /\ (fate = "Nothing" => Total(k)' = 0)
    BY <1>0, <1>2, <1>4, DispatchTotal DEF Key
  <1>5. CASE DispatchReturns(r)
    <2>1. Total(k)' <= 1  BY <1>4, <1>5 DEF DispatchReturns
    <2>2. pc'[r] \in {"observe", "abort"} /\ (pc'[r] = "abort" => policy'[r] = "ConsumeUnknown")
      BY <1>5 DEF DispatchReturns, AdvanceOrAbort, Step, TypeOK
    <2> QED  BY <2>1, <2>2, <1>0, <1>1, <1>3 DEF Untouched
  <1>6. CASE DispatchAmbiguous(r)
    <2>1. Total(k)' <= 1  BY <1>4, <1>6 DEF DispatchAmbiguous
    <2>2. pc'[r] = "complete"
      BY <1>6 DEF DispatchAmbiguous, Step, TypeOK
    <2> QED  BY <2>1, <2>2, <1>0, <1>1, <1>3 DEF Untouched
  <1>7. CASE DispatchFails(r)
    <2>1. PICK e \in DOMAIN ErrorReach :
            /\ \E fate \in ErrorReach[e] : Dispatch(r, fate, ErrorReach[e])
            /\ AbortWith(r, "dispatch", ClaimPolicyFor(e))
      BY <1>7 DEF DispatchFails
    <2>2. Total(k)' <= 1  BY <1>4, <2>1
    <2>3. pc'[r] = "abort" /\ policy'[r] = ClaimPolicyFor(e)
      BY <2>1 DEF AbortWith, Step, TypeOK
    <2>4. CASE ClaimPolicyFor(e) = "Release"
      <3>1. ErrorReach[e] = {"Nothing"}
        BY <2>4 DEF ClaimPolicyFor, ErrorReach, Unsent
      <3> QED  BY <1>3, <1>4, <2>1, <2>2, <3>1
    <2>5. CASE ClaimPolicyFor(e) # "Release"
      BY <1>0, <1>1, <1>3, <2>2, <2>3, <2>5 DEF Untouched
    <2> QED  BY <2>4, <2>5
  <1> QED  BY <1>5, <1>6, <1>7

\* The other actions of a run on its first attempt.
LEMMA QuietEffect ==
    ASSUME TypeOK, KeyInvariant, NEW r \in Runs, Keyed(r), EffectOf(Key(r)), AttemptsOf(r),
           RunStep(r), attempts'[r] <= 1, UNCHANGED world,
           ~(DispatchReturns(r) \/ DispatchAmbiguous(r) \/ DispatchFails(r))
    PROVE  /\ entries'[Key(r)] = "Vacant" => Total(Key(r)) = 0
           /\ Untouched(r)' => Total(Key(r)) = 0
  <1> DEFINE k == Key(r)
  <1>0. k \in Keys /\ call' = call
    BY CallConstant DEF Next, Keyed
  <1>1. Untouched(r) => Total(k) = 0
    BY DEF EffectOf
  <1>2. entries[k] = "Vacant" => Total(k) = 0
    BY DEF EffectOf
  <1>3. CASE StartUnkeyed(r)  BY <1>3 DEF StartUnkeyed
  <1>4. CASE Claim(r)         BY <1>2, <1>4 DEF Claim
  <1>5. CASE FindCompleted(r) \/ FindInFlight(r) \/ Persist(r)
    <2>1. pc'[r] \in {"done", "poll"} /\ UNCHANGED entries
      BY <1>5 DEF FindCompleted, FindInFlight, Persist, Return, Step, registry, TypeOK
    <2> QED  BY <2>1, <1>2 DEF Untouched, Holding, InRun
  <1>6. CASE Poll(r)
    <2>1. pc'[r] = "done" /\ (entries'[k] = "Vacant" => entries[k] = "Vacant")
      BY <1>0, <1>6 DEF Poll, Return, Step, TypeOK
    <2> QED  BY <2>1, <1>2 DEF Untouched, Holding, InRun
  <1>7. CASE Complete(r)
    <2>1. pc'[r] = "persist" /\ entries'[k] \in Verdicts
      BY <1>0, <1>7 DEF Complete, Step, Put, TypeOK
    <2> QED  BY <2>1 DEF Untouched, Holding, InRun, Verdicts
  <1>8. CASE Abort(r)
    <2>1. /\ pc[r] = "abort" /\ pc'[r] = "done"
          /\ entries'[k] = "Vacant" => policy[r] = "Release"
      BY <1>0, <1>8 DEF Abort, Return, Step, Put, TypeOK
    <2> QED  BY <2>1, <1>1 DEF Untouched, Holding, InRun
  <1>9. CASE PassPreconditions(r) \/ RejectPreconditions(r)
    <2>1. pc[r] = "attempt" /\ attempts[r] = 0
      BY <1>9 DEF PassPreconditions, RejectPreconditions, StartAttempt, AdvanceOrAbort, Step, TypeOK
    <2> QED  BY <2>1, <1>1 DEF Untouched, Holding, InRun
  <1>10. ASSUME Work(r) PROVE UNCHANGED entries /\ (entries'[k] = "Vacant" => Total(k) = 0)
    BY <1>2, <1>10, WorkShape
  <1>11. CASE call[r].simulated /\ Work(r)
    BY <1>1, <1>10, <1>11, WorkShape DEF Untouched, Holding
  <1>12. CASE ~call[r].simulated /\ (Observe(r) \/ Conclude(r))
    <2>1. pc'[r] \in {"verify", "complete", "abort"} /\ (pc'[r] = "abort" => policy'[r] = "ConsumeUnknown")
      BY <1>12 DEF Observe, Conclude, AdvanceOrAbort, Step, PolicyAfterDispatch, TypeOK
    <2> QED  BY <2>1, <1>0, <1>10, <1>12 DEF Untouched, Work
  <1>13. CASE ~call[r].simulated /\ (ObserverFails(r) \/ EvaluationFails(r))
    <2>1. pc'[r] = "abort" /\ policy'[r] = "ConsumeUnknown"
      BY <1>13 DEF ObserverFails, EvaluationFails, AbortWith, Step, PolicyAfterDispatch, TypeOK
    <2> QED  BY <2>1, <1>0, <1>10, <1>13 DEF Untouched, Work
  <1>14. CASE ~call[r].simulated /\ ObserverUnknown(r)
    <2>1. pc'[r] = "complete"
      BY <1>14 DEF ObserverUnknown, Step, TypeOK
    <2> QED  BY <2>1, <1>0, <1>10, <1>14 DEF Untouched, Work
  <1>15. CASE ~call[r].simulated /\ RetryAttempt(r)
    <2>1. pc'[r] = "attempt" /\ attempts'[r] > 0
      BY <1>15 DEF RetryAttempt, Step, AttemptsOf, TypeOK
    <2> QED  BY <2>1, <1>0, <1>10, <1>15 DEF Untouched, Work, TypeOK
  <1>16. CASE SimulateExecution(r)
    BY <1>11, <1>16 DEF SimulateExecution, Work
  <1> QED
    BY <1>3, <1>4, <1>5, <1>6, <1>7, <1>8, <1>9, <1>11, <1>12, <1>13, <1>14, <1>15, <1>16
    DEF RunStep, Work

\* A step of one run keeps the effect invariant of every key whose runs are
\* still on their first attempt.
LEMMA RunStepEffect ==
    ASSUME TypeOK, TypeOK', KeyInvariant, KeyInvariant', EffectInvariant,
           NEW r \in Runs, RunStep(r), NEW k \in Keys, FirstAttempts(k)'
    PROVE  EffectOf(k)'
  <1>0. call' = call /\ \A s \in Runs : Key(s)' = Key(s)
    BY CallConstant DEF Next, Key
  <1>1. AttemptsOf(r) /\ attempts'[r] >= attempts[r]
    BY RunStepAttempts DEF EffectInvariant, AttemptsOf
  <1>2. FirstAttempts(k)
    <2> SUFFICES ASSUME NEW s \in Runs, Key(s) = k PROVE attempts[s] <= 1
      BY DEF FirstAttempts
    <2>1. attempts'[s] <= 1  BY <1>0 DEF FirstAttempts
    <2>2. attempts'[s] >= attempts[s]
      <3>1. CASE s = r  BY <1>1, <3>1
      <3>2. CASE s # r  BY <3>2, RunStepFrame DEF TypeOK
      <3> QED  BY <3>1, <3>2
    <2> QED  BY <2>1, <2>2 DEF TypeOK
  <1>3. EffectOf(k)
    BY <1>2 DEF EffectInvariant, FirstAttempts, EffectOf, Total
  <1>4. ASSUME NEW s \in Runs \ {r}, Key(s) = k, Untouched(s)'
        PROVE  Untouched(s) /\ Total(k) = 0 /\ Holding(s)
    <2>1. Untouched(s)
      BY <1>0, <1>4, RunStepFrame DEF Untouched, Holding, Keyed, Key
    <2> QED  BY <2>1, <1>3, <1>4 DEF EffectOf, Untouched
  <1>5. CASE Key(r) # k
    <2>1. entries'[k] = entries[k]
      BY <1>5, RunStepEntries
    <2>2. Total(k)' = Total(k)
      <3>1. CASE DispatchReturns(r) \/ DispatchAmbiguous(r) \/ DispatchFails(r)
        BY <1>5, <3>1, DispatchTotal DEF DispatchReturns, DispatchAmbiguous, DispatchFails
      <3>2. CASE ~(DispatchReturns(r) \/ DispatchAmbiguous(r) \/ DispatchFails(r))
        BY <3>2, QuietStep DEF world, Total
      <3> QED  BY <3>1, <3>2
    <2> QED  BY <1>0, <1>3, <1>4, <1>5, <2>1, <2>2 DEF EffectOf
  <1>6. CASE Key(r) = k /\ (DispatchReturns(r) \/ DispatchAmbiguous(r) \/ DispatchFails(r))
    <2>1. Keyed(r) /\ Holding(r)
      BY <1>6 DEF Keyed, Holding, InRun, DispatchReturns, DispatchAmbiguous, DispatchFails,
         AdvanceOrAbort, AbortWith, Step
    <2>2. /\ Total(k)' <= 1 /\ entries'[k] = "InFlight"
          /\ Untouched(r)' => Total(k)' = 0
      <3>1. EffectOf(Key(r)) /\ Key(r)' = k  BY <1>0, <1>3, <1>6
      <3> QED  BY <1>6, <2>1, <3>1, DispatchEffect DEF Total
    <2>3. \A s \in Runs \ {r} : Key(s) = k => ~Untouched(s)'
      BY <1>4, <1>6, <2>1 DEF KeyInvariant, ClaimExclusive
    <2> QED  BY <1>0, <2>2, <2>3 DEF EffectOf
  <1>7. CASE Key(r) = k /\ ~(DispatchReturns(r) \/ DispatchAmbiguous(r) \/ DispatchFails(r))
    <2>1. UNCHANGED world /\ Total(k)' = Total(k)
      BY <1>7, QuietStep DEF world, Total
    <2>2. attempts'[r] <= 1 /\ Keyed(r)
      BY <1>0, <1>7 DEF FirstAttempts, Keyed
    <2>3. /\ entries'[k] = "Vacant" => Total(k) = 0
          /\ Untouched(r)' => Total(k) = 0
      BY <1>1, <1>3, <1>7, <2>1, <2>2, QuietEffect
    <2> QED  BY <1>0, <1>3, <1>4, <2>1, <2>3 DEF EffectOf
  <1> QED  BY <1>5, <1>6, <1>7

\* The effect invariant holds of every reachable state.
THEOREM EffectCorrect == Spec => []EffectInvariant
  <1>1. Init => EffectInvariant
    BY DEF Init, EffectInvariant, Untouched, Holding, InRun
  <1>2. TypeOK /\ TypeOK' /\ KeyInvariant /\ KeyInvariant' /\ EffectInvariant /\ [Next]_vars
          => EffectInvariant'
    <2> SUFFICES ASSUME TypeOK, TypeOK', KeyInvariant, KeyInvariant', EffectInvariant, [Next]_vars
                 PROVE  EffectInvariant'
      OBVIOUS
    <2>1. CASE \E r \in Runs : RunStep(r)
      <3>1. PICK r \in Runs : RunStep(r)  BY <2>1
      <3>2. \A s \in Runs : AttemptsOf(s)'
        <4>1. \A s \in Runs : AttemptsOf(s)  BY DEF EffectInvariant, AttemptsOf
        <4>2. AttemptsOf(r)'  BY <3>1, <4>1, RunStepAttempts
        <4>3. \A s \in Runs \ {r} : AttemptsOf(s)'  BY <3>1, <4>1, RunStepFrame DEF AttemptsOf
        <4> QED  BY <4>2, <4>3
      <3>3. \A k \in Keys : FirstAttempts(k)' => EffectOf(k)'
        BY <3>1, RunStepEffect
      <3> QED  BY <3>2, <3>3 DEF EffectInvariant, AttemptsOf, FirstAttempts, EffectOf, Total
    <2>2. CASE UNCHANGED <<entries, pc, call, attempts, policy>>
               /\ \A k \in Keys : Total(k)' = Total(k)
      BY <2>2 DEF EffectInvariant, Untouched, Holding, Keyed, Key, Total
    <2>3. CASE \E c \in Keys \cup {NoKey} : EffectArrives(c)
      <3>1. \A k \in Keys : Total(k)' = Total(k)
        BY <2>3 DEF EffectArrives, Total, TypeOK
      <3> QED  BY <2>2, <2>3, <3>1 DEF EffectArrives, registry, locals
    <2>4. CASE UNCHANGED vars
      BY <2>2, <2>4 DEF vars, Total
    <2> QED  BY <2>1, <2>3, <2>4 DEF Next, AllReturned
  <1> QED  BY <1>1, <1>2, TypeCorrect, KeyCorrect, PTL DEF Spec

\* As long as no run of a key needed a second attempt, the action of the key
\* takes effect at most once.
THEOREM EffectAtMostOnce == Spec => []AtMostOnceEffect
  <1>1. EffectInvariant => AtMostOnceEffect
    BY DEF EffectInvariant, AtMostOnceEffect
  <1> QED  BY <1>1, EffectCorrect, PTL

-----------------------------------------------------------------------------
\* Receipts, as Delivery sees them

\* The observations of a receipt are a sequence of anything; Append makes it longer by one.
LEMMA AppendAny ==
    ASSUME NEW s, s \in Seq(Range(s)), NEW x
    PROVE  /\ Append(s, x) \in Seq(Range(Append(s, x))) /\ Len(s) \in Nat
           /\ Len(Append(s, x)) = Len(s) + 1
           /\ \A i \in 1 .. Len(s) : Append(s, x)[i] = s[i]
           /\ Append(s, x)[Len(s) + 1] = x
           /\ DOMAIN s = 1 .. Len(s) /\ DOMAIN Append(s, x) = 1 .. Len(s) + 1
  <1> DEFINE S == Range(s) \cup {x}
  <1>1. s \in Seq(S) /\ x \in S
    BY SeqMonotonic
  <1> HIDE DEF S
  <1>2. /\ Append(s, x) \in Seq(S) /\ Len(Append(s, x)) = Len(s) + 1 /\ Append(s, x)[Len(s) + 1] = x
        /\ \A i \in 1 .. Len(s) : Append(s, x)[i] = s[i]
    BY <1>1, AppendProperties
  <1>3. Len(s) \in Nat /\ DOMAIN s = 1 .. Len(s) /\ DOMAIN Append(s, x) = 1 .. Len(s) + 1
    BY <1>1, <1>2, LenProperties
  <1>4. Append(s, x) \in Seq(Range(Append(s, x)))
    BY <1>2, SeqOfRange
  <1> QED
    BY <1>2, <1>3, <1>4

\* with_observation keeps a receipt a receipt with its own digest, and makes it longer.
LEMMA Observed ==
    ASSUME NEW r, IsReceipt(r), NEW state
    PROVE  LET s == with_observation(r, state)
           IN  /\ IsReceipt(s) /\ verify_digest(s) /\ s.signature = r.signature
               /\ Len(r.observations) \in Nat /\ Len(s.observations) = Len(r.observations) + 1
  <1> DEFINE long == Append(r.observations, state)
             t == [r EXCEPT !.observations = long]
             s == [t EXCEPT !.digest = canonical_data(t)]
  <1>1. /\ long \in Seq(Range(long)) /\ Len(r.observations) \in Nat
        /\ Len(long) = Len(r.observations) + 1
    BY AppendAny DEF IsReceipt
  <1> HIDE DEF long
  <1>2. r = [f \in ReceiptFields |-> r[f]]
    BY DEF IsReceipt
  <1>3. t = [f \in ReceiptFields |-> IF f = "observations" THEN long ELSE r[f]]
    BY <1>2 DEF ReceiptFields, DigestFields, SignedFields
  <1>4. s = [f \in ReceiptFields |-> IF f = "digest" THEN canonical_data(t) ELSE t[f]]
    BY <1>3 DEF ReceiptFields, DigestFields, SignedFields
  <1> HIDE DEF s, t
  <1>5. \A f \in ReceiptFields : f # "digest" => s[f] = t[f]
    BY <1>4
  <1>6. /\ s = [f \in ReceiptFields |-> s[f]] /\ s.digest = canonical_data(t)
        /\ s.signature = r.signature /\ s.observations = long
    BY <1>3, <1>4 DEF ReceiptFields, DigestFields, SignedFields
  <1>7. canonical_data(t) = canonical_data(s)
    <2>1. \A f \in DigestFields : f \in ReceiptFields /\ f # "digest"
      BY DEF ReceiptFields, DigestFields, SignedFields
    <2> QED
      BY <1>5, <2>1 DEF canonical_data, Restrict
  <1>8. IsReceipt(s) /\ verify_digest(s)
    BY <1>1, <1>6, <1>7 DEF IsReceipt, verify_digest
  <1>9. s = with_observation(r, state)
    BY DEF s, t, long, with_observation, with_digest
  <1> QED
    BY <1>1, <1>6, <1>8, <1>9

\* Signing changes nothing that the digest or the signature covers.
LEMMA Signs ==
    ASSUME NEW r, IsReceipt(r), verify_digest(r), NEW service
    PROVE  LET s == sign(with_key_id(r, key_id(service)), service)
           IN  /\ IsReceipt(s) /\ verify_digest(s)
               /\ s.signature = {[key |-> service.signing_key, content |-> canonicalize(s)]}
  <1> DEFINE t == with_key_id(r, key_id(service))
             seal == {[key |-> service.signing_key, content |-> canonicalize(t)]}
             s == [t EXCEPT !.signature = seal]
  <1>1. r = [f \in ReceiptFields |-> r[f]] /\ r.digest = canonical_data(r)
        /\ r.observations \in Seq(Range(r.observations))
    BY DEF IsReceipt, verify_digest
  <1>2. t = [f \in ReceiptFields |-> IF f = "key_id" THEN {key_id(service)} ELSE r[f]]
    BY <1>1 DEF with_key_id, ReceiptFields, DigestFields, SignedFields
  <1> HIDE DEF t
  <1> HIDE DEF seal
  <1>3. s = [f \in ReceiptFields |-> IF f = "signature" THEN seal ELSE t[f]]
    BY <1>2 DEF ReceiptFields, DigestFields, SignedFields
  <1> HIDE DEF s
  <1>4. /\ s = [f \in ReceiptFields |-> s[f]] /\ s.digest = r.digest /\ s.signature = seal
        /\ s.observations = r.observations
    BY <1>2, <1>3 DEF ReceiptFields, DigestFields, SignedFields
  <1>5. \A f \in DigestFields : s[f] = t[f] /\ s[f] = r[f]
    BY <1>2, <1>3 DEF ReceiptFields, DigestFields, SignedFields
  <1>6. canonical_data(s) = canonical_data(r)
    BY <1>5 DEF canonical_data, Restrict
  <1>7. canonicalize(s) = canonicalize(t)
    BY <1>5 DEF canonicalize, Restrict, DigestFields
  <1>8. IsReceipt(s) /\ verify_digest(s)
    BY <1>1, <1>4, <1>6 DEF IsReceipt, verify_digest
  <1>9. s = sign(with_key_id(r, key_id(service)), service)
    BY DEF s, t, seal, sign
  <1>10. s.signature = {[key |-> service.signing_key, content |-> canonicalize(s)]}
    BY <1>4, <1>7 DEF seal
  <1> QED
    BY <1>8, <1>9, <1>10

-----------------------------------------------------------------------------
\* The invariant of a delivery

\* A signature covers what the receipt says until it is amended, and then something shorter.
Sealed(r) ==
    r.signature # {} =>
        \E content :
            /\ r.signature = {[key |-> SigningKey.seed, content |-> content]}
            /\ IF amended THEN Len(content.observations) < Len(r.observations)
               ELSE content = canonicalize(r)

\* What is sent, and what is recorded, has the digest of its receipt as its key.
KeyTaken(q) == q.key = q.body.receipt.digest /\ verify_digest(q.body.receipt)

DeliveryInv ==
    /\ amended \in BOOLEAN
    /\ \A r \in receipt : IsReceipt(r) /\ verify_digest(r) /\ Sealed(r)
    /\ \A q \in requests : KeyTaken(q)
    /\ recorded \in Seq(Range(recorded))
    /\ \A i \in DOMAIN recorded : KeyTaken(recorded[i])
    /\ \A i, j \in DOMAIN recorded : i # j => recorded[i].key # recorded[j].key

\* Nothing is issued, sent or recorded at first.
LEMMA DeliveryInitInv == DeliveryInit => DeliveryInv
  <1> SUFFICES ASSUME DeliveryInit PROVE DeliveryInv
    OBVIOUS
  <1>1. receipt = {} /\ amended = FALSE /\ requests = {} /\ recorded = <<>>
    BY DEF DeliveryInit, ControlInit
  <1>2. recorded \in Seq(Range(recorded)) /\ DOMAIN recorded = {}
    <2>1. recorded \in Seq(Range(recorded)) /\ Len(recorded) = 0
      BY <1>1, EmptySeq
    <2> QED
      BY <2>1, LenProperties
  <1> QED
    BY <1>1, <1>2 DEF DeliveryInv

\* The server records a request: under a key of its own, or not at all.
LEMMA RecordKeeps ==
    ASSUME DeliveryInv, ServerRecords, UNCHANGED <<receipt, amended>>
    PROVE  DeliveryInv'
  <1>1. PICK q \in requests :
            /\ requests' = requests \ {q}
            /\ recorded' = IF \E i \in DOMAIN recorded : recorded[i].key = q.key THEN recorded
                           ELSE Append(recorded, [key |-> q.key, body |-> q.body])
    BY DEF ServerRecords
  <1>2. (\A p \in requests' : KeyTaken(p)) /\ KeyTaken(q)
    BY <1>1 DEF DeliveryInv
  <1>3. \A r \in receipt' : IsReceipt(r) /\ verify_digest(r) /\ Sealed(r)'
    BY DEF DeliveryInv, Sealed
  <1>4. CASE \E i \in DOMAIN recorded : recorded[i].key = q.key
    BY <1>1, <1>2, <1>3, <1>4 DEF DeliveryInv
  <1>5. CASE \A i \in DOMAIN recorded : recorded[i].key # q.key
    <2> DEFINE e == [key |-> q.key, body |-> q.body]
               n == Len(recorded)
    <2>1. recorded' = Append(recorded, e)
      BY <1>1, <1>5
    <2>2. KeyTaken(e) /\ e.key = q.key
      BY <1>2 DEF KeyTaken
    <2> HIDE DEF e
    <2>3. recorded \in Seq(Range(recorded))
      BY DEF DeliveryInv
    <2>4. /\ recorded' \in Seq(Range(recorded')) /\ n \in Nat
          /\ DOMAIN recorded = 1 .. n /\ DOMAIN recorded' = 1 .. n + 1
          /\ \A i \in 1 .. n : recorded'[i] = recorded[i]
          /\ recorded'[n + 1] = e
      BY <2>1, <2>3, AppendAny
    <2> HIDE DEF n
    <2>5. \A i \in DOMAIN recorded' : i \in DOMAIN recorded \/ i = n + 1
      BY <2>4
    <2>6. \A i \in DOMAIN recorded' : KeyTaken(recorded'[i])
      BY <2>2, <2>4, <2>5 DEF DeliveryInv
    <2>7. \A i, j \in DOMAIN recorded' : i # j => recorded'[i].key # recorded'[j].key
      <3> TAKE i, j \in DOMAIN recorded'
      <3> HAVE i # j
      <3>1. CASE i \in DOMAIN recorded /\ j \in DOMAIN recorded
        BY <2>4, <3>1 DEF DeliveryInv
      <3>2. CASE i \in DOMAIN recorded /\ j = n + 1
        BY <1>5, <2>2, <2>4, <3>2
      <3>3. CASE i = n + 1 /\ j \in DOMAIN recorded
        BY <1>5, <2>2, <2>4, <3>3
      <3> QED
        BY <2>5, <3>1, <3>2, <3>3
    <2> QED
      BY <1>2, <1>3, <2>4, <2>6, <2>7 DEF DeliveryInv
  <1> QED
    BY <1>4, <1>5

\* Every step of a delivery keeps the invariant.
LEMMA DeliveryNextInv == DeliveryInv /\ [DeliveryNext]_delivery => DeliveryInv'
  <1> SUFFICES ASSUME DeliveryInv, [DeliveryNext]_delivery PROVE DeliveryInv'
    OBVIOUS
  <1>1. ASSUME UNCHANGED <<requests, recorded>>, amended' \in BOOLEAN,
               \A r \in receipt' : IsReceipt(r) /\ verify_digest(r) /\ Sealed(r)'
        PROVE  DeliveryInv'
    BY <1>1 DEF DeliveryInv, KeyTaken
  <1>2. CASE UNCHANGED delivery
    BY <1>1, <1>2 DEF delivery, control, DeliveryInv, Sealed
  <1>3. CASE Issue
    BY <1>1, <1>3 DEF Issue, control, DeliveryInv, Sealed
  <1>4. CASE SignReceipt
    <2>1. PICK r \in receipt, service \in from_base64(SigningKey) :
              receipt' = {sign(with_key_id(r, key_id(service)), service)}
      BY <1>4 DEF SignReceipt
    <2> DEFINE s == sign(with_key_id(r, key_id(service)), service)
    <2>2. /\ IsReceipt(s) /\ verify_digest(s)
          /\ s.signature = {[key |-> service.signing_key, content |-> canonicalize(s)]}
      BY Signs DEF DeliveryInv
    <2>3. service.signing_key = SigningKey.seed
      BY DEF from_base64, from_seed
    <2> HIDE DEF s
    <2>4. amended' = FALSE /\ UNCHANGED <<requests, recorded>> /\ receipt' = {s}
      BY <1>4, <2>1 DEF SignReceipt, control, s
    <2>5. Sealed(s)'
      BY <2>2, <2>3, <2>4 DEF Sealed
    <2> QED
      BY <1>1, <2>2, <2>4, <2>5
  <1>5. ASSUME NEW state, AmendReceipt(state) PROVE DeliveryInv'
    <2>1. PICK r \in receipt : /\ receipt' = {with_observation(r, state)}
                               /\ amended' = (amended \/ r.signature # {})
      BY <1>5 DEF AmendReceipt
    <2> DEFINE s == with_observation(r, state)
    <2>2. /\ IsReceipt(s) /\ verify_digest(s) /\ s.signature = r.signature
          /\ Len(r.observations) \in Nat /\ Len(s.observations) = Len(r.observations) + 1
      BY Observed DEF DeliveryInv
    <2> HIDE DEF s
    <2>3. receipt' = {s} /\ UNCHANGED <<requests, recorded>> /\ amended' \in BOOLEAN
      BY <1>5, <2>1 DEF AmendReceipt, control, DeliveryInv, s
    <2>4. Sealed(s)'
      <3> SUFFICES ASSUME s.signature # {} PROVE Sealed(s)'
        BY DEF Sealed
      <3>1. amended' = TRUE
        BY <2>1, <2>2, <2>3
      <3>2. PICK content :
                /\ r.signature = {[key |-> SigningKey.seed, content |-> content]}
                /\ IF amended THEN Len(content.observations) < Len(r.observations)
                   ELSE content = canonicalize(r)
        BY <2>2 DEF DeliveryInv, Sealed
      <3>3. Len(content.observations) < Len(s.observations)
        <4>1. CASE amended
          <5>1. Len(content.observations) < Len(r.observations)
            BY <3>2, <4>1
          <5> QED
            BY <2>2, <5>1
        <4>2. CASE ~amended
          <5>1. content.observations = r.observations
            BY <3>2, <4>2 DEF canonicalize, Restrict, SignedFields
          <5> QED
            BY <2>2, <5>1
        <4> QED
          BY <4>1, <4>2
      <3> QED
        BY <2>2, <3>1, <3>2, <3>3 DEF Sealed
    <2> QED
      BY <1>1, <2>2, <2>3, <2>4
  <1>6. ASSUME NEW config, Submit(config) PROVE DeliveryInv'
    <2>1. PICK r \in receipt : SubmitReceipt(r, config)
      BY <1>6 DEF Submit
    <2>2. UNCHANGED <<receipt, amended, recorded>>
      BY <1>6, <2>1 DEF Submit, SubmitReceipt
    <2>3. verify_digest(r)
      BY DEF DeliveryInv
    <2>4. \A q \in requests' : KeyTaken(q)
      <3> DEFINE q == [try |-> tries', key |-> IdempotencyKey(r), token |-> config.bearer_token,
                       body |-> redact_receipt(r, config.redact_fields)]
      <3>1. requests' = requests \/ requests' = requests \cup {q}
        BY <2>1 DEF SubmitReceipt
      <3>2. q.body.receipt = r /\ q.key = r.digest
        BY DEF redact_receipt, IdempotencyKey
      <3> HIDE DEF q
      <3>3. KeyTaken(q)
        BY <2>3, <3>2 DEF KeyTaken
      <3> QED
        BY <3>1, <3>3 DEF DeliveryInv
    <2> QED
      BY <2>2, <2>4 DEF DeliveryInv, Sealed
  <1>7. CASE Network
    <2>1. CASE ServerRecords
      BY <1>7, <2>1, RecordKeeps DEF Network
    <2>2. CASE ServerRefuses \/ RequestLost \/ ReceiveAnswer \/ SendFails \/ SubmitTimesOut
      <3>1. requests' \subseteq requests /\ UNCHANGED <<receipt, amended, recorded>>
        BY <1>7, <2>2 DEF Network, ServerRefuses, RequestLost, ReceiveAnswer, SendFails, SubmitTimesOut
      <3> QED
        BY <3>1 DEF DeliveryInv, Sealed
    <2> QED
      BY <1>7, <2>1, <2>2 DEF Network
  <1> QED
    BY <1>2, <1>3, <1>4, <1>5, <1>6, <1>7 DEF DeliveryNext

\* The invariant of every delivery.
LEMMA DeliveryInvariant == DeliverySpec => []DeliveryInv
  BY DeliveryInitInv, DeliveryNextInv, PTL DEF DeliverySpec

\* RecordedOnce: submit_receipt sends the digest of the receipt as its idempotency key, so
\* however often a receipt is submitted, and whichever of the requests are lost or late, the
\* Control Center records what it says once.
THEOREM ReceiptsRecordedOnce == DeliverySpec => []RecordedOnce
  <1>1. DeliveryInv => RecordedOnce
    BY DEF DeliveryInv, KeyTaken, RecordedOnce, verify_digest
  <1> QED
    BY <1>1, DeliveryInvariant, PTL

\* ReceiptAuthentic: with_observation and with_digest leave a receipt with its own digest, its
\* signature is valid exactly until it is amended, however often that is, and what the Control
\* Center has recorded can be checked against its digest and its key.
THEOREM ReceiptsAuthentic == DeliverySpec => []ReceiptAuthentic
  <1>1. DeliveryInv => ReceiptAuthentic
    <2> SUFFICES ASSUME DeliveryInv PROVE ReceiptAuthentic
      OBVIOUS
    <2>1. ASSUME NEW r \in receipt, r.signature # {}, NEW service \in from_base64(SigningKey)
          PROVE  verify(r, service) = "valid" <=> ~amended
      <3>1. service.verifying_key = SigningKey.seed
        BY DEF from_base64, from_seed
      <3>2. PICK content :
                /\ r.signature = {[key |-> SigningKey.seed, content |-> content]}
                /\ IF amended THEN Len(content.observations) < Len(r.observations)
                   ELSE content = canonicalize(r)
        BY <2>1 DEF DeliveryInv, Sealed
      <3>3. verify(r, service) = "valid" <=> content = canonicalize(r)
        <4>1. verify(r, service) = "valid" <=>
                  r.signature = {[key |-> SigningKey.seed, content |-> canonicalize(r)]}
          BY <2>1, <3>1 DEF verify
        <4>2. [key |-> SigningKey.seed, content |-> content].content = content
          OBVIOUS
        <4>3. [key |-> SigningKey.seed, content |-> canonicalize(r)].content = canonicalize(r)
          OBVIOUS
        <4> QED
          BY <3>2, <4>1, <4>2, <4>3
      <3>4. amended => content # canonicalize(r)
        <4> SUFFICES ASSUME amended, content = canonicalize(r) PROVE FALSE
          OBVIOUS
        <4>1. content.observations = r.observations
          BY DEF canonicalize, Restrict, SignedFields
        <4>2. Len(r.observations) \in Nat
          BY LenProperties DEF DeliveryInv, IsReceipt
        <4>3. Len(content.observations) < Len(r.observations)
          BY <3>2
        <4> QED
          BY <4>1, <4>2, <4>3
      <3> QED
        BY <3>2, <3>3, <3>4
    <2>2. \A i \in DOMAIN recorded :
              verify_digest(recorded[i].body.receipt) /\ recorded[i].key = recorded[i].body.receipt.digest
      BY DEF DeliveryInv, KeyTaken
    <2>3. \A r \in receipt : verify_digest(r)
      BY DEF DeliveryInv
    <2> QED
      BY <2>1, <2>2, <2>3 DEF ReceiptAuthentic
  <1> QED
    BY <1>1, DeliveryInvariant, PTL

-----------------------------------------------------------------------------
\* Connection URIs, for texts of any length

\* The parts of a URI over an alphabet, as a writer has them; a password, a port and parameters
\* are optional.
Options(S) == {{}} \cup {{t} : t \in Seq(S)}
UriParts(S) ==
    [scheme : {"postgres", "postgresql"}, user : Seq(S), password : Options(S), host : Seq(S),
     port : Options(S), database : Seq(S), params : Options(S)]

\* Texts around a delimiter.
LEMMA Around ==
    ASSUME NEW S, NEW a \in Seq(S), NEW c \in S, NEW b \in Seq(S)
    PROVE  LET t == a \o <<c>> \o b
           IN  /\ t \in Seq(S) /\ Len(a) \in Nat /\ Len(b) \in Nat /\ Len(t) = Len(a) + 1 + Len(b)
               /\ DOMAIN t = 1 .. Len(t) /\ t[Len(a) + 1] = c
               /\ \A i \in 1 .. Len(a) : t[i] = a[i]
               /\ \A i \in 1 .. Len(b) : t[Len(a) + 1 + i] = b[i]
  <1> DEFINE ac == a \o <<c>>
  <1>1. <<c>> \in Seq(S) /\ Len(<<c>>) = 1 /\ <<c>>[1] = c
    OBVIOUS
  <1>2. Len(a) \in Nat /\ Len(b) \in Nat
    BY LenProperties
  <1>3. /\ ac \in Seq(S) /\ Len(ac) = Len(a) + 1
        /\ \A i \in 1 .. Len(a) + 1 : ac[i] = IF i <= Len(a) THEN a[i] ELSE <<c>>[i - Len(a)]
    <2>1. /\ ac \in Seq(S) /\ Len(ac) = Len(a) + Len(<<c>>)
          /\ \A i \in 1 .. Len(a) + Len(<<c>>) : ac[i] = IF i <= Len(a) THEN a[i] ELSE <<c>>[i - Len(a)]
      BY <1>1, ConcatProperties
    <2> HIDE DEF ac
    <2> QED
      BY <1>1, <2>1
  <1>4. ac[Len(a) + 1] = c /\ \A i \in 1 .. Len(a) : ac[i] = a[i]
    <2> HIDE DEF ac
    <2>1. Len(a) + 1 \in 1 .. Len(a) + 1 /\ ~(Len(a) + 1 <= Len(a)) /\ (Len(a) + 1) - Len(a) = 1
      BY <1>2
    <2>2. ac[Len(a) + 1] = <<c>>[1]
      BY <1>3, <2>1
    <2> QED
      BY <1>1, <1>2, <1>3, <2>2
  <1> HIDE DEF ac
  <1> DEFINE t == ac \o b
  <1>5. /\ t \in Seq(S) /\ Len(t) = Len(ac) + Len(b)
        /\ \A i \in 1 .. Len(ac) + Len(b) : t[i] = IF i <= Len(ac) THEN ac[i] ELSE b[i - Len(ac)]
    <2>1. ac \in Seq(S)
      BY <1>3
    <2> QED
      BY <2>1, ConcatProperties
  <1>6. DOMAIN t = 1 .. Len(t)
    BY <1>5, LenProperties
  <1> HIDE DEF t
  <1>7. t[Len(a) + 1] = c /\ (\A i \in 1 .. Len(a) : t[i] = a[i])
    BY <1>2, <1>3, <1>4, <1>5
  <1>8. \A i \in 1 .. Len(b) : t[Len(a) + 1 + i] = b[i]
    <2> TAKE i \in 1 .. Len(b)
    <2>1. /\ Len(a) + 1 + i \in 1 .. Len(ac) + Len(b) /\ ~(Len(a) + 1 + i <= Len(ac))
          /\ (Len(a) + 1 + i) - Len(ac) = i
      BY <1>2, <1>3
    <2> QED
      BY <1>5, <2>1
  <1>9. Len(t) = Len(a) + 1 + Len(b)
    BY <1>3, <1>5
  <1> QED
    BY <1>2, <1>5, <1>6, <1>7, <1>8, <1>9 DEF t, ac

\* A text is its characters.
LEMMA SameText ==
    ASSUME NEW S, NEW a \in Seq(S), NEW b \in Seq(S), Len(a) = Len(b), \A i \in 1 .. Len(a) : a[i] = b[i]
    PROVE  a = b
  BY SeqEqual

\* Cutting at the delimiter gives back what is around it.
LEMMA SplitAround ==
    ASSUME NEW S, NEW a \in Seq(S), NEW c \in S, NEW b \in Seq(S)
    PROVE  SplitAt(a \o <<c>> \o b, Len(a) + 1) = <<a, b>>
  <1> DEFINE t == a \o <<c>> \o b
             x == SubSeq(t, 1, (Len(a) + 1) - 1)
             y == SubSeq(t, (Len(a) + 1) + 1, Len(t))
  <1>1. /\ t \in Seq(S) /\ Len(a) \in Nat /\ Len(b) \in Nat /\ Len(t) = Len(a) + 1 + Len(b)
        /\ \A i \in 1 .. Len(a) : t[i] = a[i]
        /\ \A i \in 1 .. Len(b) : t[Len(a) + 1 + i] = b[i]
    BY Around
  <1> HIDE DEF t
  <1>2. \A i \in 1 .. Len(t) : t[i] \in S
    BY <1>1
  <1>3. x = a
    <2> DEFINE n == (Len(a) + 1) - 1
    <2>1. n = Len(a) /\ n \in Int
      BY <1>1
    <2>2. \A i \in 1 .. n : t[i] \in S
      BY <1>1, <1>2
    <2> HIDE DEF n
    <2>3. /\ SubSeq(t, 1, n) \in Seq(S)
          /\ Len(SubSeq(t, 1, n)) = IF 1 <= n THEN n - 1 + 1 ELSE 0
          /\ \A i \in 1 .. n - 1 + 1 : SubSeq(t, 1, n)[i] = t[1 + i - 1]
      BY <2>1, <2>2, SubSeqProperties
    <2> DEFINE z == SubSeq(t, 1, n)
    <2> HIDE DEF z
    <2>4. Len(z) = Len(a)
      BY <1>1, <2>1, <2>3 DEF z
    <2>5. \A i \in 1 .. Len(a) : z[i] = t[i]
      <3> TAKE i \in 1 .. Len(a)
      <3>1. i \in 1 .. n - 1 + 1 /\ 1 + i - 1 = i
        BY <1>1, <2>1
      <3> QED
        BY <2>3, <3>1 DEF z
    <2>6. z \in Seq(S) /\ \A i \in 1 .. Len(z) : z[i] = a[i]
      BY <1>1, <2>3, <2>4, <2>5 DEF z
    <2> QED
      BY <2>4, <2>6, SameText DEF z, n
  <1>4. y = b
    <2> DEFINE m == (Len(a) + 1) + 1
    <2>1. m = Len(a) + 2 /\ m \in Int /\ Len(t) \in Int
      BY <1>1
    <2>2. \A i \in m .. Len(t) : t[i] \in S
      BY <1>1, <1>2
    <2> HIDE DEF m
    <2>3. /\ SubSeq(t, m, Len(t)) \in Seq(S)
          /\ Len(SubSeq(t, m, Len(t))) = IF m <= Len(t) THEN Len(t) - m + 1 ELSE 0
          /\ \A i \in 1 .. Len(t) - m + 1 : SubSeq(t, m, Len(t))[i] = t[m + i - 1]
      BY <2>1, <2>2, SubSeqProperties
    <2> DEFINE z == SubSeq(t, m, Len(t))
    <2> HIDE DEF z
    <2>4. Len(z) = Len(b)
      BY <1>1, <2>1, <2>3 DEF z
    <2>5. \A i \in 1 .. Len(b) : z[i] = t[Len(a) + 1 + i]
      <3> TAKE i \in 1 .. Len(b)
      <3>1. i \in 1 .. Len(t) - m + 1 /\ m + i - 1 = Len(a) + 1 + i
        BY <1>1, <2>1
      <3> QED
        BY <2>3, <3>1 DEF z
    <2>6. z \in Seq(S) /\ \A i \in 1 .. Len(z) : z[i] = b[i]
      BY <1>1, <2>3, <2>4, <2>5 DEF z
    <2> QED
      BY <2>4, <2>6, SameText DEF z, m
  <1> QED
    BY <1>3, <1>4 DEF SplitAt, t

\* A text without the delimiter is not split.
LEMMA SplitNowhere ==
    ASSUME NEW S, NEW a \in Seq(S), NEW c, c \notin Range(a)
    PROVE  split_once(a, c) = {} /\ rsplit_once(a, c) = {}
  <1>1. Positions(a, c) = {}
    BY DEF Positions, Range
  <1> QED
    BY <1>1 DEF split_once, rsplit_once

\* split_once: what is before the first delimiter, and the rest.
LEMMA SplitOnce ==
    ASSUME NEW S, NEW a \in Seq(S), NEW c \in S, NEW b \in Seq(S), c \notin Range(a)
    PROVE  split_once(a \o <<c>> \o b, c) = {<<a, b>>}
  <1> DEFINE t == a \o <<c>> \o b
             P == Positions(t, c)
             n == Len(a) + 1
  <1>1. /\ Len(a) \in Nat /\ Len(b) \in Nat /\ Len(t) = Len(a) + 1 + Len(b)
        /\ DOMAIN t = 1 .. Len(t) /\ t[n] = c
        /\ \A i \in 1 .. Len(a) : t[i] = a[i]
    BY Around
  <1>2. SplitAt(t, n) = <<a, b>>
    BY SplitAround
  <1> HIDE DEF t
  <1>3. \A i \in 1 .. Len(a) : a[i] # c
    BY LenProperties DEF Range
  <1>4. n \in P /\ \A i \in P : i \in Nat /\ n <= i
    BY <1>1, <1>3 DEF Positions
  <1> HIDE DEF P
  <1>5. Min(P) = n
    <2>1. \A x \in P : (\A y \in P : x <= y) => x = n
      BY <1>1, <1>4
    <2> QED
      BY <1>4, <2>1 DEF Min
  <1>6. {P} \ {{}} = {P}
    BY <1>4
  <1>7. split_once(t, c) = {SplitAt(t, i) : i \in {Min(s) : s \in {P}}}
    BY <1>6 DEF split_once, P
  <1>8. split_once(t, c) = {SplitAt(t, n)}
    BY <1>5, <1>7
  <1> QED
    BY <1>2, <1>8 DEF t

\* rsplit_once: what is after the last delimiter, and the rest.
LEMMA RsplitOnce ==
    ASSUME NEW S, NEW a \in Seq(S), NEW c \in S, NEW b \in Seq(S), c \notin Range(b)
    PROVE  rsplit_once(a \o <<c>> \o b, c) = {<<a, b>>}
  <1> DEFINE t == a \o <<c>> \o b
             P == Positions(t, c)
             n == Len(a) + 1
  <1>1. /\ Len(a) \in Nat /\ Len(b) \in Nat /\ Len(t) = Len(a) + 1 + Len(b)
        /\ DOMAIN t = 1 .. Len(t) /\ t[n] = c
        /\ \A i \in 1 .. Len(b) : t[Len(a) + 1 + i] = b[i]
    BY Around
  <1>2. SplitAt(t, n) = <<a, b>>
    BY SplitAround
  <1> HIDE DEF t
  <1>3. \A i \in 1 .. Len(b) : b[i] # c
    BY LenProperties DEF Range
  <1>4. n \in P /\ \A i \in P : i \in Nat /\ i <= n
    <2>1. n \in P
      BY <1>1 DEF Positions
    <2>2. ASSUME NEW i \in P PROVE i \in Nat /\ i <= n
      <3>1. i \in 1 .. Len(t) /\ t[i] = c
        BY <1>1 DEF Positions
      <3>2. SUFFICES ASSUME ~(i <= n) PROVE FALSE
        BY <3>1
      <3> DEFINE j == i - n
      <3>3. j \in 1 .. Len(b) /\ i = Len(a) + 1 + j
        BY <1>1, <3>1, <3>2
      <3> QED
        BY <1>1, <1>3, <3>1, <3>3
    <2> QED
      BY <2>1, <2>2
  <1> HIDE DEF P
  <1>5. Max(P) = n
    <2>1. \A x \in P : (\A y \in P : x >= y) => x = n
      BY <1>1, <1>4
    <2> QED
      BY <1>4, <2>1 DEF Max
  <1>6. {P} \ {{}} = {P}
    BY <1>4
  <1>7. rsplit_once(t, c) = {SplitAt(t, i) : i \in {Max(s) : s \in {P}}}
    BY <1>6 DEF rsplit_once, P
  <1>8. rsplit_once(t, c) = {SplitAt(t, n)}
    BY <1>5, <1>7
  <1> QED
    BY <1>2, <1>8 DEF t

\* One character and concatenation, as operators of which only the following is used.
Mark(c) == <<c>>
Cat(a, b) == a \o b

LEMMA MarkText ==
    ASSUME NEW S, NEW c \in S
    PROVE  Mark(c) \in Seq(S) /\ Range(Mark(c)) = {c}
  BY DEF Mark, Range

LEMMA CatText ==
    ASSUME NEW S, NEW a \in Seq(S), NEW b \in Seq(S)
    PROVE  Cat(a, b) \in Seq(S) /\ Range(Cat(a, b)) = Range(a) \cup Range(b)
  <1>1. a \o b \in Seq(S)
    BY ConcatProperties
  <1>2. Range(a \o b) = Range(a) \cup Range(b)
    BY RangeConcatenation
  <1> QED
    BY <1>1, <1>2 DEF Cat

LEMMA CatEmpty ==
    ASSUME NEW S, NEW a \in Seq(S)
    PROVE  Cat(a, <<>>) = a
  BY ConcatEmptySeq DEF Cat

LEMMA CatAssociative ==
    ASSUME NEW S, NEW a \in Seq(S), NEW b \in Seq(S), NEW c \in Seq(S)
    PROVE  Cat(Cat(a, b), c) = Cat(a, Cat(b, c))
  BY ConcatAssociative DEF Cat

LEMMA CatSplitOnce ==
    ASSUME NEW S, NEW a \in Seq(S), NEW c \in S, NEW b \in Seq(S), c \notin Range(a)
    PROVE  split_once(Cat(Cat(a, Mark(c)), b), c) = {<<a, b>>}
  BY SplitOnce DEF Cat, Mark

LEMMA CatRsplitOnce ==
    ASSUME NEW S, NEW a \in Seq(S), NEW c \in S, NEW b \in Seq(S), c \notin Range(b)
    PROVE  rsplit_once(Cat(Cat(a, Mark(c)), b), c) = {<<a, b>>}
  BY RsplitOnce DEF Cat, Mark

\* An optional part, with the character before it.
Opt(mark, o) == IF o = {} THEN <<>> ELSE Cat(Mark(mark), CHOOSE t \in o : TRUE)

LEMMA OptIs ==
    ASSUME NEW S, NEW mark \in S, NEW o \in Options(S)
    PROVE  /\ Opt(mark, o) \in Seq(S)
           /\ o = {} => Opt(mark, o) = <<>>
           /\ \A t \in o : t \in Seq(S) /\ o = {t} /\ Opt(mark, o) = Cat(Mark(mark), t)
           /\ Range(Opt(mark, o)) \subseteq {mark} \cup UNION {Range(t) : t \in o}
  <1>1. CASE o = {}
    <2>1. Opt(mark, o) = <<>>
      BY <1>1 DEF Opt
    <2>2. <<>> \in Seq(S) /\ Range(<<>>) = {}
      BY DEF Range
    <2> QED
      BY <1>1, <2>1, <2>2
  <1>2. CASE o # {}
    <2>1. PICK t \in Seq(S) : o = {t}
      BY <1>2 DEF Options
    <2>2. (CHOOSE u \in o : TRUE) = t
      BY <2>1
    <2>3. Opt(mark, o) = Cat(Mark(mark), t)
      BY <1>2, <2>2 DEF Opt
    <2>4. Mark(mark) \in Seq(S) /\ Range(Mark(mark)) = {mark}
      BY MarkText
    <2>5. Cat(Mark(mark), t) \in Seq(S) /\ Range(Cat(Mark(mark), t)) = Range(Mark(mark)) \cup Range(t)
      BY <2>4, CatText
    <2>6. Range(Opt(mark, o)) = {mark} \cup Range(t)
      BY <2>3, <2>4, <2>5, Zenon
    <2> QED
      BY <2>1, <2>3, <2>5, <2>6, Zenon
  <1> QED
    BY <1>1, <1>2

\* A text with an optional part is that text, or has the part after its mark.
LEMMA WithOption ==
    ASSUME NEW S, NEW a \in Seq(S), NEW mark \in S, NEW o \in Options(S)
    PROVE  /\ Cat(a, Opt(mark, o)) \in Seq(S)
           /\ o = {} => Cat(a, Opt(mark, o)) = a
           /\ \A t \in o : Cat(a, Opt(mark, o)) = Cat(Cat(a, Mark(mark)), t)
           /\ Range(Cat(a, Opt(mark, o))) \subseteq Range(a) \cup {mark} \cup UNION {Range(t) : t \in o}
  <1>1. /\ Opt(mark, o) \in Seq(S)
        /\ o = {} => Opt(mark, o) = <<>>
        /\ \A t \in o : t \in Seq(S) /\ o = {t} /\ Opt(mark, o) = Cat(Mark(mark), t)
        /\ Range(Opt(mark, o)) \subseteq {mark} \cup UNION {Range(t) : t \in o}
    BY OptIs, Zenon
  <1>2. o = {} => Cat(a, Opt(mark, o)) = a
    BY <1>1, CatEmpty, Zenon
  <1>3. ASSUME NEW t \in o PROVE Cat(a, Opt(mark, o)) = Cat(Cat(a, Mark(mark)), t)
    <2>1. Mark(mark) \in Seq(S)
      BY MarkText, Zenon
    <2>2. t \in Seq(S) /\ Opt(mark, o) = Cat(Mark(mark), t)
      BY <1>1, Zenon
    <2>3. Cat(Cat(a, Mark(mark)), t) = Cat(a, Cat(Mark(mark), t))
      BY <2>1, <2>2, CatAssociative
    <2> QED
      BY <2>2, <2>3, Zenon
  <1>4. /\ Cat(a, Opt(mark, o)) \in Seq(S)
        /\ Range(Cat(a, Opt(mark, o))) = Range(a) \cup Range(Opt(mark, o))
    BY <1>1, CatText
  <1>5. Range(Cat(a, Opt(mark, o))) \subseteq Range(a) \cup {mark} \cup UNION {Range(t) : t \in o}
    BY <1>1, <1>4, Zenon
  <1> QED
    BY <1>2, <1>3, <1>4, <1>5, Zenon

\* The texts between the delimiters of a URI.
Delimiters == {":", "@", "/", "?"}
UserText(parts) == Cat(parts.user, Opt(":", parts.password))
HostText(parts) == Cat(parts.host, Opt(":", parts.port))
DatabaseText(parts) == Cat(parts.database, Opt("?", parts.params))
After(parts) == Cat(Cat(HostText(parts), Mark("/")), DatabaseText(parts))

LEMMA WrittenIs ==
    ASSUME NEW S, Delimiters \subseteq S, NEW parts \in UriParts(S)
    PROVE  /\ UserText(parts) \in Seq(S) /\ HostText(parts) \in Seq(S) /\ DatabaseText(parts) \in Seq(S)
           /\ Written(parts).scheme = parts.scheme
           /\ Written(parts).rest = Cat(Cat(UserText(parts), Mark("@")), After(parts))
  <1>1. /\ parts.user \in Seq(S) /\ parts.host \in Seq(S) /\ parts.database \in Seq(S)
        /\ parts.password \in Options(S) /\ parts.port \in Options(S) /\ parts.params \in Options(S)
    BY DEF UriParts
  <1>2. ":" \in S /\ "@" \in S /\ "/" \in S /\ "?" \in S
    BY DEF Delimiters
  <1> DEFINE w == Opt(":", parts.password)
             h == parts.host
             p == Opt(":", parts.port)
             d == parts.database
             q == Opt("?", parts.params)
             at == Mark("@")
             k == Mark("/")
             x == Cat(Cat(parts.user, w), at)
  <1>3. Written(parts).scheme = parts.scheme /\ Written(parts).rest = Cat(Cat(Cat(Cat(Cat(x, h), p), k), d), q)
    BY DEF Written, Opt, Cat, Mark
  <1>4. w \in Seq(S) /\ p \in Seq(S) /\ q \in Seq(S)
    BY <1>1, <1>2, OptIs
  <1>5. at \in Seq(S) /\ k \in Seq(S)
    BY <1>2, MarkText
  <1>6. UserText(parts) \in Seq(S) /\ HostText(parts) \in Seq(S) /\ DatabaseText(parts) \in Seq(S)
    BY <1>1, <1>2, WithOption DEF UserText, HostText, DatabaseText
  <1>7. x \in Seq(S)
    BY <1>5, <1>6, CatText DEF UserText
  <1>8. h \in Seq(S) /\ d \in Seq(S)
    BY <1>1
  <1> HIDE DEF w, h, p, d, q, at, k, x
  <1>9. Cat(Cat(Cat(Cat(Cat(x, h), p), k), d), q) = Cat(x, Cat(Cat(Cat(h, p), k), Cat(d, q)))
    <2> DEFINE y == Cat(Cat(h, p), k)
    <2>1. Cat(h, p) \in Seq(S) /\ Cat(Cat(x, h), p) = Cat(x, Cat(h, p))
      BY <1>4, <1>7, <1>8, CatText, CatAssociative
    <2>2. y \in Seq(S) /\ Cat(Cat(x, Cat(h, p)), k) = Cat(x, y)
      BY <1>5, <1>7, <2>1, CatText, CatAssociative
    <2> HIDE DEF y
    <2>3. Cat(y, d) \in Seq(S) /\ Cat(Cat(x, y), d) = Cat(x, Cat(y, d))
      BY <1>7, <1>8, <2>2, CatText, CatAssociative
    <2>4. Cat(Cat(x, Cat(y, d)), q) = Cat(x, Cat(Cat(y, d), q))
      BY <1>4, <1>7, <2>3, CatAssociative
    <2>5. Cat(Cat(y, d), q) = Cat(y, Cat(d, q))
      BY <1>4, <1>8, <2>2, CatAssociative
    <2> QED
      BY <2>1, <2>2, <2>3, <2>4, <2>5, Zenon DEF y
  <1> QED
    BY <1>3, <1>6, <1>9 DEF w, h, p, d, q, at, k, x, UserText, HostText, DatabaseText, After

Passwords(parts) ==
    IF parts.password = {} THEN {{}}
    ELSE {{t} : t \in UNION {decode_component(r) : r \in parts.password}}

LEMMA UserInfoIs ==
    ASSUME NEW S, Delimiters \subseteq S, NEW parts \in UriParts(S), Grammatical(parts)
    PROVE  UserInfo(UserText(parts)) =
               {<<u, w>> : u \in decode_component(parts.user), w \in Passwords(parts)}
  <1>1. /\ parts.user \in Seq(S) /\ parts.password \in Options(S) /\ ":" \notin Range(parts.user)
        /\ ":" \in S
    BY DEF UriParts, Grammatical, Delimiters
  <1> DEFINE a == UserText(parts)
  <1>2. CASE parts.password = {}
    <2>1. a = parts.user
      BY <1>1, <1>2, WithOption DEF UserText
    <2>2. split_once(a, ":") = {}
      BY <1>1, <2>1, SplitNowhere
    <2>3. UserInfo(a) = {<<u, {}>> : u \in decode_component(parts.user)}
      BY <2>1, <2>2 DEF UserInfo
    <2>4. Passwords(parts) = {{}}
      BY <1>2 DEF Passwords
    <2> QED
      BY <2>3, <2>4
  <1>3. CASE parts.password # {}
    <2>1. PICK t \in Seq(S) : parts.password = {t}
      BY <1>1, <1>3 DEF Options
    <2>2. a = Cat(Cat(parts.user, Mark(":")), t)
      BY <1>1, <2>1, WithOption DEF UserText
    <2>3. split_once(a, ":") = {<<parts.user, t>>}
      BY <1>1, <2>1, <2>2, CatSplitOnce
    <2>4. ":" \notin Range(t)
      BY <2>1 DEF Grammatical
    <2> DEFINE both == {<<parts.user, t>>}
               Fst(o) == UNION {decode_component(s[1]) : s \in o}
               Snd(o) == UNION {decode_component(s[2]) : s \in {x \in o : ":" \notin Range(x[2])}}
               fst == Fst(both)
               snd == Snd(both)
    <2>5. fst = decode_component(parts.user)
      OBVIOUS
    <2>6. {x \in both : ":" \notin Range(x[2])} = both
      BY <2>4
    <2>7. snd = decode_component(t)
      <3>1. UNION {decode_component(s[2]) : s \in both} = decode_component(t)
        OBVIOUS
      <3> HIDE DEF both
      <3> QED
        BY <2>6, <3>1
    <2>8. UserInfo(a) = {<<u, {p}>> : u \in fst, p \in snd}
      <3>1. both # {} /\ split_once(a, ":") = both
        BY <2>3
      <3> DEFINE P(o) == IF o = {} THEN {<<u, {}>> : u \in decode_component(a)}
                         ELSE {<<u, {p}>> : u \in Fst(o), p \in Snd(o)}
      <3>2. UserInfo(a) = P(split_once(a, ":"))
        BY DEF UserInfo
      <3>3. P(both) = {<<u, {p}>> : u \in fst, p \in snd}
        <4>1. both # {}
          BY <3>1
        <4> HIDE DEF both, Fst, Snd
        <4> QED
          BY <4>1
      <3> HIDE DEF P, both, fst, snd
      <3> QED
        BY <3>1, <3>2, <3>3
    <2>9. Passwords(parts) = {{p} : p \in decode_component(t)}
      BY <2>1 DEF Passwords
    <2> HIDE DEF fst, snd, a
    <2> QED
      BY <2>5, <2>7, <2>8, <2>9 DEF a
  <1> QED
    BY <1>2, <1>3

PortNumbers(parts) ==
    IF parts.port = {} THEN {5432} ELSE UNION {ParsePort(t) : t \in parts.port}

LEMMA HostPortIs ==
    ASSUME NEW S, Delimiters \subseteq S, NEW parts \in UriParts(S), Grammatical(parts)
    PROVE  HostPort(HostText(parts)) = {<<parts.host, p>> : p \in PortNumbers(parts)}
  <1>1. /\ parts.host \in Seq(S) /\ parts.port \in Options(S) /\ ":" \notin Range(parts.host)
        /\ ":" \in S
    BY DEF UriParts, Grammatical, Delimiters
  <1> DEFINE a == HostText(parts)
  <1>2. CASE parts.port = {}
    <2>1. a = parts.host
      BY <1>1, <1>2, WithOption DEF HostText
    <2>2. rsplit_once(a, ":") = {}
      BY <1>1, <2>1, SplitNowhere
    <2>3. HostPort(a) = {<<parts.host, 5432>>}
      BY <2>1, <2>2 DEF HostPort
    <2>4. PortNumbers(parts) = {5432}
      BY <1>2 DEF PortNumbers
    <2> QED
      BY <2>3, <2>4
  <1>3. CASE parts.port # {}
    <2>1. PICK t \in Seq(S) : parts.port = {t}
      BY <1>1, <1>3 DEF Options
    <2>2. a = Cat(Cat(parts.host, Mark(":")), t)
      BY <1>1, <2>1, WithOption DEF HostText
    <2>3. ":" \notin Range(t)
      BY <2>1 DEF Grammatical
    <2>4. rsplit_once(a, ":") = {<<parts.host, t>>}
      BY <1>1, <2>1, <2>2, <2>3, CatRsplitOnce
    <2> DEFINE both == {<<parts.host, t>>}
    <2>5. UNION {{<<s[1], p>> : p \in ParsePort(s[2])} : s \in both} = {<<parts.host, p>> : p \in ParsePort(t)}
      OBVIOUS
    <2>6. HostPort(a) = {<<parts.host, p>> : p \in ParsePort(t)}
      <3>1. both # {} /\ rsplit_once(a, ":") = both
        BY <2>4
      <3> HIDE DEF both, a
      <3> QED
        BY <2>5, <3>1 DEF HostPort
    <2>7. PortNumbers(parts) = ParsePort(t)
      BY <2>1 DEF PortNumbers
    <2> QED
      BY <2>6, <2>7
  <1> QED
    BY <1>2, <1>3

LEMMA DatabaseNameIs ==
    ASSUME NEW S, Delimiters \subseteq S, NEW parts \in UriParts(S), Grammatical(parts)
    PROVE  DatabaseName(DatabaseText(parts)) = decode_component(parts.database)
  <1>1. /\ parts.database \in Seq(S) /\ parts.params \in Options(S) /\ "?" \notin Range(parts.database)
        /\ "?" \in S
    BY DEF UriParts, Grammatical, Delimiters
  <1> DEFINE a == DatabaseText(parts)
  <1>2. CASE parts.params = {}
    <2>1. a = parts.database
      BY <1>1, <1>2, WithOption DEF DatabaseText
    <2>2. split_once(a, "?") = {}
      BY <1>1, <2>1, SplitNowhere
    <2> QED
      BY <2>1, <2>2 DEF DatabaseName
  <1>3. CASE parts.params # {}
    <2>1. PICK t \in Seq(S) : parts.params = {t}
      BY <1>1, <1>3 DEF Options
    <2>2. a = Cat(Cat(parts.database, Mark("?")), t)
      BY <1>1, <2>1, WithOption DEF DatabaseText
    <2>3. split_once(a, "?") = {<<parts.database, t>>}
      BY <1>1, <2>1, <2>2, CatSplitOnce
    <2> DEFINE both == {<<parts.database, t>>}
    <2>4. both # {} /\ {s[1] : s \in both} = {parts.database} /\ split_once(a, "?") = both
      BY <2>3
    <2> HIDE DEF a, both
    <2>5. DatabaseName(a) = UNION {decode_component(x) : x \in {parts.database}}
      BY <2>4 DEF DatabaseName
    <2> QED
      BY <2>5 DEF a
  <1> QED
    BY <1>2, <1>3

\* ReadAsWritten: parse_uri splits at the last at sign, the first slash, the first question
\* mark and single colons, before it decodes the parts.  For every user, password, host, port,
\* database name and parameters, of any length, it finds exactly the parts the URI was written
\* from, whatever delimiters they contain that do not end them, and it makes no pool when the
\* database name is empty.
THEOREM UrisAreReadAsWritten ==
    \A S : Delimiters \subseteq S => \A parts \in UriParts(S) : ReadAsWritten(parts)
  <1> SUFFICES ASSUME NEW S, Delimiters \subseteq S, NEW parts \in UriParts(S), Grammatical(parts)
               PROVE  from_uri(Written(parts)) = Meant(parts)
    BY DEF ReadAsWritten
  <1> DEFINE uri == Written(parts)
             a == UserText(parts)
             h == HostText(parts)
             d == DatabaseText(parts)
             after == After(parts)
  <1>1. /\ a \in Seq(S) /\ h \in Seq(S) /\ d \in Seq(S)
        /\ uri.scheme = parts.scheme /\ uri.rest = Cat(Cat(a, Mark("@")), after)
    BY WrittenIs
  <1>2. /\ parts.host \in Seq(S) /\ parts.database \in Seq(S)
        /\ parts.port \in Options(S) /\ parts.params \in Options(S)
        /\ ":" \in S /\ "@" \in S /\ "/" \in S /\ "?" \in S
        /\ parts.scheme \in {"postgres", "postgresql"}
    BY DEF UriParts, Delimiters
  <1>3. Range(h) \subseteq Range(parts.host) \cup {":"} \cup UNION {Range(t) : t \in parts.port}
    BY <1>2, WithOption DEF HostText
  <1>4. Range(d) \subseteq Range(parts.database) \cup {"?"} \cup UNION {Range(t) : t \in parts.params}
    BY <1>2, WithOption DEF DatabaseText
  <1>5. "@" \notin Range(h) /\ "/" \notin Range(h) /\ "@" \notin Range(d)
    BY <1>3, <1>4 DEF Grammatical
  <1>6. after = Cat(Cat(h, Mark("/")), d)
    BY DEF After
  <1> HIDE DEF uri, a, h, d, after
  <1>7. after \in Seq(S) /\ "@" \notin Range(after)
    <2> DEFINE k == Mark("/")
    <2>1. k \in Seq(S) /\ Range(k) = {"/"}
      BY <1>2, MarkText
    <2> HIDE DEF k
    <2>2. Cat(h, k) \in Seq(S) /\ Range(Cat(h, k)) = Range(h) \cup {"/"}
      BY <1>1, <2>1, CatText
    <2>3. after \in Seq(S) /\ Range(after) = Range(h) \cup {"/"} \cup Range(d)
      <3>1. Cat(Cat(h, k), d) \in Seq(S) /\ Range(Cat(Cat(h, k), d)) = Range(Cat(h, k)) \cup Range(d)
        BY <1>1, <2>2, CatText
      <3> QED
        BY <1>6, <2>2, <3>1 DEF k
    <2> QED
      BY <1>5, <2>3
  <1>8. split_once(after, "/") = {<<h, d>>}
    BY <1>1, <1>2, <1>5, <1>6, CatSplitOnce
  <1>9. rsplit_once(uri.rest, "@") = {<<a, after>>}
    BY <1>1, <1>2, <1>7, CatRsplitOnce
  <1> DEFINE U == {<<u, w>> : u \in decode_component(parts.user), w \in Passwords(parts)}
             H == {<<parts.host, p>> : p \in PortNumbers(parts)}
             D == decode_component(parts.database)
             Uri(u, i, n) == [user |-> u[1], password |-> u[2], host |-> i[1], port |-> i[2],
                              database |-> n]
  <1>10. UserInfo(a) = U /\ HostPort(h) = H /\ DatabaseName(d) = D
    BY UserInfoIs, HostPortIs, DatabaseNameIs DEF a, h, d
  <1>11. parse_uri(uri) = {Uri(u, i, n) : u \in U, i \in H, n \in D}
    <2>1. parse_uri(uri) =
              UNION {UNION {Parsed(at[1], slash[1], slash[2]) : slash \in split_once(at[2], "/")}
                     : at \in {<<a, after>>}}
      BY <1>1, <1>2, <1>9 DEF parse_uri
    <2>2. parse_uri(uri) = UNION {Parsed(a, slash[1], slash[2]) : slash \in {<<h, d>>}}
      BY <1>8, <2>1
    <2>3. parse_uri(uri) = Parsed(a, h, d)
      BY <2>2
    <2>4. Parsed(a, h, d) = {Uri(u, i, n) : u \in UserInfo(a), i \in HostPort(h), n \in DatabaseName(d)}
      BY DEF Parsed
    <2> HIDE DEF Uri, U, H, D
    <2> QED
      BY <1>10, <2>3, <2>4
  <1> DEFINE Made(p) == [host |-> p.host, port |-> p.port, user |-> p.user, password |-> p.password,
                         dbname |-> p.database, connect_timeout |-> {}]
             Pooled(p, u, n, w) == [host |-> parts.host, port |-> p, user |-> u, password |-> w,
                                    dbname |-> n, connect_timeout |-> {}]
  <1>12. from_uri(uri) = UNION {create_pool(Made(x)) : x \in parse_uri(uri)}
    BY DEF from_uri
  <1>13. Meant(parts) = {Pooled(p, u, n, w) : p \in PortNumbers(parts), u \in decode_component(parts.user),
                                              n \in D \ {<<>>}, w \in Passwords(parts)}
    BY DEF Meant, PortNumbers, Passwords
  <1>14. \A u, w, p, n : Made(Uri(<<u, w>>, <<parts.host, p>>, n)) = Pooled(p, u, n, w)
    OBVIOUS
  <1>15. \A p, u, n, w : create_pool(Pooled(p, u, n, w)) = IF n = <<>> THEN {} ELSE {Pooled(p, u, n, w)}
    BY DEF create_pool
  <1> HIDE DEF Made, Uri, Pooled, D
  <1>16. \A y \in from_uri(uri) : y \in Meant(parts)
    <2> TAKE y \in from_uri(uri)
    <2>1. PICK u \in U, i \in H, n \in D : y \in create_pool(Made(Uri(u, i, n)))
      BY <1>11, <1>12
    <2>2. PICK v \in decode_component(parts.user), w \in Passwords(parts) : u = <<v, w>>
      OBVIOUS
    <2>3. PICK p \in PortNumbers(parts) : i = <<parts.host, p>>
      OBVIOUS
    <2>4. y = Pooled(p, v, n, w) /\ n # <<>>
      BY <1>14, <1>15, <2>1, <2>2, <2>3
    <2> QED
      BY <1>13, <2>4
  <1>17. \A y \in Meant(parts) : y \in from_uri(uri)
    <2> TAKE y \in Meant(parts)
    <2>1. PICK p \in PortNumbers(parts), u \in decode_component(parts.user), n \in D \ {<<>>},
               w \in Passwords(parts) : y = Pooled(p, u, n, w)
      BY <1>13
    <2>2. <<u, w>> \in U /\ <<parts.host, p>> \in H
      OBVIOUS
    <2>3. Uri(<<u, w>>, <<parts.host, p>>, n) \in parse_uri(uri)
      BY <1>11, <2>2
    <2>4. y \in create_pool(Made(Uri(<<u, w>>, <<parts.host, p>>, n)))
      BY <1>14, <1>15, <2>1
    <2> QED
      BY <1>12, <2>3, <2>4
  <1> QED
    BY <1>16, <1>17 DEF uri

=============================================================================
