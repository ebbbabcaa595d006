--------------------------- MODULE RecoveryProofs ---------------------------
(***************************************************************************)
(* Theorems about Recovery, for strategies nested to any depth, any number *)
(* of fallbacks and attempts, every backoff, and every answer of the       *)
(* operation and of the circuit breaker: a success is final, the runs stay *)
(* within the budget of the strategies, and the delays within the backoff. *)
(***************************************************************************)
EXTENDS Recovery, SequenceTheorems, WellFoundedInduction, TLAPS

Frames == [s : Strategies, n : Nat, has_failure : BOOLEAN, last_error : Errors \cup {"None"}]

Typed ==
    /\ executor \in Executors /\ pc \in {"primary", "breaker", "fallbacks", "done", "panicked"}
    /\ tried \in 0 .. Len(executor.fallbacks)
    /\ stack \in Seq(Frames)
    /\ running \in BOOLEAN /\ won \in BOOLEAN

\* Every strategy under way but the innermost is a composite, and so is the innermost while it
\* holds the outcome of a part; only the innermost of another kind runs the operation.
Nesting ==
    /\ \A i \in 1 .. Len(stack) - 1 : stack[i].s.kind = "Composite"
    /\ stack # <<>> /\ returned # NoOutcome => stack[Len(stack)].s.kind = "Composite"
    /\ running => /\ stack # <<>> /\ returned = NoOutcome
                  /\ stack[Len(stack)].s.kind # "Composite"
    /\ pc \in {"breaker", "done", "panicked"} => stack = <<>>

Wins == {Success(r) : r \in VERIFIED}

\* A success is on its way up through the composites, or is the outcome of the call.
Carried ==
    won => /\ ~running
           /\ \/ pc \in {"primary", "fallbacks"} /\ returned \in Wins
              \/ pc = "done" /\ outcome \in Wins

Inv == Typed /\ Nesting /\ Carried

-----------------------------------------------------------------------------
\* The stack

\* A new frame is a frame.
LEMMA FrameTyped ==
    ASSUME NEW s \in Strategies
    PROVE  Frame(s) \in Frames /\ Frame(s).s = s
  BY DEF Frame, Frames

\* The innermost frame is a frame, and its strategy a strategy.
LEMMA TopTyped ==
    ASSUME Typed, Busy
    PROVE  /\ Len(stack) \in Nat \ {0} /\ top \in Frames /\ top = stack[Len(stack)]
           /\ top.s \in Strategies /\ top.s.parts \in Seq(Strategies) /\ top.s.max_attempts \in Nat
  <1>1. Len(stack) \in Nat \ {0} /\ stack[Len(stack)] \in Frames
    BY LenProperties, EmptySeq DEF Typed, Busy
  <1> QED
    BY <1>1, StrategiesAssumption DEF top, Last, Frames

\* What is left when the innermost strategy returns are composites.
LEMMA Popped ==
    ASSUME Typed, Nesting, Busy, NEW o, Return(o)
    PROVE  /\ stack' \in Seq(Frames) /\ returned' = o /\ Len(stack') = Len(stack) - 1
           /\ \A i \in 1 .. Len(stack) - 1 : stack'[i] = stack[i]
           /\ \A i \in 1 .. Len(stack') : stack'[i].s.kind = "Composite"
  <1>1. stack \in Seq(Frames) /\ Len(stack) \in Nat \ {0} /\ stack' = SubSeq(stack, 1, Len(stack) - 1)
    BY TopTyped DEF Typed, Return, Front
  <1>2. \A i \in 1 .. Len(stack) - 1 : stack[i].s.kind = "Composite"
    BY DEF Nesting
  <1>3. CASE Len(stack) = 1
    <2>1. stack' = <<>>
      BY <1>1, <1>3, SubSeqEmpty
    <2> QED
      BY <1>3, <2>1, EmptySeq DEF Return
  <1>4. CASE Len(stack) > 1
    <2>1. /\ stack' \in Seq(Frames) /\ Len(stack') = Len(stack) - 1
          /\ \A i \in 1 .. Len(stack) - 1 : stack'[i] = stack[i]
      BY <1>1, <1>4
    <2> QED
      BY <1>1, <1>2, <2>1 DEF Return
  <1>5. Len(stack) = 1 \/ Len(stack) > 1
    <2>1. \A n \in Nat \ {0} : n = 1 \/ n > 1
      OBVIOUS
    <2> QED
      BY <2>1, TopTyped
  <1> QED
    BY <1>3, <1>4, <1>5

\* An update of the innermost frame keeps the strategies.
LEMMA Updated ==
    ASSUME Typed, Busy, NEW frame \in Frames, frame.s = top.s, Update(frame)
    PROVE  /\ stack' \in Seq(Frames) /\ Len(stack') = Len(stack) /\ returned' = returned
           /\ \A i \in 1 .. Len(stack) : stack'[i].s = stack[i].s
           /\ \A i \in 1 .. Len(stack) : stack'[i] = IF i = Len(stack) THEN frame ELSE stack[i]
  <1>1. stack \in Seq(Frames) /\ Len(stack) \in Nat \ {0} /\ top = stack[Len(stack)]
    BY TopTyped DEF Typed
  <1>2. stack' = [stack EXCEPT ![Len(stack)] = frame] /\ returned' = returned
    BY DEF Update
  <1>3. /\ stack' \in Seq(Frames) /\ Len(stack') = Len(stack)
        /\ \A i \in 1 .. Len(stack) : stack'[i] = IF i = Len(stack) THEN frame ELSE stack[i]
    BY <1>1, <1>2, ExceptSeq
  <1> QED
    BY <1>1, <1>2, <1>3

-----------------------------------------------------------------------------
\* Steps within a strategy

\* A strategy that is active has no success to carry.
LEMMA NotWonYet ==
    ASSUME Inv, Busy, running \/ returned = NoOutcome
    PROVE  ~won
  BY DEF Inv, Nesting, Carried, Busy, Wins, Success, NoOutcome

\* The strategy in the innermost frame goes on, perhaps with the operation.
LEMMA UpdateKeeps ==
    ASSUME Inv, Busy, NEW frame \in Frames, frame.s = top.s, Update(frame), ~won,
           UNCHANGED <<executor, pc, tried>>, won' = won,
           running' \in BOOLEAN, running' => returned = NoOutcome /\ top.s.kind # "Composite"
    PROVE  Inv'
  <1>1. /\ stack' \in Seq(Frames) /\ Len(stack') = Len(stack) /\ returned' = returned
        /\ \A i \in 1 .. Len(stack) : stack'[i].s = stack[i].s
    BY Updated DEF Inv
  <1>2. Len(stack) \in Nat \ {0} /\ top = stack[Len(stack)] /\ stack' # <<>>
    BY <1>1, TopTyped, EmptySeq DEF Inv
  <1>3. Typed'
    BY <1>1 DEF Inv, Typed
  <1>4. Nesting'
    BY <1>1, <1>2 DEF Inv, Nesting, Busy
  <1> QED
    BY <1>3, <1>4 DEF Inv, Carried

\* The innermost strategy returns; if the operation has succeeded, with that success.
LEMMA ReturnKeeps ==
    ASSUME Inv, Busy, NEW o, Return(o), UNCHANGED <<executor, pc, tried>>,
           running' = FALSE, won' \in BOOLEAN, won' => o \in Wins
    PROVE  Inv'
  <1>1. /\ stack' \in Seq(Frames) /\ returned' = o
        /\ \A i \in 1 .. Len(stack') : stack'[i].s.kind = "Composite"
    BY Popped DEF Inv
  <1>2. Len(stack') \in Nat /\ (stack' # <<>> => Len(stack') \in 1 .. Len(stack'))
    BY <1>1, LenProperties, EmptySeq
  <1>3. pc \notin {"breaker", "done", "panicked"}
    BY DEF Inv, Nesting, Busy
  <1>4. Typed'
    BY <1>1 DEF Inv, Typed
  <1>5. Nesting'
    BY <1>1, <1>2, <1>3 DEF Nesting
  <1>6. Carried'
    BY <1>1, <1>3 DEF Inv, Typed, Carried
  <1> QED
    BY <1>4, <1>5, <1>6 DEF Inv

\* The steps of the strategies that start the operation or wait for its breaker.
LEMMA StartKeeps ==
    ASSUME Inv, Attempt \/ NextInChain \/ Allowed \/ RunProtected \/ RunTimed
    PROVE  Inv'
  <1>1. Busy /\ returned = NoOutcome /\ ~running /\ top.s.kind # "Composite"
    BY DEF Attempt, NextInChain, Allowed, RunProtected, RunTimed, Active
  <1>2. top \in Frames /\ ~won
    BY <1>1, TopTyped, NotWonYet DEF Inv
  <1>3. CASE RunTimed
    <2>1. /\ UNCHANGED <<executor, pc, tried, stack, returned, outcome, won>> /\ running' = TRUE
      BY <1>3 DEF RunTimed, Start
    <2>2. Typed'
      BY <2>1 DEF Inv, Typed
    <2>3. Nesting'
      BY <1>1, <2>1, TopTyped DEF Inv, Nesting, Busy
    <2> QED
      BY <1>2, <2>1, <2>2, <2>3 DEF Inv, Carried
  <1>4. CASE Attempt \/ NextInChain \/ Allowed \/ RunProtected
    <2>1. PICK n \in Nat : Update([top EXCEPT !.n = n])
      <3>1. top.n + 1 \in Nat
        BY <1>2 DEF Frames
      <3>2. CASE Attempt \/ NextInChain
        <4>1. Update([top EXCEPT !.n = top.n + 1])
          BY <3>2 DEF Attempt, NextInChain
        <4> QED
          BY <3>1, <4>1
      <3>3. CASE Allowed
        BY <3>3 DEF Allowed
      <3>4. CASE RunProtected
        BY <3>4 DEF RunProtected
      <3> QED
        BY <1>4, <3>2, <3>3, <3>4
    <2>2. [top EXCEPT !.n = n] \in Frames /\ [top EXCEPT !.n = n].s = top.s
      BY <1>2 DEF Frames
    <2>3. UNCHANGED <<executor, pc, tried>> /\ won' = won /\ running' \in BOOLEAN
      BY <1>1, <1>4 DEF Attempt, NextInChain, Allowed, RunProtected, Start, Quiet, Inv, Typed
    <2> QED
      BY <1>1, <1>2, <2>1, <2>2, <2>3, UpdateKeeps
  <1> QED
    BY <1>3, <1>4

\* The steps of the strategies that give up without the operation.
LEMMA GiveUpKeeps ==
    ASSUME Inv, GiveUp \/ Exhausted \/ Refused
    PROVE  Inv'
  <1>1. Busy /\ returned = NoOutcome /\ ~running
    BY DEF GiveUp, Exhausted, Refused, Active
  <1>2. ~won
    BY <1>1, NotWonYet
  <1>3. PICK o : Return(o)
    BY DEF GiveUp, Exhausted, Refused
  <1>4. UNCHANGED <<executor, pc, tried>> /\ running' = FALSE /\ won' = FALSE
    BY <1>1, <1>2 DEF GiveUp, Exhausted, Refused, Quiet, Inv, Typed
  <1> QED
    BY <1>1, <1>3, <1>4, ReturnKeeps

\* A panic leaves no strategy under way, and comes before any success.
LEMMA PanicKeeps ==
    ASSUME Inv, Panics
    PROVE  Inv'
  <1>1. Busy /\ returned = NoOutcome /\ ~running /\ stack' = <<>> /\ pc' = "panicked"
        /\ UNCHANGED <<executor, tried, running, returned, won>>
    BY DEF Panics, Active
  <1>2. ~won
    BY <1>1, NotWonYet
  <1>3. Typed'
    BY <1>1, EmptySeq DEF Inv, Typed
  <1>4. Nesting'
    BY <1>1, EmptySeq DEF Nesting
  <1> QED
    BY <1>1, <1>2, <1>3, <1>4 DEF Inv, Carried

\* The operation ends, whatever it returns, or is dropped.
LEMMA EndKeeps ==
    ASSUME Inv, OperationEnds \/ TimesOut
    PROVE  Inv'
  <1>1. PICK r \in Results \cup OpErrors \cup {"Timeout"} :
            AttemptEnds(r) \/ ChainEnds(r) \/ WrappedEnds(r) \/ (r = "Timeout" /\ TimesOut)
    BY DEF OperationEnds
  <1>2. /\ Busy /\ End(r) /\ running
    BY <1>1 DEF AttemptEnds, ChainEnds, WrappedEnds, TimesOut, End
  <1>3. ~won /\ top \in Frames /\ returned = NoOutcome
    BY <1>2, NotWonYet, TopTyped DEF Inv, Nesting
  <1>4. /\ UNCHANGED <<executor, pc, tried>> /\ running' = FALSE /\ won' = (r \in VERIFIED)
    BY <1>2, <1>3 DEF End, Inv, Typed
  <1>5. CASE r \in VERIFIED
    <2>1. Return(Success(r))
      BY <1>1, <1>5 DEF AttemptEnds, ChainEnds, WrappedEnds, TimesOut, VERIFIED, Results
    <2> QED
      BY <1>2, <1>4, <1>5, <2>1, ReturnKeeps DEF Wins
  <1>6. CASE r \notin VERIFIED
    <2>1. (\E o : Return(o)) \/ \E frame \in Frames : frame.s = top.s /\ Update(frame)
      <3>1. CASE AttemptEnds(r)
        <4> DEFINE frame == [top EXCEPT !.has_failure = @ \/ r \in FAILED,
                                        !.last_error = IF r \in Results THEN "NotApplicable" ELSE r]
        <4>1. frame \in Frames /\ frame.s = top.s
          BY <1>3 DEF Frames, Errors, OpErrors
        <4>2. Return(GivenUp(frame)) \/ Update(frame)
          BY <1>6, <3>1 DEF AttemptEnds
        <4> QED
          BY <4>1, <4>2
      <3>2. CASE ChainEnds(r)
        BY <1>3, <1>6, <3>2 DEF ChainEnds
      <3>3. CASE WrappedEnds(r) \/ TimesOut
        BY <3>3 DEF WrappedEnds, TimesOut
      <3> QED
        BY <1>1, <3>1, <3>2, <3>3
    <2>2. won' = FALSE /\ won' = won
      BY <1>3, <1>4, <1>6 DEF Inv, Typed
    <2>3. ASSUME NEW o, Return(o) PROVE Inv'
      BY <1>2, <1>4, <2>2, <2>3, ReturnKeeps
    <2>4. ASSUME NEW frame \in Frames, frame.s = top.s, Update(frame) PROVE Inv'
      BY <1>2, <1>3, <1>4, <2>2, <2>4, UpdateKeeps
    <2> QED
      BY <2>1, <2>3, <2>4
  <1> QED
    BY <1>5, <1>6

-----------------------------------------------------------------------------
\* Composites and RecoveryExecutor::execute

\* A composite goes on to its next part: only when it holds no success.
LEMMA NextPartKeeps ==
    ASSUME Inv, NextPart
    PROVE  Inv'
  <1>1. /\ Busy /\ top.s.kind = "Composite" /\ ~running /\ top.n < Len(top.s.parts)
        /\ returned.tag # "Success" /\ returned' = NoOutcome
        /\ UNCHANGED <<executor, pc, tried, running, outcome, won>>
        /\ stack' = Append([stack EXCEPT ![Len(stack)].n = @ + 1], Frame(top.s.parts[top.n + 1]))
    BY DEF NextPart, Composing, Failed, Quiet
  <1>2. pc \notin {"breaker", "done", "panicked"} /\ ~won
    BY <1>1 DEF Inv, Nesting, Carried, Busy, Wins, Success
  <1>3. /\ stack \in Seq(Frames) /\ Len(stack) \in Nat \ {0} /\ top \in Frames
        /\ top = stack[Len(stack)] /\ top.s.parts \in Seq(Strategies)
    BY <1>1, TopTyped DEF Inv, Typed
  <1>4. top.n + 1 \in 1 .. Len(top.s.parts)
    BY <1>1, <1>3, LenProperties DEF Frames
  <1>5. top.s.parts[top.n + 1] \in Strategies
    BY <1>3, <1>4
  <1> DEFINE part == Frame(top.s.parts[top.n + 1])
             below == [stack EXCEPT ![Len(stack)].n = @ + 1]
  <1>6. part \in Frames
    BY <1>5, FrameTyped
  <1>7. /\ [top EXCEPT !.n = top.n + 1] \in Frames /\ [top EXCEPT !.n = top.n + 1].s = top.s
    <2>1. top.n + 1 \in Nat
      BY <1>3 DEF Frames
    <2> QED
      BY <1>3, <2>1 DEF Frames
  <1>8. below = [stack EXCEPT ![Len(stack)] = [top EXCEPT !.n = top.n + 1]]
    BY <1>3
  <1>9. /\ below \in Seq(Frames) /\ Len(below) = Len(stack)
        /\ \A i \in 1 .. Len(stack) :
               below[i] = IF i = Len(stack) THEN [top EXCEPT !.n = top.n + 1] ELSE stack[i]
    BY <1>3, <1>7, <1>8, ExceptSeq
  <1>10. \A i \in 1 .. Len(stack) : below[i].s = stack[i].s
    BY <1>3, <1>7, <1>9
  <1>11. \A i \in 1 .. Len(stack) : below[i].s.kind = "Composite"
    BY <1>1, <1>3, <1>10 DEF Inv, Nesting
  <1> HIDE DEF part, below
  <1>12. stack' = Append(below, part)
    BY <1>1 DEF part, below
  <1>13. /\ stack' \in Seq(Frames) /\ Len(stack') = Len(stack) + 1
         /\ \A i \in 1 .. Len(stack) : stack'[i] = below[i]
    BY <1>6, <1>9, <1>12, AppendProperties
  <1>14. Typed'
    BY <1>1, <1>13 DEF Inv, Typed
  <1>15. Nesting'
    <2>1. \A i \in 1 .. Len(stack') - 1 : stack'[i].s.kind = "Composite"
      <3>1. Len(stack') - 1 = Len(stack)
        BY <1>3, <1>13
      <3> QED
        BY <1>11, <1>13, <3>1
    <2> QED
      BY <1>1, <1>2, <2>1 DEF Nesting
  <1> QED
    BY <1>1, <1>2, <1>14, <1>15 DEF Inv, Carried

\* A composite returns: with the success of its part if it has one.
LEMMA EndCompositeKeeps ==
    ASSUME Inv, EndComposite
    PROVE  Inv'
  <1>1. /\ Busy /\ ~running /\ UNCHANGED <<executor, pc, tried>> /\ running' = FALSE /\ won' = won
        /\ Return(IF Failed THEN Failure("MaxAttemptsExceeded") ELSE returned)
    BY DEF EndComposite, Composing, Quiet, Inv, Typed
  <1>2. won => returned \in Wins /\ ~Failed
    BY <1>1 DEF Inv, Nesting, Carried, Busy, Wins, Success, Failed
  <1>3. won' \in BOOLEAN
    BY <1>1 DEF Inv, Typed
  <1> QED
    BY <1>1, <1>2, <1>3, ReturnKeeps

\* The steps of execute: the primary strategy has ended, the breaker is asked, the fallbacks.
LEMMA ExecuteKeeps ==
    ASSUME Inv, PrimaryEnds \/ BreakerAllows \/ BreakerRefuses \/ NextFallback \/ FallbackSucceeds
    PROVE  Inv'
  <1>1. /\ UNCHANGED <<executor, running, won>> /\ stack = <<>> /\ ~running
    BY DEF PrimaryEnds, BreakerAllows, BreakerRefuses, NextFallback, FallbackSucceeds, Idle, Busy,
           Inv, Nesting
  <1>2. Typed /\ Carried
    BY DEF Inv
  <1>3. CASE UNCHANGED stack
    <2>1. Typed'
      BY <1>1, <1>2, <1>3 DEF PrimaryEnds, BreakerAllows, BreakerRefuses, NextFallback,
         FallbackSucceeds, Finish, Typed
    <2>2. Nesting'
      BY <1>1, <1>3, EmptySeq DEF Nesting
    <2>3. Carried'
      BY <1>1, <1>2 DEF PrimaryEnds, BreakerAllows, BreakerRefuses, NextFallback, FallbackSucceeds,
         Finish, Carried, Failed, Wins, Success
    <2> QED
      BY <2>1, <2>2, <2>3 DEF Inv
  <1>4. CASE NextFallback /\ tried < Len(executor.fallbacks)
    <2>1. /\ stack' = <<Frame(executor.fallbacks[tried + 1])>> /\ tried' = tried + 1
          /\ pc = "fallbacks" /\ pc' = pc /\ returned' = NoOutcome /\ Failed
      BY <1>4 DEF NextFallback
    <2>2. executor.fallbacks \in Seq(Strategies)
      BY <1>2, ExecutorsAssumption DEF Typed
    <2>3. Len(executor.fallbacks) \in Nat /\ tried + 1 \in 1 .. Len(executor.fallbacks)
      BY <1>2, <1>4, <2>2, LenProperties DEF Typed
    <2>4. executor.fallbacks[tried + 1] \in Strategies
      BY <2>2, <2>3
    <2>5. Frame(executor.fallbacks[tried + 1]) \in Frames
      BY <2>4, FrameTyped
    <2>6. stack' \in Seq(Frames) /\ Len(stack') = 1
      BY <2>1, <2>5
    <2>7. ~won
      BY <1>2, <2>1 DEF Carried, Failed, Wins, Success
    <2>8. Typed'
      BY <1>1, <1>2, <2>1, <2>3, <2>6 DEF Typed
    <2>9. Nesting'
      BY <1>1, <2>1, <2>6 DEF Nesting
    <2> QED
      BY <1>1, <2>7, <2>8, <2>9 DEF Inv, Carried
  <1> QED
    BY <1>3, <1>4 DEF PrimaryEnds, BreakerAllows, BreakerRefuses, NextFallback, FallbackSucceeds

-----------------------------------------------------------------------------

\* The invariant holds at first.
LEMMA InitInv == Init => Inv
  <1> SUFFICES ASSUME Init PROVE Inv
    OBVIOUS
  <1>1. executor \in Executors /\ executor.primary \in Strategies /\ executor.fallbacks \in Seq(Strategies)
    BY ExecutorsAssumption DEF Init
  <1>2. Frame(executor.primary) \in Frames
    BY <1>1, FrameTyped
  <1>3. stack \in Seq(Frames) /\ Len(stack) = 1
    BY <1>2 DEF Init
  <1>4. Typed
    <2>1. Len(executor.fallbacks) \in Nat
      BY <1>1, LenProperties
    <2>2. tried \in 0 .. Len(executor.fallbacks)
      BY <2>1 DEF Init
    <2> QED
      BY <1>1, <1>3, <2>2 DEF Init, Typed
  <1>5. Nesting
    BY <1>3 DEF Init, Nesting
  <1> QED
    BY <1>4, <1>5 DEF Init, Inv, Carried

\* Every step keeps it.
LEMMA NextKeepsInv == Inv /\ [Next]_vars => Inv'
  <1> SUFFICES ASSUME Inv, [Next]_vars PROVE Inv'
    OBVIOUS
  <1>1. CASE UNCHANGED vars
    BY <1>1 DEF vars, Inv, Typed, Nesting, Carried
  <1>2. CASE Next
    BY <1>1, <1>2, StartKeeps, PanicKeeps, GiveUpKeeps, EndKeeps, NextPartKeeps, EndCompositeKeeps, ExecuteKeeps
       DEF Next, Done
  <1> QED
    BY <1>1, <1>2

\* SuccessEnds: once the operation has returned Verified or Duplicate, no retry, composite or
\* fallback of RecoveryExecutor::execute runs it again, and what execute_and_return makes of
\* the outcome is that success, however deep the strategy that ran it is nested.
THEOREM SuccessIsFinal == Spec => []SuccessEnds
  <1>1. Spec => []Inv
    BY InitInv, NextKeepsInv, PTL DEF Spec
  <1>2. Inv => SuccessEnds
    BY DEF Inv, Carried, SuccessEnds, execute_and_return, Wins, Success
  <1> QED
    BY <1>1, <1>2, PTL

-----------------------------------------------------------------------------
\* The budget of a list of strategies

Lists == Seq(Strategies)

\* A set of naturals has a least member, which is induction over the naturals.
LEMMA LeastNatural ==
    ASSUME NEW S, S \subseteq Nat, S # {}
    PROVE  \E m \in S : \A n \in S : m <= n
  <1>1. PICK m \in S : \A n \in S : ~(<<n, m>> \in OpToRel(<, Nat))
    BY WFMin, NatLessThanWellFounded, Zenon
  <1>2. \A n \in S : ~(n < m)
    BY <1>1 DEF OpToRel
  <1> QED
    BY <1>2

\* What a list that is not empty is made of.
LEMMA ListParts ==
    ASSUME NEW q \in Lists, q # <<>>
    PROVE  /\ Head(q) = q[1] /\ Head(q) \in Strategies /\ Head(q).parts \in Lists
           /\ Tail(q) \in Lists /\ Len(q) \in Nat \ {0} /\ Len(Tail(q)) = Len(q) - 1
           /\ \A i \in 1 .. Len(Tail(q)) : Tail(q)[i] = q[i + 1]
  <1>1. /\ Head(q) = q[1] /\ Head(q) \in Strategies /\ Tail(q) \in Lists /\ Len(q) \in Nat \ {0}
    BY HeadTailProperties, LenProperties, EmptySeq DEF Lists
  <1>2. /\ Len(Tail(q)) = Len(q) - 1 /\ \A i \in 1 .. Len(Tail(q)) : Tail(q)[i] = q[i + 1]
    BY HeadTailProperties DEF Lists
  <1>3. Head(q).parts \in Lists
    BY <1>1, StrategiesAssumption DEF Lists
  <1> QED
    BY <1>1, <1>2, <1>3

\* Induction over lists: a set that has the empty list, and every list whose first strategy's
\* parts and whose tail it has, has them all.
LEMMA ListInduction ==
    ASSUME NEW T, <<>> \in T,
           \A q \in Lists : q # <<>> /\ Head(q).parts \in T /\ Tail(q) \in T => q \in T
    PROVE  Lists \subseteq T
  <1> DEFINE Shallow(q) == \A i \in 1 .. Len(q) : q[i].parts \in T
             Bad == {q \in Lists : Shallow(q) /\ q \notin T}
             Lengths == {Len(q) : q \in Bad}
  <1>1. Bad = {}
    <2> SUFFICES ASSUME Bad # {} PROVE FALSE
      OBVIOUS
    <2>1. Lengths \subseteq Nat /\ Lengths # {}
      <3>1. \A q \in Lists : Len(q) \in Nat
        BY LenProperties DEF Lists
      <3> QED
        BY <3>1
    <2>2. PICK m \in Lengths : \A n \in Lengths : m <= n
      <3> HIDE DEF Lengths
      <3> QED
        BY <2>1, LeastNatural
    <2>3. PICK q \in Bad : Len(q) = m
      BY <2>2
    <2>4. q \in Lists /\ q # <<>> /\ Shallow(q) /\ q \notin T
      BY <2>3
    <2>5. Head(q).parts \in T
      BY <2>4, ListParts
    <2>6. Tail(q) \in Lists /\ Shallow(Tail(q)) /\ Len(Tail(q)) < Len(q) /\ Len(q) \in Nat
          /\ Len(Tail(q)) \in Nat
      <3>1. /\ Tail(q) \in Lists /\ Len(q) \in Nat \ {0} /\ Len(Tail(q)) = Len(q) - 1
            /\ \A i \in 1 .. Len(Tail(q)) : Tail(q)[i] = q[i + 1]
        BY <2>4, ListParts
      <3>2. \A i \in 1 .. Len(Tail(q)) : i + 1 \in 1 .. Len(q)
        BY <3>1
      <3> QED
        BY <2>4, <3>1, <3>2
    <2>7. Tail(q) \in T
      <3> SUFFICES ASSUME Tail(q) \notin T PROVE FALSE
        OBVIOUS
      <3>1. Len(Tail(q)) \in Lengths
        BY <2>6
      <3> QED
        BY <2>2, <2>3, <2>6, <3>1
    <2> QED
      BY <2>4, <2>5, <2>7
  <1> DEFINE Deep == {s \in Strategies : s.parts \notin T}
  <1>2. Deep = {}
    <2> SUFFICES ASSUME Deep # {} PROVE FALSE
      OBVIOUS
    <2>1. PICK s \in Deep : \A i \in DOMAIN s.parts : s.parts[i] \notin Deep
      <3>1. Deep \in SUBSET Strategies
        OBVIOUS
      <3> HIDE DEF Deep
      <3> QED
        BY <3>1, NestingAssumption
    <2>2. s.parts \in Lists /\ s.parts \notin T
      BY <2>1, StrategiesAssumption DEF Lists
    <2>3. \A i \in 1 .. Len(s.parts) : s.parts[i] \in Strategies /\ i \in DOMAIN s.parts
      BY <2>2 DEF Lists
    <2>4. Shallow(s.parts)
      BY <2>1, <2>3
    <2> QED
      BY <1>1, <2>2, <2>4
  <1>3. \A q \in Lists : Shallow(q)
    BY <1>2 DEF Lists
  <1> QED
    BY <1>1, <1>3

\* The equation of Budget on a set of lists that has the parts and tails of its lists.
Solves(D, g) ==
    /\ D \subseteq Lists /\ g \in [D -> Nat]
    /\ \A q \in D : IF q = <<>> THEN g[q] = 0
                    ELSE /\ Head(q).parts \in D /\ Tail(q) \in D
                         /\ g[q] = Own(Head(q)) + g[Head(q).parts] + g[Tail(q)]

\* The equation has one solution.
LEMMA OneSolution ==
    ASSUME NEW D, NEW g, Solves(D, g), NEW E, NEW h, Solves(E, h)
    PROVE  \A q \in D \cap E : g[q] = h[q]
  <1> DEFINE T == {q \in Lists : q \in D \cap E => g[q] = h[q]}
  <1>1. <<>> \in T
    BY EmptySeq DEF Solves, Lists
  <1>2. ASSUME NEW q \in Lists, q # <<>>, Head(q).parts \in T, Tail(q) \in T
        PROVE  q \in T
    BY <1>2 DEF Solves
  <1>3. Lists \subseteq T
    <2> HIDE DEF T
    <2> QED
      BY <1>1, <1>2, ListInduction
  <1> QED
    BY <1>3 DEF Solves

\* What a strategy itself may do is a number.
LEMMA OwnNat ==
    ASSUME NEW s \in Strategies
    PROVE  Own(s) \in Nat
  BY StrategiesAssumption DEF Own, Kinds

\* It has a solution around every list.
LEMMA SolutionAt ==
    ASSUME NEW q \in Lists
    PROVE  \E D, g : q \in D /\ Solves(D, g)
  <1> DEFINE T == {x \in Lists : \E D, g : x \in D /\ Solves(D, g)}
  <1>1. <<>> \in T
    <2> DEFINE E == {<<>>}
               h == [x \in E |-> 0]
    <2>1. <<>> \in E /\ Solves(E, h) /\ <<>> \in Lists
      BY EmptySeq DEF Solves, Lists
    <2> QED
      BY <2>1
  <1>2. ASSUME NEW x \in Lists, x # <<>>, Head(x).parts \in T, Tail(x) \in T
        PROVE  x \in T
    <2>1. PICK D1, g1 : Head(x).parts \in D1 /\ Solves(D1, g1)
      BY <1>2
    <2>2. PICK D2, g2 : Tail(x) \in D2 /\ Solves(D2, g2)
      BY <1>2
    <2>3. \A y \in D1 \cap D2 : g1[y] = g2[y]
      BY <2>1, <2>2, OneSolution
    <2> DEFINE all == Own(Head(x)) + g1[Head(x).parts] + g2[Tail(x)]
               D == D1 \cup D2 \cup {x}
               g == [y \in D |-> IF y \in D1 THEN g1[y] ELSE IF y \in D2 THEN g2[y] ELSE all]
    <2>4. all \in Nat
      BY <1>2, <2>1, <2>2, ListParts, OwnNat DEF Solves
    <2>5. D \subseteq Lists /\ g \in [D -> Nat]
      BY <2>1, <2>2, <2>4 DEF Solves
    <2>6. (\A y \in D1 : g[y] = g1[y]) /\ (\A y \in D2 : g[y] = g2[y])
      BY <2>3
    <2>7. ASSUME NEW y \in D
          PROVE  IF y = <<>> THEN g[y] = 0
                 ELSE /\ Head(y).parts \in D /\ Tail(y) \in D
                      /\ g[y] = Own(Head(y)) + g[Head(y).parts] + g[Tail(y)]
      <3>1. CASE y \in D1
        <4> HIDE DEF g
        <4> QED
          BY <2>1, <2>6, <3>1 DEF Solves
      <3>2. CASE y \in D2
        <4> HIDE DEF g
        <4> QED
          BY <2>2, <2>6, <3>2 DEF Solves
      <3>3. CASE y \notin D1 /\ y \notin D2
        <4>1. y = x /\ g[y] = all
          BY <3>3
        <4> HIDE DEF g
        <4> QED
          BY <1>2, <2>1, <2>2, <2>6, <4>1
      <3> QED
        BY <3>1, <3>2, <3>3
    <2>8. Solves(D, g)
      <3> HIDE DEF D, g
      <3> QED
        BY <2>5, <2>7 DEF Solves
    <2>9. x \in D
      OBVIOUS
    <2> HIDE DEF D, g
    <2> QED
      BY <2>8, <2>9
  <1>3. Lists \subseteq T
    <2> HIDE DEF T
    <2> QED
      BY <1>1, <1>2, ListInduction
  <1> QED
    BY <1>3

\* Budget is the solution for all lists: its definition, unfolded.
LEMMA BudgetIs ==
    /\ Budget \in [Lists -> Nat]
    /\ Budget[<<>>] = 0
    /\ \A q \in Lists : q # <<>> =>
           Budget[q] = Own(Head(q)) + Budget[Head(q).parts] + Budget[Tail(q)]
  <1> DEFINE V(q, v) == \E D, g : q \in D /\ Solves(D, g) /\ v = g[q]
             h == [q \in Lists |-> CHOOSE v \in Nat : V(q, v)]
  <1>1. ASSUME NEW q \in Lists, NEW D, NEW g, q \in D, Solves(D, g)
        PROVE  h[q] = g[q]
    <2>1. g[q] \in Nat /\ V(q, g[q])
      BY <1>1 DEF Solves
    <2>2. \A v : V(q, v) => v = g[q]
      BY <1>1, OneSolution
    <2> HIDE DEF V
    <2>3. (CHOOSE v \in Nat : V(q, v)) = g[q]
      BY <2>1, <2>2
    <2> QED
      BY <2>3
  <1>2. ASSUME NEW q \in Lists
        PROVE  /\ h[q] \in Nat
               /\ IF q = <<>> THEN h[q] = 0
                  ELSE h[q] = Own(Head(q)) + h[Head(q).parts] + h[Tail(q)]
    <2>1. PICK D, g : q \in D /\ Solves(D, g)
      BY SolutionAt
    <2>2. \A x \in D : x \in Lists /\ h[x] = g[x]
      <3> HIDE DEF h
      <3> QED
        BY <1>1, <2>1 DEF Solves
    <2> HIDE DEF h
    <2> QED
      BY <2>1, <2>2 DEF Solves
  <1> DEFINE e(f) == [list \in Lists |-> IF list = <<>> THEN 0
                          ELSE Own(Head(list)) + f[Head(list).parts] + f[Tail(list)]]
  <1>3. h = e(h)
    <2>1. h = [list \in Lists |-> h[list]]
      OBVIOUS
    <2> HIDE DEF h
    <2>2. \A list \in Lists : h[list] = e(h)[list]
      BY <1>2
    <2> QED
      BY <2>1, <2>2
  <1>4. Budget = e(Budget)
    <2> HIDE DEF h
    <2> QED
      BY <1>3, Zenon DEF Budget, Lists
  <1>5. ASSUME NEW q \in Lists
        PROVE  IF q = <<>> THEN Budget[q] = 0
               ELSE Budget[q] = Own(Head(q)) + Budget[Head(q).parts] + Budget[Tail(q)]
    BY <1>4
  <1>6. Budget \in [Lists -> Nat]
    <2> DEFINE T == {q \in Lists : Budget[q] \in Nat}
    <2>1. <<>> \in T
      <3>1. <<>> \in Lists
        BY EmptySeq DEF Lists
      <3>2. Budget[<<>>] = 0
        BY <1>5, <3>1
      <3> QED
        BY <3>1, <3>2
    <2>2. ASSUME NEW q \in Lists, q # <<>>, Head(q).parts \in T, Tail(q) \in T
          PROVE  q \in T
      <3>1. Own(Head(q)) \in Nat
        BY <2>2, ListParts, OwnNat
      <3> QED
        BY <1>5, <2>2, <3>1
    <2>3. Lists \subseteq T
      <3> HIDE DEF T
      <3> QED
        BY <2>1, <2>2, ListInduction
    <2>4. Budget = [q \in Lists |-> Budget[q]]
      BY <1>4, Zenon
    <2> QED
      BY <2>3, <2>4
  <1> QED
    BY <1>5, <1>6, EmptySeq DEF Lists

-----------------------------------------------------------------------------
\* What is left of the budget

Rest(list, n) == SubSeq(list, n + 1, Len(list))

\* How often the strategy of a frame may still run the operation, its parts included.
Left(frame, busy) ==
    CASE frame.s.kind \in {"Retry", "Chain"} ->
             IF frame.n < frame.s.max_attempts THEN frame.s.max_attempts - frame.n ELSE 0
      [] frame.s.kind = "Composite" ->
             IF frame.n < Len(frame.s.parts) THEN Budget[Rest(frame.s.parts, frame.n)] ELSE 0
      [] frame.s.kind = "CircuitBreaker" -> IF frame.n < 2 THEN 1 ELSE 0
      [] frame.s.kind = "Timeout" -> IF busy THEN 0 ELSE 1
      [] frame.s.kind = "Fallback" -> 0

\* What was spent, what the frames may still spend, from the outermost on, and what comes after
\* them stays within the total.
Within(frames, busy, after, spent, total) ==
    \E sum \in [0 .. Len(frames) -> Nat] :
        /\ sum[0] = after
        /\ \A i \in 1 .. Len(frames) : sum[i] = sum[i - 1] + Left(frames[i], busy)
        /\ spent + sum[Len(frames)] <= total

Total == Budget[<<executor.primary>> \o executor.fallbacks]

\* The operation was started no more often than the budget allows, and the strategies under way
\* and the fallbacks not yet tried keep it so.
Paid ==
    /\ runs \in Nat /\ Total \in Nat
    /\ Within(stack, running, Budget[Rest(executor.fallbacks, tried)], runs, Total)

\* The first strategy of what is left of a list, and the rest.
LEMMA RestIs ==
    ASSUME NEW q \in Lists, NEW n \in Nat, n < Len(q)
    PROVE  /\ Rest(q, n) \in Lists /\ Rest(q, n + 1) \in Lists /\ q[n + 1] \in Strategies
           /\ Budget[Rest(q, n)] =
                  Own(q[n + 1]) + Budget[q[n + 1].parts] + Budget[Rest(q, n + 1)]
  <1>1. Len(q) \in Nat /\ n + 1 \in 1 .. Len(q) /\ q[n + 1] \in Strategies
    BY LenProperties DEF Lists
  <1>2. /\ Rest(q, n) \in Lists /\ Len(Rest(q, n)) = Len(q) - n
        /\ \A i \in 1 .. Len(q) - n : Rest(q, n)[i] = q[n + i]
    BY <1>1 DEF Rest, Lists
  <1>3. /\ Rest(q, n + 1) \in Lists /\ Len(Rest(q, n + 1)) = Len(q) - (n + 1)
        /\ \A i \in 1 .. Len(q) - (n + 1) : Rest(q, n + 1)[i] = q[n + 1 + i]
    BY <1>1 DEF Rest, Lists
  <1>4. Rest(q, n) # <<>> /\ Head(Rest(q, n)) = q[n + 1]
    <2>1. Rest(q, n) # <<>>
      BY <1>1, <1>2, EmptySeq
    <2> QED
      BY <1>1, <1>2, <2>1, ListParts
  <1>5. Tail(Rest(q, n)) = Rest(q, n + 1)
    <2> DEFINE t == Tail(Rest(q, n))
    <2>1. /\ t \in Lists /\ Len(t) = Len(q) - (n + 1)
          /\ \A i \in 1 .. Len(t) : t[i] = Rest(q, n)[i + 1]
      BY <1>1, <1>2, <1>4, ListParts
    <2>2. \A i \in 1 .. Len(t) : t[i] = Rest(q, n + 1)[i]
      <3> TAKE i \in 1 .. Len(t)
      <3> HIDE DEF t
      <3>1. i + 1 \in 1 .. Len(q) - n /\ i \in 1 .. Len(q) - (n + 1)
        BY <1>1, <2>1
      <3>2. t[i] = Rest(q, n)[i + 1] /\ Rest(q, n)[i + 1] = q[n + (i + 1)]
        BY <1>2, <2>1, <3>1
      <3>3. Rest(q, n + 1)[i] = q[n + 1 + i] /\ n + (i + 1) = n + 1 + i
        BY <1>3, <3>1
      <3> QED
        BY <3>2, <3>3
    <2> HIDE DEF t
    <2>3. t = Rest(q, n + 1)
      BY <1>3, <2>1, <2>2, SeqEqual DEF Lists
    <2> QED
      BY <2>3 DEF t
  <1> QED
    BY <1>1, <1>2, <1>3, <1>4, <1>5, BudgetIs

\* Nothing is left of a list at its end, and at its start all of it.
LEMMA RestEnds ==
    ASSUME NEW q \in Lists
    PROVE  Rest(q, 0) = q /\ Rest(q, Len(q)) = <<>>
  <1>1. Len(q) \in Nat
    BY LenProperties DEF Lists
  <1>2. Rest(q, 0) = q
    BY <1>1, SubSeqFull DEF Rest, Lists
  <1>3. Rest(q, Len(q)) = <<>>
    BY <1>1, SubSeqEmpty DEF Rest
  <1> QED
    BY <1>2, <1>3

\* What is left at any place has a budget.
LEMMA RestNat ==
    ASSUME NEW q \in Lists, NEW n \in 0 .. Len(q)
    PROVE  Budget[Rest(q, n)] \in Nat
  <1>1. Len(q) \in Nat
    BY LenProperties DEF Lists
  <1>2. CASE n < Len(q)
    <2>1. Rest(q, n) \in Lists
      BY <1>1, <1>2, RestIs
    <2> QED
      BY <2>1, BudgetIs
  <1>3. CASE n = Len(q)
    BY <1>3, RestEnds, BudgetIs
  <1> QED
    BY <1>1, <1>2, <1>3

\* What is left to a frame is a number.
LEMMA LeftNat ==
    ASSUME NEW frame \in Frames, NEW busy \in BOOLEAN
    PROVE  Left(frame, busy) \in Nat
  <1>1. frame.s \in Strategies /\ frame.n \in Nat
    BY DEF Frames
  <1>2. frame.s.kind \in Kinds /\ frame.s.parts \in Lists /\ frame.s.max_attempts \in Nat
    BY <1>1, StrategiesAssumption DEF Lists
  <1>3. frame.n < Len(frame.s.parts) => Budget[Rest(frame.s.parts, frame.n)] \in Nat
    BY <1>1, <1>2, RestIs, BudgetIs
  <1> QED
    BY <1>1, <1>2, <1>3 DEF Left, Kinds

\* A strategy that begins has its whole budget.
LEMMA LeftFresh ==
    ASSUME NEW s \in Strategies, NEW p, p = FALSE
    PROVE  Left(Frame(s), p) = Own(s) + Budget[s.parts] /\ Left(Frame(s), p) \in Nat
  <1>1. /\ s.kind \in Kinds /\ s.parts \in Lists /\ s.max_attempts \in Nat
        /\ (s.kind # "Composite" => s.parts = <<>>)
    BY StrategiesAssumption DEF Lists
  <1>2. Frame(s).s = s /\ Frame(s).n = 0 /\ Left(Frame(s), p) \in Nat
    BY FrameTyped, LeftNat DEF Frame
  <1>3. CASE s.kind = "Composite"
    <2>1. Rest(s.parts, 0) = s.parts /\ Len(s.parts) \in Nat /\ Budget[s.parts] \in Nat
      BY <1>1, RestEnds, LenProperties, BudgetIs DEF Lists
    <2>2. ~(0 < Len(s.parts)) => Budget[s.parts] = 0
      BY <1>1, <2>1, EmptySeq, BudgetIs DEF Lists
    <2>3. Own(s) = 0
      BY <1>3 DEF Own
    <2> QED
      BY <1>2, <1>3, <2>1, <2>2, <2>3 DEF Left
  <1>4. CASE s.kind # "Composite"
    <2>1. Budget[s.parts] = 0
      BY <1>1, <1>4, BudgetIs
    <2> QED
      BY <1>1, <1>2, <1>4, <2>1 DEF Left, Own, Kinds
  <1> QED
    BY <1>2, <1>3, <1>4

\* The strategies that are composites wait for no operation of their own.
LEMMA LeftComposite ==
    ASSUME NEW frame, frame.s.kind = "Composite", NEW a, NEW b
    PROVE  Left(frame, a) = Left(frame, b)
  BY DEF Left

-----------------------------------------------------------------------------
\* The frames' sums as they go on, return and begin

\* The innermost strategy goes on and spends no more than its share.
LEMMA WithinUpdate ==
    ASSUME NEW a \in Seq(Frames), NEW b \in Seq(Frames), Len(a) # 0, Len(b) = Len(a),
           NEW p \in BOOLEAN, NEW q \in BOOLEAN,
           \A i \in 1 .. Len(a) - 1 : Left(b[i], q) = Left(a[i], p),
           NEW k \in Nat, Left(b[Len(a)], q) + k <= Left(a[Len(a)], p),
           NEW after, NEW spent \in Nat, NEW total \in Nat, Within(a, p, after, spent, total)
    PROVE  Within(b, q, after, spent + k, total)
  <1> DEFINE n == Len(a)
  <1>1. n \in Nat \ {0} /\ Left(a[n], p) \in Nat /\ Left(b[n], q) \in Nat
    <2>1. n \in Nat \ {0} /\ a[n] \in Frames /\ b[n] \in Frames
      BY LenProperties
    <2> QED
      BY <2>1, LeftNat
  <1>2. PICK sum \in [0 .. n -> Nat] :
            /\ sum[0] = after
            /\ \A i \in 1 .. n : sum[i] = sum[i - 1] + Left(a[i], p)
            /\ spent + sum[n] <= total
    BY DEF Within
  <1>0. \A i \in 1 .. n - 1 : Left(b[i], q) = Left(a[i], p)
    OBVIOUS
  <1> DEFINE new == [sum EXCEPT ![n] = sum[n - 1] + Left(b[n], q)]
  <1> HIDE DEF n
  <1>3. new \in [0 .. n -> Nat]
    <2>1. n - 1 \in 0 .. n
      BY <1>1
    <2>2. sum[n - 1] \in Nat
      BY <2>1
    <2>3. sum[n - 1] + Left(b[n], q) \in Nat
      BY <1>1, <2>2
    <2> QED
      BY <2>3, Zenon
  <1>4. (\A i \in 0 .. n - 1 : new[i] = sum[i]) /\ new[n] = sum[n - 1] + Left(b[n], q)
    BY <1>1, <1>2
  <1> HIDE DEF new
  <1>5. new[0] = after
    BY <1>1, <1>2, <1>4
  <1>6. \A i \in 1 .. n : new[i] = new[i - 1] + Left(b[i], q)
    <2> TAKE i \in 1 .. n
    <2>1. i - 1 \in 0 .. n - 1 /\ new[i - 1] = sum[i - 1]
      BY <1>1, <1>4
    <2>2. CASE i = n
      BY <1>1, <1>4, <2>1, <2>2
    <2>3. CASE i # n
      <3>1. i \in 1 .. n - 1 /\ i \in 0 .. n - 1
        BY <1>1, <2>3
      <3>2. new[i] = sum[i] /\ sum[i] = sum[i - 1] + Left(a[i], p) /\ Left(b[i], q) = Left(a[i], p)
        BY <1>0, <1>2, <1>4, <3>1
      <3> QED
        BY <2>1, <3>2
    <2> QED
      BY <2>2, <2>3
  <1>7. spent + k + new[n] <= total
    <2>1. sum[n] = sum[n - 1] + Left(a[n], p) /\ sum[n - 1] \in Nat
      BY <1>1, <1>2
    <2>2. Left(b[n], q) + k <= Left(a[n], p)
      BY DEF n
    <2> QED
      BY <1>1, <1>2, <1>4, <2>1, <2>2
  <1> QED
    BY <1>3, <1>5, <1>6, <1>7 DEF Within, n

\* It returns.
LEMMA WithinPop ==
    ASSUME NEW a \in Seq(Frames), NEW b \in Seq(Frames), Len(a) # 0, Len(b) = Len(a) - 1,
           NEW p \in BOOLEAN, NEW q \in BOOLEAN,
           \A i \in 1 .. Len(a) - 1 : Left(b[i], q) = Left(a[i], p),
           NEW after, NEW spent \in Nat, NEW total \in Nat, Within(a, p, after, spent, total)
    PROVE  Within(b, q, after, spent, total)
  <1> DEFINE n == Len(a)
  <1>1. n \in Nat \ {0} /\ Left(a[n], p) \in Nat
    <2>1. n \in Nat \ {0} /\ a[n] \in Frames
      BY LenProperties
    <2> QED
      BY <2>1, LeftNat
  <1>2. PICK sum \in [0 .. n -> Nat] :
            /\ sum[0] = after
            /\ \A i \in 1 .. n : sum[i] = sum[i - 1] + Left(a[i], p)
            /\ spent + sum[n] <= total
    BY DEF Within
  <1> DEFINE new == [i \in 0 .. n - 1 |-> sum[i]]
  <1> HIDE DEF n
  <1>3. new \in [0 .. n - 1 -> Nat] /\ \A i \in 0 .. n - 1 : new[i] = sum[i]
    <2>1. \A i \in 0 .. n - 1 : i \in 0 .. n
      BY <1>1
    <2> QED
      BY <2>1, Zenon
  <1> HIDE DEF new
  <1>4. new[0] = after
    BY <1>1, <1>2, <1>3
  <1>5. \A i \in 1 .. n - 1 : new[i] = new[i - 1] + Left(b[i], q)
    BY <1>1, <1>2, <1>3 DEF n
  <1>6. spent + new[n - 1] <= total
    <2>1. sum[n] = sum[n - 1] + Left(a[n], p) /\ sum[n - 1] \in Nat
      BY <1>1, <1>2
    <2> QED
      BY <1>1, <1>2, <1>3, <2>1
  <1>7. Len(b) = n - 1
    BY DEF n
  <1> QED
    BY <1>3, <1>4, <1>5, <1>6, <1>7 DEF Within

\* The sums, when the last share is split in two.
Split(n, sum, x, y, new) ==
    /\ \A i \in 0 .. n - 1 : new[i] = sum[i]
    /\ new[n] = new[n - 1] + x /\ new[n + 1] = new[n] + y /\ new[n + 1] <= sum[n]

\* They exist, and end where they did or below.
LEMMA SplitSum ==
    ASSUME NEW n \in Nat \ {0}, NEW sum \in [0 .. n -> Nat],
           NEW x \in Nat, NEW y \in Nat, NEW z \in Nat, x + y <= z, sum[n] = sum[n - 1] + z
    PROVE  \E new \in [0 .. n + 1 -> Nat] : Split(n, sum, x, y, new)
  <1> DEFINE w == sum[n - 1]
             new == [i \in 0 .. n + 1 |-> IF i < n THEN sum[i] ELSE IF i = n THEN w + x ELSE w + x + y]
  <1>1. w \in Nat
    OBVIOUS
  <1>2. new \in [0 .. n + 1 -> Nat]
    <2>1. \A i \in 0 .. n + 1 : i < n => sum[i] \in Nat
      OBVIOUS
    <2>2. w + x \in Nat /\ w + x + y \in Nat
      BY <1>1
    <2> QED
      BY <2>1, <2>2
  <1>3. (\A i \in 0 .. n - 1 : new[i] = sum[i]) /\ new[n] = w + x /\ new[n + 1] = w + x + y
    OBVIOUS
  <1> HIDE DEF new
  <1>4. new[n - 1] = w /\ sum[n] = w + z
    BY <1>3
  <1> HIDE DEF w
  <1>5. new[n] = new[n - 1] + x /\ new[n + 1] = new[n] + y /\ new[n + 1] <= sum[n]
    BY <1>1, <1>3, <1>4
  <1> QED
    BY <1>2, <1>3, <1>5, Zenon DEF Split

\* What the innermost of the first frames has left covers the two that take its place.
Splits(a, b, p) == Left(b[Len(a)], p) + Left(b[Len(a) + 1], p) <= Left(a[Len(a)], p)

\* It begins a part, out of its share.
LEMMA WithinPush ==
    ASSUME NEW a \in Seq(Frames), NEW b \in Seq(Frames), Len(a) # 0, Len(b) = Len(a) + 1,
           NEW p \in BOOLEAN, \A i \in 1 .. Len(a) - 1 : b[i] = a[i],
           Splits(a, b, p),
           NEW after, NEW spent \in Nat, NEW total \in Nat, Within(a, p, after, spent, total)
    PROVE  Within(b, p, after, spent, total)
  <1>1. PICK n \in Nat \ {0} : n = Len(a)
    BY LenProperties
  <1>2. PICK x \in Nat, y \in Nat, z \in Nat :
            /\ x = Left(b[n], p) /\ y = Left(b[n + 1], p) /\ z = Left(a[n], p) /\ x + y <= z
    <2>1. a[n] \in Frames /\ b[n] \in Frames /\ b[n + 1] \in Frames
      BY <1>1
    <2>2. Left(b[n], p) + Left(b[n + 1], p) <= Left(a[n], p)
      BY <1>1 DEF Splits
    <2>3. Left(a[n], p) \in Nat /\ Left(b[n], p) \in Nat /\ Left(b[n + 1], p) \in Nat
      BY <2>1, LeftNat
    <2> QED
      BY <2>2, <2>3
  <1>3. PICK sum \in [0 .. n -> Nat] :
            /\ sum[0] = after
            /\ \A i \in 1 .. n : sum[i] = sum[i - 1] + Left(a[i], p)
            /\ spent + sum[n] <= total
    BY <1>1 DEF Within
  <1>4. sum[n] = sum[n - 1] + z
    <2>1. n \in 1 .. n
      BY <1>1
    <2> QED
      BY <1>2, <1>3, <2>1
  <1>5. PICK new \in [0 .. n + 1 -> Nat] : Split(n, sum, x, y, new)
    BY <1>2, <1>4, SplitSum
  <1>6. new[0] = after
    BY <1>1, <1>3, <1>5 DEF Split
  <1>7. \A i \in 1 .. n + 1 : new[i] = new[i - 1] + Left(b[i], p)
    <2> TAKE i \in 1 .. n + 1
    <2>1. CASE i = n
      BY <1>2, <1>5, <2>1 DEF Split
    <2>2. CASE i = n + 1
      BY <1>1, <1>2, <1>5, <2>2 DEF Split
    <2>3. CASE i # n /\ i # n + 1
      <3>1. i \in 1 .. n /\ i \in 0 .. n - 1 /\ i - 1 \in 0 .. n - 1 /\ i \in 1 .. Len(a) - 1
        BY <1>1, <2>3
      <3>2. b[i] = a[i]
        BY <3>1
      <3> QED
        BY <1>3, <1>5, <3>1, <3>2, Zenon DEF Split
    <2> QED
      BY <2>1, <2>2, <2>3
  <1>8. spent + new[n + 1] <= total
    <2>1. new[n + 1] \in Nat /\ sum[n] \in Nat
      BY <1>1, <1>3, <1>5 DEF Split
    <2>2. spent + sum[n] <= total /\ new[n + 1] <= sum[n]
      BY <1>3, <1>5 DEF Split
    <2> QED
      BY <2>1, <2>2
  <1> QED
    BY <1>1, <1>5, <1>6, <1>7, <1>8 DEF Within

-----------------------------------------------------------------------------
\* Every step stays within the budget

\* What follows the strategies under way does not change while they run.
LEMMA AfterNat ==
    ASSUME Typed
    PROVE  /\ executor.fallbacks \in Lists /\ tried \in Nat
           /\ Budget[Rest(executor.fallbacks, tried)] \in Nat
  <1>1. executor.fallbacks \in Lists /\ tried \in 0 .. Len(executor.fallbacks)
    BY ExecutorsAssumption DEF Typed, Lists
  <1> QED
    BY <1>1, RestNat

\* The frames below the innermost are composites, to which it is all one whether the operation
\* is under way.
LEMMA BelowSame ==
    ASSUME Inv, NEW frames, \A i \in 1 .. Len(stack) - 1 : frames[i] = stack[i], NEW a, NEW b
    PROVE  \A i \in 1 .. Len(stack) - 1 : Left(frames[i], a) = Left(stack[i], b)
  BY LeftComposite DEF Inv, Nesting

\* The innermost strategy goes on: what it spends was left to it.
LEMMA UpdatePaid ==
    ASSUME Inv, Paid, Busy, NEW frame \in Frames, frame.s = top.s, Update(frame),
           UNCHANGED <<executor, tried>>, running' \in BOOLEAN,
           NEW k \in Nat, runs' = runs + k, Left(frame, running') + k <= Left(top, running)
    PROVE  Paid'
  <1>1. /\ stack' \in Seq(Frames) /\ Len(stack') = Len(stack)
        /\ \A i \in 1 .. Len(stack) : stack'[i] = IF i = Len(stack) THEN frame ELSE stack[i]
    BY Updated DEF Inv
  <1>2. /\ stack \in Seq(Frames) /\ Len(stack) \in Nat \ {0} /\ top = stack[Len(stack)]
        /\ running \in BOOLEAN
    BY TopTyped DEF Inv, Typed
  <1>3. \A i \in 1 .. Len(stack) - 1 : stack'[i] = stack[i]
    BY <1>1, <1>2
  <1>4. \A i \in 1 .. Len(stack) - 1 : Left(stack'[i], running') = Left(stack[i], running)
    BY <1>3, BelowSame
  <1>5. stack'[Len(stack)] = frame
    BY <1>1, <1>2
  <1>6. Within(stack', running', Budget[Rest(executor.fallbacks, tried)], runs + k, Total)
    BY <1>1, <1>2, <1>4, <1>5, WithinUpdate DEF Paid
  <1> QED
    BY <1>6 DEF Paid, Total

\* The innermost strategy returns.
LEMMA ReturnPaid ==
    ASSUME Inv, Paid, Busy, NEW o, Return(o), UNCHANGED <<executor, tried, runs>>,
           running' \in BOOLEAN
    PROVE  Paid'
  <1>1. /\ stack' \in Seq(Frames) /\ Len(stack') = Len(stack) - 1
        /\ \A i \in 1 .. Len(stack) - 1 : stack'[i] = stack[i]
    BY Popped DEF Inv
  <1>2. stack \in Seq(Frames) /\ Len(stack) \in Nat \ {0} /\ running \in BOOLEAN
    BY TopTyped DEF Inv, Typed
  <1>3. \A i \in 1 .. Len(stack) - 1 : Left(stack'[i], running') = Left(stack[i], running)
    BY <1>1, BelowSame
  <1>4. Within(stack', running', Budget[Rest(executor.fallbacks, tried)], runs, Total)
    BY <1>1, <1>2, <1>3, WithinPop DEF Paid
  <1> QED
    BY <1>4 DEF Paid, Total

\* The operation is started only by a strategy that has a run left, and takes it.
LEMMA StartPaid ==
    ASSUME Inv, Paid, Attempt \/ NextInChain \/ Allowed \/ RunProtected \/ RunTimed
    PROVE  Paid'
  <1>1. Busy /\ running = FALSE /\ running' \in BOOLEAN /\ UNCHANGED <<executor, tried>> /\ runs \in Nat
    BY DEF Attempt, NextInChain, Allowed, RunProtected, RunTimed, Active, Start, Quiet, Inv, Typed, Paid
  <1>2. top \in Frames /\ top.n \in Nat /\ top.s.max_attempts \in Nat
    BY <1>1, TopTyped DEF Inv, Frames
  <1>3. CASE Attempt \/ NextInChain
    <2> DEFINE frame == [top EXCEPT !.n = @ + 1]
    <2>1. /\ top.s.kind \in {"Retry", "Chain"} /\ top.n < top.s.max_attempts /\ Update(frame)
          /\ running' = TRUE /\ runs' = runs + 1
      BY <1>3 DEF Attempt, NextInChain, Active, Start
    <2>2. frame \in Frames /\ frame.s = top.s /\ frame.n = top.n + 1
      <3>1. top.n + 1 \in Nat
        BY <1>2
      <3> QED
        BY <1>2, <3>1 DEF Frames
    <2> HIDE DEF frame
    <2>3. Left(frame, running') + 1 <= Left(top, running)
      BY <1>1, <1>2, <2>1, <2>2 DEF Left
    <2> QED
      BY <1>1, <2>1, <2>2, <2>3, UpdatePaid
  <1>4. CASE Allowed
    <2> DEFINE frame == [top EXCEPT !.n = 1]
    <2>1. /\ top.s.kind = "CircuitBreaker" /\ top.n = 0 /\ Update(frame)
          /\ running' = FALSE /\ runs' = runs + 0
      BY <1>1, <1>4 DEF Allowed, Active, Quiet
    <2>2. frame \in Frames /\ frame.s = top.s /\ frame.n = 1
      BY <1>2 DEF Frames
    <2> HIDE DEF frame
    <2>3. Left(frame, running') + 0 <= Left(top, running)
      BY <1>1, <2>1, <2>2 DEF Left
    <2> QED
      BY <1>1, <2>1, <2>2, <2>3, UpdatePaid
  <1>5. CASE RunProtected
    <2> DEFINE frame == [top EXCEPT !.n = 2]
    <2>1. /\ top.s.kind = "CircuitBreaker" /\ top.n = 1 /\ Update(frame)
          /\ running' = TRUE /\ runs' = runs + 1
      BY <1>5 DEF RunProtected, Active, Start
    <2>2. frame \in Frames /\ frame.s = top.s /\ frame.n = 2
      BY <1>2 DEF Frames
    <2> HIDE DEF frame
    <2>3. Left(frame, running') + 1 <= Left(top, running)
      BY <1>1, <2>1, <2>2 DEF Left
    <2> QED
      BY <1>1, <2>1, <2>2, <2>3, UpdatePaid
  <1>6. CASE RunTimed
    <2>1. /\ top.s.kind = "Timeout" /\ stack' = stack /\ running' = TRUE /\ runs' = runs + 1
      BY <1>6 DEF RunTimed, Active, Start
    <2>2. stack \in Seq(Frames) /\ Len(stack) \in Nat \ {0} /\ top = stack[Len(stack)]
      BY <1>1, TopTyped DEF Inv, Typed
    <2>3. Left(stack[Len(stack)], running') + 1 <= Left(stack[Len(stack)], running)
      BY <1>1, <2>1, <2>2 DEF Left
    <2>4. \A i \in 1 .. Len(stack) - 1 : Left(stack[i], running') = Left(stack[i], running)
      BY BelowSame
    <2>5. Within(stack, running', Budget[Rest(executor.fallbacks, tried)], runs + 1, Total)
      BY <1>1, <2>2, <2>3, <2>4, WithinUpdate DEF Paid
    <2>6. stack' = stack /\ runs' = runs + 1 /\ runs' \in Nat /\ UNCHANGED <<executor, tried>>
      BY <1>1, <2>1
    <2> QED
      BY <2>5, <2>6 DEF Paid, Total
  <1> QED
    BY <1>3, <1>4, <1>5, <1>6

\* The operation ends or is dropped, or a strategy gives up: nothing is spent.
LEMMA EndPaid ==
    ASSUME Inv, Paid, OperationEnds \/ TimesOut \/ GiveUp \/ Exhausted \/ Refused \/ EndComposite
    PROVE  Paid'
  <1>1. /\ Busy /\ UNCHANGED <<executor, tried, runs>> /\ running' \in BOOLEAN
    BY DEF OperationEnds, AttemptEnds, ChainEnds, WrappedEnds, TimesOut, GiveUp, Exhausted, Refused,
           EndComposite, Composing, Active, End, Quiet, Inv, Typed
  <1>2. ASSUME NEW o, Return(o) PROVE Paid'
    BY <1>1, <1>2, ReturnPaid
  <1>3. CASE OperationEnds
    <2>1. PICK r \in Results \cup OpErrors : AttemptEnds(r) \/ ChainEnds(r) \/ WrappedEnds(r)
      BY <1>3 DEF OperationEnds
    <2>2. top \in Frames /\ runs \in Nat /\ top.n \in Nat /\ top.s.max_attempts \in Nat
      BY <1>1, TopTyped DEF Inv, Paid, Frames
    <2>3. ASSUME NEW frame \in Frames, frame.s = top.s, frame.n = top.n, Update(frame),
                 top.s.kind \in {"Retry", "Chain"}
          PROVE  Paid'
      <3>1. Left(frame, running') + 0 <= Left(top, running) /\ runs' = runs + 0
        BY <1>1, <2>2, <2>3 DEF Left
      <3> QED
        BY <1>1, <2>3, <3>1, UpdatePaid
    <2>4. CASE AttemptEnds(r)
      <3> DEFINE frame == [top EXCEPT !.has_failure = @ \/ r \in FAILED,
                                      !.last_error = IF r \in Results THEN "NotApplicable" ELSE r]
      <3>1. frame \in Frames /\ frame.s = top.s /\ frame.n = top.n
        BY <2>1, <2>2 DEF Frames, Errors, OpErrors
      <3>2. /\ (\E o : Return(o)) \/ Update(frame)
            /\ top.s.kind = "Retry"
        BY <2>4 DEF AttemptEnds
      <3> QED
        BY <1>2, <2>3, <3>1, <3>2
    <2>5. CASE ChainEnds(r)
      BY <1>2, <2>2, <2>3, <2>5 DEF ChainEnds
    <2>6. CASE WrappedEnds(r)
      BY <1>2, <2>6 DEF WrappedEnds
    <2> QED
      BY <2>1, <2>4, <2>5, <2>6
  <1>4. CASE TimesOut \/ GiveUp \/ Exhausted \/ Refused \/ EndComposite
    BY <1>2, <1>4 DEF TimesOut, GiveUp, Exhausted, Refused, EndComposite
  <1> QED
    BY <1>3, <1>4

\* A composite begins a part: what was left to it covers the part and what is left to it then.
LEMMA NextPartPaid ==
    ASSUME Inv, Paid, NextPart
    PROVE  Paid'
  <1>1. /\ Busy /\ top.s.kind = "Composite" /\ running = FALSE /\ running \in BOOLEAN /\ top.n < Len(top.s.parts)
        /\ UNCHANGED <<executor, tried, running, runs>>
        /\ stack' = Append([stack EXCEPT ![Len(stack)].n = @ + 1], Frame(top.s.parts[top.n + 1]))
    BY DEF NextPart, Composing, Quiet, Inv, Typed
  <1>2. /\ stack \in Seq(Frames) /\ Len(stack) \in Nat \ {0} /\ top \in Frames /\ top.n \in Nat
        /\ top = stack[Len(stack)] /\ top.s.parts \in Lists
    BY <1>1, TopTyped DEF Inv, Typed, Lists, Frames
  <1> DEFINE part == top.s.parts[top.n + 1]
             next == [top EXCEPT !.n = top.n + 1]
             below == [stack EXCEPT ![Len(stack)] = next]
  <1>3. /\ part \in Strategies
        /\ Budget[Rest(top.s.parts, top.n)] =
               Own(part) + Budget[part.parts] + Budget[Rest(top.s.parts, top.n + 1)]
    BY <1>1, <1>2, RestIs
  <1>4. next \in Frames /\ next.s = top.s /\ next.n = top.n + 1
    <2>1. top.n + 1 \in Nat
      BY <1>2
    <2> QED
      BY <1>2, <2>1 DEF Frames
  <1>5. stack' = Append(below, Frame(part))
    BY <1>1, <1>2
  <1> HIDE DEF part, next
  <1>6. /\ below \in Seq(Frames) /\ Len(below) = Len(stack)
        /\ \A i \in 1 .. Len(stack) : below[i] = IF i = Len(stack) THEN next ELSE stack[i]
    BY <1>2, <1>4, ExceptSeq
  <1> HIDE DEF below
  <1>7. Frame(part) \in Frames /\ Left(Frame(part), running) = Own(part) + Budget[part.parts]
    BY <1>1, <1>3, FrameTyped, LeftFresh
  <1>8. /\ stack' \in Seq(Frames) /\ Len(stack') = Len(stack) + 1
        /\ stack'[Len(stack) + 1] = Frame(part) /\ stack'[Len(stack)] = next
        /\ \A i \in 1 .. Len(stack) - 1 : stack'[i] = stack[i]
    <2>1. /\ stack' \in Seq(Frames) /\ Len(stack') = Len(stack) + 1
          /\ stack'[Len(stack) + 1] = Frame(part)
          /\ \A i \in 1 .. Len(stack) : stack'[i] = below[i]
      BY <1>5, <1>6, <1>7, AppendProperties
    <2> QED
      BY <1>2, <1>6, <2>1
  <1>9. Left(next, running) + Left(Frame(part), running) <= Left(top, running)
    <2>1. Left(top, running) = Budget[Rest(top.s.parts, top.n)]
      BY <1>1 DEF Left
    <2>2. Left(next, running) = Budget[Rest(top.s.parts, top.n + 1)]
      <3>1. Len(top.s.parts) \in Nat
        BY <1>2, LenProperties DEF Lists
      <3>2. CASE top.n + 1 < Len(top.s.parts)
        BY <1>1, <1>4, <3>2 DEF Left
      <3>3. CASE top.n + 1 = Len(top.s.parts)
        <4>1. Budget[Rest(top.s.parts, top.n + 1)] = 0
          BY <1>2, <3>3, RestEnds, BudgetIs
        <4> QED
          BY <1>1, <1>4, <3>1, <3>3, <4>1 DEF Left
      <3> QED
        BY <1>1, <1>2, <3>1, <3>2, <3>3
    <2>3. Left(next, running) \in Nat /\ Left(Frame(part), running) \in Nat
      BY <1>1, <1>4, <1>7, LeftNat
    <2>4. Own(part) \in Nat /\ Budget[part.parts] \in Nat
      BY <1>3, OwnNat, StrategiesAssumption, BudgetIs DEF Lists
    <2> QED
      BY <1>3, <1>7, <2>1, <2>2, <2>3, <2>4
  <1>10. Within(stack', running, Budget[Rest(executor.fallbacks, tried)], runs, Total)
    <2>1. running \in BOOLEAN
      BY <1>1
    <2>2. Splits(stack, stack', running)
      BY <1>2, <1>8, <1>9 DEF Splits
    <2> QED
      BY <1>2, <1>8, <2>1, <2>2, WithinPush DEF Paid
  <1> QED
    BY <1>1, <1>10 DEF Paid, Total

\* A single frame, paid for by what was to come.
LEMMA WithinOne ==
    ASSUME NEW s \in Strategies, NEW after \in Nat, NEW spent \in Nat, NEW total \in Nat, NEW p, p = FALSE,
           spent + (Own(s) + Budget[s.parts] + after) <= total
    PROVE  Within(<<Frame(s)>>, p, after, spent, total)
  <1> DEFINE x == Left(Frame(s), p)
             f == <<Frame(s)>>
             sum == [i \in 0 .. 1 |-> IF i = 0 THEN after ELSE after + x]
  <1>1. x \in Nat /\ x = Own(s) + Budget[s.parts] /\ Own(s) \in Nat /\ Budget[s.parts] \in Nat
    BY LeftFresh, OwnNat, StrategiesAssumption, BudgetIs DEF Lists
  <1>2. Len(f) = 1 /\ f[1] = Frame(s)
    OBVIOUS
  <1> HIDE DEF f
  <1>3. Left(f[1], p) = x
    BY <1>2
  <1> HIDE DEF x
  <1>4. sum \in [0 .. 1 -> Nat] /\ sum[0] = after /\ sum[1] = after + x
    BY <1>1
  <1> HIDE DEF sum
  <1>5. \A i \in 1 .. 1 : sum[i] = sum[i - 1] + Left(f[i], p)
    BY <1>3, <1>4
  <1>6. spent + sum[1] <= total
    BY <1>1, <1>4
  <1>7. Within(f, p, after, spent, total)
    BY <1>2, <1>4, <1>5, <1>6 DEF Within
  <1> QED
    BY <1>7 DEF f

\* The steps of execute: a fallback begins with its share of what was to come.
LEMMA ExecutePaid ==
    ASSUME Inv, Paid,
           PrimaryEnds \/ BreakerAllows \/ BreakerRefuses \/ NextFallback \/ FallbackSucceeds
    PROVE  Paid'
  <1>1. UNCHANGED <<executor, running, runs>> /\ stack = <<>> /\ running = FALSE
    BY DEF PrimaryEnds, BreakerAllows, BreakerRefuses, NextFallback, FallbackSucceeds, Idle, Busy,
           Inv, Nesting, Typed
  <1>2. CASE UNCHANGED <<stack, tried>>
    BY <1>1, <1>2 DEF Paid, Total
  <1>3. CASE NextFallback /\ tried < Len(executor.fallbacks)
    <2>1. stack' = <<Frame(executor.fallbacks[tried + 1])>> /\ tried' = tried + 1
      BY <1>3 DEF NextFallback
    <2>2. /\ executor.fallbacks \in Lists /\ tried \in Nat
          /\ Budget[Rest(executor.fallbacks, tried)] \in Nat
      BY AfterNat DEF Inv
    <2> DEFINE s == executor.fallbacks[tried + 1]
               after == Budget[Rest(executor.fallbacks, tried + 1)]
    <2>3. /\ s \in Strategies /\ after \in Nat
          /\ Budget[Rest(executor.fallbacks, tried)] = Own(s) + Budget[s.parts] + after
      BY <1>3, <2>2, RestIs, BudgetIs
    <2>4. runs + Budget[Rest(executor.fallbacks, tried)] <= Total /\ runs \in Nat /\ Total \in Nat
      BY <1>1, EmptySeq DEF Paid, Within
    <2>5. Within(<<Frame(s)>>, running, after, runs, Total)
      <3> HIDE DEF s, after
      <3> QED
        BY <1>1, <2>3, <2>4, WithinOne
    <2> QED
      BY <1>1, <2>1, <2>4, <2>5 DEF Paid, Total
  <1> QED
    BY <1>2, <1>3 DEF PrimaryEnds, BreakerAllows, BreakerRefuses, NextFallback, FallbackSucceeds

\* The primary strategy begins with its share.
LEMMA InitPaid == Init => Paid
  <1> SUFFICES ASSUME Init PROVE Paid
    OBVIOUS
  <1> DEFINE s == executor.primary
             rest == executor.fallbacks
             all == <<s>> \o rest
  <1>1. s \in Strategies /\ rest \in Lists
    BY ExecutorsAssumption DEF Init, Lists
  <1> HIDE DEF s, rest
  <1>2. all \in Lists /\ all # <<>> /\ Head(all) = s /\ Tail(all) = rest
    <2>1. <<s>> \in Lists /\ Len(<<s>>) = 1 /\ <<s>>[1] = s /\ Len(rest) \in Nat
      BY <1>1, LenProperties DEF Lists
    <2>2. /\ all \in Lists /\ Len(all) = 1 + Len(rest) /\ all[1] = s
          /\ \A i \in 1 .. Len(rest) : all[i + 1] = rest[i]
      BY <1>1, <2>1, ConcatProperties DEF Lists
    <2> HIDE DEF all
    <2>3. all # <<>>
      BY <2>1, <2>2, EmptySeq
    <2>4. /\ Head(all) = s /\ Tail(all) \in Lists /\ Len(Tail(all)) = Len(rest)
          /\ \A i \in 1 .. Len(Tail(all)) : Tail(all)[i] = rest[i]
      BY <2>1, <2>2, <2>3, ListParts
    <2>5. Tail(all) = rest
      BY <1>1, <2>4, SeqEqual DEF Lists
    <2> QED
      BY <2>2, <2>3, <2>4, <2>5
  <1>3. Budget[all] = Own(s) + Budget[s.parts] + Budget[rest]
    BY <1>2, BudgetIs
  <1>4. Own(s) \in Nat /\ Budget[s.parts] \in Nat /\ Budget[rest] \in Nat /\ Budget[all] \in Nat
    BY <1>1, <1>2, OwnNat, StrategiesAssumption, BudgetIs DEF Lists
  <1> HIDE DEF all
  <1>5. Within(<<Frame(s)>>, running, Budget[rest], 0, Budget[all])
    <2>1. running = FALSE /\ 0 + (Own(s) + Budget[s.parts] + Budget[rest]) <= Budget[all]
      BY <1>3, <1>4 DEF Init
    <2> QED
      BY <1>1, <1>4, <2>1, WithinOne
  <1>6. Rest(rest, 0) = rest
    BY <1>1, RestEnds
  <1> QED
    BY <1>4, <1>5, <1>6 DEF Init, Paid, Total, all, s, rest

\* What was spent is within the budget.
LEMMA PaidBounds ==
    ASSUME Inv, Paid
    PROVE  runs <= Total
  <1>1. stack \in Seq(Frames) /\ Len(stack) \in Nat
    BY LenProperties DEF Inv, Typed
  <1> QED
    BY <1>1 DEF Paid, Within

\* After a panic only what was spent counts.
Spent == IF pc = "panicked" THEN runs <= Total ELSE Paid

\* Every step keeps what is spent and what is left within the budget.
LEMMA NextKeepsSpent == Inv /\ Spent /\ [Next]_vars => Spent'
  <1> SUFFICES ASSUME Inv, Spent, [Next]_vars PROVE Spent'
    OBVIOUS
  <1>1. CASE UNCHANGED vars
    BY <1>1 DEF vars, Spent, Paid, Total
  <1>2. CASE pc = "panicked" /\ Next
    <2>1. ~Busy /\ ~(pc \in {"primary", "breaker", "fallbacks"})
      BY <1>2 DEF Inv, Nesting, Busy
    <2>2. UNCHANGED vars
      BY <1>2, <2>1 DEF Next, Attempt, Panics, GiveUp, Exhausted, NextInChain, Allowed, RunProtected, Refused,
         RunTimed, TimesOut, OperationEnds, AttemptEnds, ChainEnds, WrappedEnds, NextPart, EndComposite,
         Active, Composing, PrimaryEnds, BreakerAllows, BreakerRefuses, NextFallback, FallbackSucceeds, Done
    <2> QED
      BY <1>1, <2>2
  <1>3. CASE pc # "panicked" /\ Panics
    <2>1. runs <= Total
      BY <1>3, PaidBounds DEF Spent
    <2> QED
      BY <1>3, <2>1 DEF Panics, Spent, Total
  <1>4. CASE pc # "panicked" /\ Next /\ ~Panics
    <2>1. Paid
      BY <1>4 DEF Spent
    <2>2. Paid'
      <3>1. UNCHANGED vars => Paid'
        BY <2>1 DEF vars, Paid, Total
      <3> QED
        BY <1>4, <2>1, <3>1, StartPaid, EndPaid, NextPartPaid, ExecutePaid DEF Next, Done
    <2>3. pc' # "panicked"
      BY <1>4 DEF Next, Attempt, GiveUp, Exhausted, NextInChain, Allowed, RunProtected, Refused,
         RunTimed, TimesOut, OperationEnds, AttemptEnds, ChainEnds, WrappedEnds, NextPart, EndComposite,
         Start, End, Quiet, Finish, PrimaryEnds, BreakerAllows, BreakerRefuses, NextFallback, FallbackSucceeds,
         Done, vars
    <2> QED
      BY <2>2, <2>3 DEF Spent
  <1> QED
    BY <1>1, <1>2, <1>3, <1>4

\* RunsBounded: RecoveryExecutor::execute starts the operation at most as often as the attempts,
\* wrappers and fallbacks of its strategies add up to, through composites nested to any depth and
\* whatever the breaker, the timeouts and the operation answer.
THEOREM RunsAreBounded == Spec => []RunsBounded
  <1>1. Init => Spent
    BY InitPaid DEF Init, Spent
  <1>2. Spec => [](Inv /\ Spent)
    BY <1>1, InitInv, NextKeepsInv, NextKeepsSpent, PTL DEF Spec
  <1>3. Inv /\ Spent => RunsBounded
    BY PaidBounds DEF Spent, RunsBounded, Total
  <1> QED
    BY <1>2, <1>3, PTL

-----------------------------------------------------------------------------
\* Delays

\* Induction over the naturals, for a set.
LEMMA AllNaturals ==
    ASSUME NEW T, 0 \in T, \A n \in Nat : n \in T => n + 1 \in T
    PROVE  Nat \subseteq T
  <1> DEFINE Bad == Nat \ T
  <1> SUFFICES ASSUME Bad # {} PROVE FALSE
    OBVIOUS
  <1>1. PICK m \in Bad : \A n \in Bad : m <= n
    BY LeastNatural
  <1>2. m # 0 /\ m \in Nat
    OBVIOUS
  <1>3. m - 1 \in Nat /\ m = (m - 1) + 1 /\ ~(m <= m - 1)
    BY <1>2
  <1>4. m - 1 \in T
    BY <1>1, <1>3
  <1> QED
    BY <1>3, <1>4

\* The powers of a number up to one of them.
Powers(m, n, g) ==
    /\ g \in [0 .. n -> Nat] /\ g[0] = 1
    /\ \A i \in 1 .. n : g[i] = m * g[i - 1]

\* They are determined, and exist.
LEMMA SamePowers ==
    ASSUME NEW m \in Nat, NEW k \in Nat, NEW n \in Nat, NEW g, NEW h,
           Powers(m, k, g), Powers(m, n, h)
    PROVE  \A i \in Nat : i <= k /\ i <= n => g[i] = h[i]
  <1> DEFINE T == {i \in Nat : i <= k /\ i <= n => g[i] = h[i]}
  <1>1. 0 \in T
    BY DEF Powers
  <1>2. ASSUME NEW i \in Nat, i \in T PROVE i + 1 \in T
    <2> SUFFICES ASSUME i + 1 <= k, i + 1 <= n PROVE g[i + 1] = h[i + 1]
      OBVIOUS
    <2>1. g[i] = h[i] /\ i + 1 \in 1 .. k /\ i + 1 \in 1 .. n /\ (i + 1) - 1 = i
      BY <1>2
    <2>2. g[i + 1] = m * g[i] /\ h[i + 1] = m * h[i]
      BY <2>1 DEF Powers
    <2> QED
      BY <2>1, <2>2
  <1> HIDE DEF T
  <1>3. Nat \subseteq T
    BY <1>1, <1>2, AllNaturals
  <1> QED
    BY <1>3 DEF T

LEMMA SomePowers ==
    ASSUME NEW m \in Nat, NEW n \in Nat
    PROVE  \E g : Powers(m, n, g)
  <1> DEFINE T == {i \in Nat : \E g : Powers(m, i, g)}
  <1>1. 0 \in T
    <2> DEFINE g == [i \in 0 .. 0 |-> 1]
    <2>1. Powers(m, 0, g)
      BY DEF Powers
    <2> QED
      BY <2>1
  <1>2. ASSUME NEW i \in Nat, i \in T PROVE i + 1 \in T
    <2>1. PICK g : Powers(m, i, g)
      BY <1>2
    <2>2. g[i] \in Nat
      BY <2>1 DEF Powers
    <2>3. m * g[i] \in Nat
      BY <2>2
    <2> DEFINE more == m * g[i]
               h == [j \in 0 .. i + 1 |-> IF j = i + 1 THEN more ELSE g[j]]
    <2>4. more \in Nat /\ more = m * g[i]
      BY <2>3
    <2> HIDE DEF more
    <2>5. h \in [0 .. i + 1 -> Nat] /\ h[0] = 1
      BY <2>1, <2>4 DEF Powers
    <2>6. ASSUME NEW j \in 1 .. i + 1 PROVE h[j] = m * h[j - 1]
      <3>1. h[j - 1] = g[j - 1]
        OBVIOUS
      <3>2. h[j] = m * g[j - 1]
        <4>1. CASE j = i + 1
          <5>1. h[j] = more /\ j - 1 = i
            BY <4>1
          <5> QED
            BY <2>4, <5>1
        <4>2. CASE j # i + 1
          <5>1. h[j] = g[j] /\ j \in 1 .. i
            BY <4>2
          <5> QED
            BY <2>1, <5>1 DEF Powers
        <4> QED
          BY <4>1, <4>2
      <3> QED
        BY <3>1, <3>2
    <2> HIDE DEF h
    <2>7. Powers(m, i + 1, h)
      BY <2>5, <2>6 DEF Powers
    <2> QED
      BY <2>7
  <1> HIDE DEF T
  <1>3. Nat \subseteq T
    BY <1>1, <1>2, AllNaturals
  <1> QED
    BY <1>3 DEF T

\* Power gives the powers: its definition, unfolded.
LEMMA PowerIs ==
    ASSUME NEW m \in Nat
    PROVE  /\ Power(m) \in [Nat -> Nat] /\ Power(m)[0] = 1
           /\ \A n \in Nat : Power(m)[n + 1] = m * Power(m)[n]
  <1> DEFINE g(n) == CHOOSE g : Powers(m, n, g)
             h == [n \in Nat |-> g(n)[n]]
             e(f) == [n \in Nat |-> IF n = 0 THEN 1 ELSE m * f[n - 1]]
  <1>1. \A n \in Nat : Powers(m, n, g(n))
    BY SomePowers
  <1> HIDE DEF g
  <1>2. ASSUME NEW n \in Nat PROVE h[n] = e(h)[n]
    <2>1. CASE n = 0
      BY <1>1, <2>1 DEF Powers
    <2>2. CASE n # 0
      <3>1. n - 1 \in Nat /\ n \in 1 .. n /\ n - 1 <= n /\ n - 1 <= n - 1
        BY <2>2
      <3>2. g(n)[n] = m * g(n)[n - 1]
        BY <1>1, <3>1 DEF Powers
      <3>3. g(n)[n - 1] = g(n - 1)[n - 1]
        BY <1>1, <3>1, SamePowers
      <3>4. h[n] = m * h[n - 1]
        BY <3>1, <3>2, <3>3
      <3> HIDE DEF h
      <3> QED
        BY <2>2, <3>4
    <2> QED
      BY <2>1, <2>2
  <1>3. h = e(h)
    <2>1. h = [n \in Nat |-> h[n]]
      OBVIOUS
    <2> HIDE DEF h
    <2> QED
      BY <1>2, <2>1
  <1>4. Power(m) = e(Power(m))
    <2> HIDE DEF h
    <2> QED
      BY <1>3, Zenon DEF Power
  <1>5. Power(m)[0] = 1 /\ \A n \in Nat : Power(m)[n + 1] = m * Power(m)[n]
    <2>1. \A n \in Nat : Power(m)[n] = IF n = 0 THEN 1 ELSE m * Power(m)[n - 1]
      BY <1>4
    <2>2. \A n \in Nat : n + 1 \in Nat /\ n + 1 # 0 /\ (n + 1) - 1 = n
      OBVIOUS
    <2> QED
      BY <2>1, <2>2
  <1>6. Power(m) \in [Nat -> Nat]
    <2> DEFINE T == {n \in Nat : Power(m)[n] \in Nat}
    <2>1. 0 \in T
      BY <1>5
    <2>2. ASSUME NEW n \in Nat, n \in T PROVE n + 1 \in T
      BY <1>5, <2>2
    <2>3. Nat \subseteq T
      <3> HIDE DEF T
      <3> QED
        BY <2>1, <2>2, AllNaturals
    <2>4. Power(m) = [n \in Nat |-> Power(m)[n]]
      BY <1>4, Zenon
    <2> QED
      BY <2>3, <2>4
  <1> QED
    BY <1>5, <1>6

\* Division with rest.
LEMMA DivIs ==
    ASSUME NEW a \in Nat, NEW b \in Nat \ {0}
    PROVE  a \div b \in Nat /\ (a \div b) * b <= a /\ a < (a \div b + 1) * b
  <1>1. a \div b \in Int
    OBVIOUS
  <1>2. (a \div b) * b <= a /\ a < (a \div b) * b + b
    OBVIOUS
  <1>3. a \div b >= 0
    OBVIOUS
  <1> QED
    BY <1>1, <1>2, <1>3

\* The quotient cut off and saturated is within the limit.
LEMMA WholeIs ==
    ASSUME NEW a \in Nat, NEW b \in Nat, NEW limit \in Nat
    PROVE  Whole(a, b, limit) \in 0 .. limit
  <1>1. b # 0 => a \div b \in Nat
    BY DivIs
  <1> QED
    BY <1>1 DEF Whole

\* A larger quotient, or an infinite one, is cut off to no less.
LEMMA WholeGrows ==
    ASSUME NEW a \in Nat, NEW b \in Nat, NEW c \in Nat, NEW d \in Nat, NEW limit \in Nat,
           IF d = 0 THEN a > 0 => c > 0 ELSE b > 0 /\ a * d <= c * b
    PROVE  Whole(a, b, limit) <= Whole(c, d, limit)
  <1>1. Whole(a, b, limit) \in 0 .. limit /\ Whole(c, d, limit) \in 0 .. limit
    BY WholeIs
  <1>2. CASE a = 0
    <2>1. Whole(a, b, limit) = 0
      BY <1>2 DEF Whole
    <2> QED
      BY <1>1, <2>1
  <1>3. CASE a # 0 /\ d = 0
    <2>1. Whole(c, d, limit) = limit
      BY <1>3 DEF Whole
    <2> QED
      BY <1>1, <2>1
  <1>4. CASE a # 0 /\ d # 0
    <2> DEFINE k == a \div b
               l == c \div d
    <2>1. b > 0 /\ a * d <= c * b
      BY <1>4
    <2>2. /\ k \in Nat /\ k * b <= a
          /\ l \in Nat /\ c < (l + 1) * d
      BY <1>4, <2>1, DivIs
    <2>3. c # 0
      <3>1. a * d > 0
        BY <1>4
      <3> QED
        BY <2>1, <3>1
    <2>4. Whole(a, b, limit) = (IF k > limit THEN limit ELSE k) /\ Whole(c, d, limit) = IF l > limit THEN limit ELSE l
      BY <1>4, <2>1, <2>3 DEF Whole
    <2> HIDE DEF k, l
    <2>5. k <= l
      <3> SUFFICES ASSUME l + 1 <= k PROVE FALSE
        BY <2>2
      <3>1. (l + 1) * b <= k * b
        BY <2>2
      <3>2. (l + 1) * b <= a
        BY <2>2, <3>1
      <3>3. ((l + 1) * b) * d <= a * d
        BY <2>2, <3>2
      <3>4. c * b < ((l + 1) * d) * b
        BY <2>1, <2>2
      <3>5. ((l + 1) * b) * d = ((l + 1) * d) * b
        BY <2>2
      <3> QED
        BY <2>1, <2>2, <3>3, <3>4, <3>5
    <2> QED
      BY <2>2, <2>4, <2>5
  <1> QED
    BY <1>2, <1>3, <1>4

\* The conversion of a float that is not negative.
LEMMA AsI64Is ==
    ASSUME NEW a \in Nat, NEW b
    PROVE  as_i64(Float(a, b)) = Whole(a, b, MaxMillis)
  BY DEF as_i64, Float

\* A delay before the clamp is no less than nothing, unless the multiplier is.
LEMMA RawDelay ==
    ASSUME NEW b \in BackoffType, NEW n \in Nat, b.type = "Fixed" \/ b.multiplier.num >= 0,
           NEW d \in Unclamped(b, n)
    PROVE  d \in Nat
  <1>1. /\ b.type \in {"Fixed", "Linear", "Exponential"} /\ b.initial \in Nat
        /\ b.multiplier.num \in Int /\ b.multiplier.den \in Nat /\ MaxMillis \in Nat /\ MaxI32 \in Nat
    BY WidthsAssumption DEF BackoffType, F64
  <1>2. \A x, y \in Nat : x * y \in Nat
    OBVIOUS
  <1>3. CASE b.type = "Fixed"
    BY <1>1, <1>3 DEF Unclamped
  <1>4. CASE b.type = "Linear"
    <2> DEFINE product == b.initial * b.multiplier.num * n
               extra == as_i64(Float(product, b.multiplier.den))
    <2>1. b.multiplier.num \in Nat
      BY <1>1, <1>4
    <2>2. product \in Nat
      BY <1>1, <1>2, <2>1
    <2> HIDE DEF product
    <2>3. extra \in Nat
      <3>1. extra = Whole(product, b.multiplier.den, MaxMillis)
        BY <2>2, AsI64Is
      <3>2. Whole(product, b.multiplier.den, MaxMillis) \in 0 .. MaxMillis
        BY <1>1, <2>2, WholeIs
      <3> QED
        BY <1>1, <3>1, <3>2
    <2>4. Unclamped(b, n) = UNION {Duration(b.initial + x) : x \in Duration(extra)}
      BY <1>4 DEF Unclamped, product
    <2> HIDE DEF extra
    <2>5. d = b.initial + extra
      BY <2>4 DEF Duration
    <2> QED
      BY <1>1, <2>3, <2>5
  <1>5. CASE b.type = "Exponential"
    <2> DEFINE e == as_i32(n)
               power == powi(b.multiplier, e)
    <2>1. b.multiplier.num \in Nat
      BY <1>1, <1>5
    <2>2. e \in Int
      BY <1>1 DEF as_i32
    <2>3. Unclamped(b, n) = Duration(as_i64(Float(b.initial * power.num, power.den)))
      BY <1>5 DEF Unclamped
    <2> HIDE DEF e
    <2>4. power.num \in Nat /\ power.den \in Nat
      <3>1. \A x, k \in Nat : Power(x)[k] \in Nat
        BY PowerIs
      <3>2. CASE e >= 0
        BY <1>1, <2>1, <2>2, <3>1, <3>2 DEF powi, Float
      <3>3. CASE ~(e >= 0)
        <4>1. Inverted(b.multiplier) = Float(b.multiplier.den, b.multiplier.num)
          BY <2>1 DEF Inverted
        <4>2. -e \in Nat
          BY <2>2, <3>3
        <4> QED
          BY <1>1, <2>1, <3>1, <3>3, <4>1, <4>2 DEF powi, Float
      <3> QED
        BY <3>2, <3>3
    <2> HIDE DEF power
    <2>5. b.initial * power.num \in Nat
      BY <1>1, <1>2, <2>4
    <2>6. as_i64(Float(b.initial * power.num, power.den)) \in Nat
      BY <1>1, <2>4, <2>5, AsI64Is, WholeIs
    <2> QED
      BY <2>3, <2>6 DEF Duration
  <1> QED
    BY <1>1, <1>3, <1>4, <1>5

\* Where the backoff grows, the delay before the clamp does.
LEMMA RawGrows ==
    ASSUME NEW b \in BackoffType, NEW n \in Nat, Growing(b, n + 1),
           NEW d \in Unclamped(b, n), NEW e \in Unclamped(b, n + 1)
    PROVE  d <= e
  <1>1. /\ b.type \in {"Fixed", "Linear", "Exponential"} /\ b.initial \in Nat
        /\ b.multiplier.num \in Int /\ b.multiplier.den \in Nat /\ MaxMillis \in Nat /\ MaxI32 \in Nat
    BY WidthsAssumption DEF BackoffType, F64
  <1>2. \A x, y \in Nat : x * y \in Nat
    OBVIOUS
  <1>3. CASE b.type = "Fixed"
    BY <1>1, <1>3 DEF Unclamped
  <1>4. CASE b.type = "Linear"
    <2> DEFINE m == b.multiplier.den
               p == b.initial * b.multiplier.num
               extra(k) == as_i64(Float(p * k, m))
    <2>1. b.multiplier.num \in Nat
      BY <1>1, <1>4 DEF Growing
    <2>2. p \in Nat /\ m \in Nat
      BY <1>1, <1>2, <2>1
    <2>3. \A k : Unclamped(b, k) = UNION {Duration(b.initial + x) : x \in Duration(extra(k))}
      BY <1>4 DEF Unclamped
    <2> HIDE DEF m, p
    <2>4. p * n \in Nat /\ p * (n + 1) \in Nat /\ p * n <= p * (n + 1)
      BY <2>2
    <2>5. (p * n) * m <= (p * (n + 1)) * m /\ (p * n > 0 => p * (n + 1) > 0)
      BY <2>2, <2>4
    <2> DEFINE u == p * n
               v == p * (n + 1)
    <2>6. extra(n) = Whole(u, m, MaxMillis) /\ extra(n + 1) = Whole(v, m, MaxMillis)
      BY <2>4, AsI64Is
    <2>7. u \in Nat /\ v \in Nat /\ u * m <= v * m /\ (u > 0 => v > 0)
      BY <2>4, <2>5
    <2>8. d = b.initial + extra(n) /\ e = b.initial + extra(n + 1)
      <3> HIDE DEF extra
      <3> QED
        BY <2>3 DEF Duration
    <2> HIDE DEF u, v, extra
    <2>9. Whole(u, m, MaxMillis) \in Nat /\ Whole(v, m, MaxMillis) \in Nat
      <3>1. \A w \in 0 .. MaxMillis : w \in Nat
        BY <1>1
      <3>2. Whole(u, m, MaxMillis) \in 0 .. MaxMillis /\ Whole(v, m, MaxMillis) \in 0 .. MaxMillis
        BY <1>1, <2>2, <2>7, WholeIs
      <3> QED
        BY <3>1, <3>2
    <2>10. Whole(u, m, MaxMillis) <= Whole(v, m, MaxMillis)
      BY <1>1, <2>2, <2>7, WholeGrows
    <2> QED
      BY <1>1, <2>6, <2>8, <2>9, <2>10
  <1>5. CASE b.type = "Exponential"
    <2> DEFINE p == b.multiplier.num
               q == b.multiplier.den
               x == Power(p)[n]
               y == Power(q)[n]
    <2>1. p \in Nat \ {0} /\ q \in Nat /\ q <= p /\ n + 1 <= MaxI32
      BY <1>1, <1>5 DEF Growing
    <2>2. n + 1 \in Nat /\ as_i32(n) = n /\ as_i32(n + 1) = n + 1
      BY <1>1, <2>1 DEF as_i32
    <2>3. /\ powi(b.multiplier, n) = Float(x, y)
          /\ powi(b.multiplier, n + 1) = Float(Power(p)[n + 1], Power(q)[n + 1])
      BY <2>2 DEF powi
    <2>4. /\ Unclamped(b, n) = Duration(as_i64(Float(b.initial * x, y)))
          /\ Unclamped(b, n + 1) = Duration(as_i64(Float(b.initial * Power(p)[n + 1], Power(q)[n + 1])))
      BY <1>5, <2>2, <2>3 DEF Unclamped, Float
    <2> HIDE DEF p, q
    <2>5. /\ x \in Nat /\ y \in Nat
          /\ Power(p)[n + 1] = p * x /\ Power(q)[n + 1] = q * y
      BY <2>1, PowerIs
    <2> HIDE DEF x, y
    <2> DEFINE i == b.initial
               s == i * x
               t == i * (p * x)
               z == q * y
    <2>6. s \in Nat /\ p * x \in Nat /\ t \in Nat /\ z \in Nat
      BY <1>1, <1>2, <2>1, <2>5
    <2>7. i \in Nat
      BY <1>1
    <2> HIDE DEF i
    <2>8. t = s * p
      BY <2>1, <2>5, <2>7
    <2>9. s > 0 => t > 0
      BY <2>1, <2>6, <2>8
    <2>10. d = as_i64(Float(s, y)) /\ e = as_i64(Float(t, z))
      BY <2>4, <2>5 DEF Duration, i
    <2>11. d = Whole(s, y, MaxMillis) /\ e = Whole(t, z, MaxMillis)
      BY <2>6, <2>10, AsI64Is
    <2>12. IF z = 0 THEN s > 0 => t > 0 ELSE y > 0 /\ s * z <= t * y
      <3>1. z # 0 => y > 0
        BY <2>1, <2>5
      <3>2. s * q <= s * p
        BY <2>1, <2>6
      <3>3. (s * q) * y <= t * y
        BY <2>1, <2>5, <2>6, <2>8, <3>2
      <3>4. s * z = (s * q) * y
        BY <2>1, <2>5, <2>6
      <3> QED
        BY <2>9, <3>1, <3>3, <3>4
    <2> HIDE DEF s, t, z
    <2> QED
      BY <1>1, <2>5, <2>6, <2>11, <2>12, WholeGrows
  <1> QED
    BY <1>1, <1>3, <1>4, <1>5

\* What a retry sleeps before attempt n + 1, counted from nothing.
Sleeps(b, n) == {as_u64(d) : d \in CalculateDelay(b, n)}

\* The sleeps are within the maximum, and grow where the backoff does.
LEMMA SleepIs ==
    ASSUME NEW b \in BackoffType, NEW n \in Nat, b.type = "Fixed" \/ b.multiplier.num >= 0, NEW d \in Sleeps(b, n)
    PROVE  /\ d \in Nat /\ d <= b.max
           /\ \E r \in Unclamped(b, n) : r \in Nat /\ d = IF r > b.max THEN b.max ELSE r
  <1>1. b.max \in Nat
    BY WidthsAssumption DEF BackoffType
  <1>2. PICK r \in Unclamped(b, n) : d = as_u64(IF r > b.max THEN b.max ELSE r)
    BY DEF Sleeps, CalculateDelay
  <1>3. r \in Nat
    BY RawDelay
  <1>4. d = IF r > b.max THEN b.max ELSE r
    BY <1>1, <1>2, <1>3 DEF as_u64
  <1> QED
    BY <1>1, <1>3, <1>4

LEMMA SleepGrows ==
    ASSUME NEW b \in BackoffType, NEW n \in Nat, Growing(b, n + 1),
           NEW d \in Sleeps(b, n), NEW e \in Sleeps(b, n + 1)
    PROVE  d <= e
  <1>1. b.max \in Nat /\ n + 1 \in Nat
    BY WidthsAssumption DEF BackoffType
  <1>2. b.type = "Fixed" \/ b.multiplier.num >= 0
    BY DEF Growing, BackoffType, F64
  <1>3. PICK r \in Unclamped(b, n) : r \in Nat /\ d = IF r > b.max THEN b.max ELSE r
    BY <1>2, SleepIs
  <1>4. PICK s \in Unclamped(b, n + 1) : s \in Nat /\ e = IF s > b.max THEN b.max ELSE s
    BY <1>1, <1>2, SleepIs
  <1>5. r <= s
    BY RawGrows
  <1> QED
    BY <1>1, <1>3, <1>4, <1>5

\* What a retry under way has waited before its last attempt.
Waited ==
    Busy /\ top.s.kind = "Retry" /\ top.n > 0 =>
        slept \in IF top.n = 1 THEN {0} ELSE Sleeps(top.s.backoff, top.n - 2)

\* Only the innermost strategy retries, so nothing else waits while it does.
LEMMA UpdateWaits ==
    ASSUME Inv, Busy, NEW frame \in Frames, frame.s = top.s, Update(frame),
           frame.s.kind = "Retry" /\ frame.n > 0 =>
               slept' \in IF frame.n = 1 THEN {0} ELSE Sleeps(frame.s.backoff, frame.n - 2)
    PROVE  Waited'
  <1>1. /\ stack' \in Seq(Frames) /\ Len(stack') = Len(stack) /\ Len(stack) \in Nat \ {0}
        /\ stack'[Len(stack)] = frame
    BY Updated, TopTyped DEF Inv
  <1>2. top' = frame
    BY <1>1 DEF top, Last
  <1> QED
    BY <1>2 DEF Waited

LEMMA ReturnWaits ==
    ASSUME Inv, Busy, NEW o, Return(o)
    PROVE  Waited'
  <1>1. stack' \in Seq(Frames) /\ \A i \in 1 .. Len(stack') : stack'[i].s.kind = "Composite"
    BY Popped DEF Inv
  <1>2. stack' # <<>> => Len(stack') \in 1 .. Len(stack')
    BY <1>1, LenProperties, EmptySeq
  <1>3. Busy' => top'.s.kind = "Composite"
    BY <1>1, <1>2 DEF Busy, top, Last
  <1> QED
    BY <1>3 DEF Waited

\* A strategy that has just begun has waited for nothing.
LEMMA BeginWaits ==
    ASSUME NEW s, Last(stack') = Frame(s)
    PROVE  Waited'
  <1>1. top'.n = 0
    BY DEF top, Frame
  <1> QED
    BY <1>1 DEF Waited

LEMMA NextKeepsWaited == Inv /\ Waited /\ [Next]_vars => Waited'
  <1> SUFFICES ASSUME Inv, Waited, [Next]_vars PROVE Waited'
    OBVIOUS
  <1>1. CASE UNCHANGED <<stack, slept>>
    BY <1>1 DEF Waited, Busy, top
  <1>2. CASE Attempt
    <2>1. Busy /\ top \in Frames /\ top.n \in Nat
      BY <1>2, TopTyped DEF Attempt, Active, Inv, Frames
    <2> DEFINE frame == [top EXCEPT !.n = top.n + 1]
    <2>2. frame \in Frames /\ frame.s = top.s /\ frame.n = top.n + 1
      BY <2>1 DEF Frames
    <2>3. Update(frame) /\ slept' \in IF top.n = 0 THEN {0} ELSE Sleeps(top.s.backoff, top.n - 1)
      BY <1>2 DEF Attempt, Delays, Sleeps
    <2> HIDE DEF frame
    <2>4. frame.n - 2 = top.n - 1 /\ (frame.n = 1 <=> top.n = 0)
      BY <2>1, <2>2
    <2>5. slept' \in IF frame.n = 1 THEN {0} ELSE Sleeps(frame.s.backoff, frame.n - 2)
      BY <2>2, <2>3, <2>4
    <2> QED
      BY <2>1, <2>2, <2>3, <2>5, UpdateWaits
  <1>3. CASE NextInChain \/ Allowed \/ RunProtected
    <2>1. Busy /\ top \in Frames /\ top.n \in Nat /\ top.s.kind # "Retry"
      BY <1>3, TopTyped DEF NextInChain, Allowed, RunProtected, Active, Inv, Frames
    <2>2. PICK n \in Nat : Update([top EXCEPT !.n = n])
      BY <1>3, <2>1 DEF NextInChain, Allowed, RunProtected
    <2>3. [top EXCEPT !.n = n] \in Frames /\ [top EXCEPT !.n = n].s = top.s
      BY <2>1 DEF Frames
    <2> QED
      BY <2>1, <2>2, <2>3, UpdateWaits
  <1>4. CASE RunTimed
    <2>1. stack' = stack /\ top.s.kind = "Timeout"
      BY <1>4 DEF RunTimed, Active
    <2> QED
      BY <2>1 DEF Waited, top
  <1>5. CASE GiveUp \/ Exhausted \/ Refused \/ TimesOut \/ EndComposite
    <2>1. Busy /\ \E o : Return(o)
      BY <1>5 DEF GiveUp, Exhausted, Refused, TimesOut, EndComposite, Active, Composing
    <2> QED
      BY <2>1, ReturnWaits
  <1>6. CASE OperationEnds
    <2>1. PICK r \in Results \cup OpErrors : AttemptEnds(r) \/ ChainEnds(r) \/ WrappedEnds(r)
      BY <1>6 DEF OperationEnds
    <2>2. Busy /\ top \in Frames /\ slept' = slept
      BY <2>1, TopTyped DEF AttemptEnds, ChainEnds, WrappedEnds, End, Inv
    <2>3. (\E o : Return(o)) \/ \E frame \in Frames : frame.s = top.s /\ frame.n = top.n /\ Update(frame)
      <3>1. CASE AttemptEnds(r)
        <4> DEFINE frame == [top EXCEPT !.has_failure = @ \/ r \in FAILED,
                                        !.last_error = IF r \in Results THEN "NotApplicable" ELSE r]
        <4>1. frame \in Frames /\ frame.s = top.s /\ frame.n = top.n
          BY <2>2 DEF Frames, Errors, OpErrors
        <4>2. (\E o : Return(o)) \/ Update(frame)
          BY <3>1 DEF AttemptEnds
        <4> QED
          BY <4>1, <4>2
      <3>2. CASE ChainEnds(r)
        BY <2>2, <3>2 DEF ChainEnds
      <3>3. CASE WrappedEnds(r)
        BY <3>3 DEF WrappedEnds
      <3> QED
        BY <2>1, <3>1, <3>2, <3>3
    <2>4. ASSUME NEW frame \in Frames, frame.s = top.s, frame.n = top.n, Update(frame) PROVE Waited'
      BY <2>2, <2>4, UpdateWaits DEF Waited
    <2> QED
      BY <2>2, <2>3, <2>4, ReturnWaits
  <1>7. CASE NextPart
    <2>1. /\ stack' = Append([stack EXCEPT ![Len(stack)].n = @ + 1], Frame(top.s.parts[top.n + 1]))
          /\ stack' \in Seq(Frames)
      BY <1>7, NextPartKeeps DEF NextPart, Inv, Typed
    <2>2. stack \in Seq(Frames) /\ Len(stack) \in Nat \ {0} /\ top \in Frames /\ top = stack[Len(stack)]
      BY <1>7, TopTyped DEF NextPart, Composing, Inv, Typed
    <2>3. [top EXCEPT !.n = top.n + 1] \in Frames
      <3>1. top.n + 1 \in Nat
        BY <2>2 DEF Frames
      <3> QED
        BY <2>2, <3>1 DEF Frames
    <2> DEFINE below == [stack EXCEPT ![Len(stack)].n = @ + 1]
    <2>4. below = [stack EXCEPT ![Len(stack)] = [top EXCEPT !.n = top.n + 1]]
      BY <2>2
    <2>5. below \in Seq(Frames)
      BY <2>2, <2>3, <2>4, ExceptSeq
    <2> HIDE DEF below
    <2>6. stack' = Append(below, Frame(top.s.parts[top.n + 1]))
      BY <2>1 DEF below
    <2>7. Last(stack') = Frame(top.s.parts[top.n + 1])
      <3> DEFINE part == Frame(top.s.parts[top.n + 1])
      <3>1. below \in Seq(Frames \cup {part}) /\ part \in Frames \cup {part}
        BY <2>5, SeqMonotonic
      <3> HIDE DEF part
      <3>2. Len(Append(below, part)) = Len(below) + 1 /\ Append(below, part)[Len(below) + 1] = part
        BY <3>1, AppendProperties
      <3> QED
        BY <2>6, <3>2 DEF Last, part
    <2> QED
      BY <2>7, BeginWaits
  <1>8. CASE NextFallback
    <2>1. CASE tried < Len(executor.fallbacks)
      <3>1. stack' = <<Frame(executor.fallbacks[tried + 1])>>
        BY <1>8, <2>1 DEF NextFallback
      <3>2. Last(stack') = Frame(executor.fallbacks[tried + 1])
        BY <3>1 DEF Last
      <3> QED
        BY <3>2, BeginWaits
    <2>2. CASE ~(tried < Len(executor.fallbacks))
      BY <1>1, <1>8, <2>2 DEF NextFallback, Idle
    <2> QED
      BY <2>1, <2>2
  <1>9. CASE Panics
    BY <1>9 DEF Panics, Waited, Busy
  <1>10. CASE PrimaryEnds \/ BreakerAllows \/ BreakerRefuses \/ FallbackSucceeds \/ Done \/ UNCHANGED vars
    BY <1>1, <1>10 DEF PrimaryEnds, BreakerAllows, BreakerRefuses, FallbackSucceeds, Done, Idle, vars
  <1> QED
    BY <1>2, <1>3, <1>4, <1>5, <1>6, <1>7, <1>8, <1>9, <1>10 DEF Next

\* BackoffGrows: before each attempt of RetryStrategy::execute after the first, the loop
\* sleeps no longer than the maximum unless the multiplier is negative, and no shorter
\* than before where the backoff is one that grows: for every float multiplier, infinite
\* ones included, all widths, and whatever strategies surround the retry.
THEOREM DelaysGrow == Spec => BackoffGrows
  <1>1. Init => Waited
    <2> SUFFICES ASSUME Init PROVE Waited
      OBVIOUS
    <2>1. Last(stack) = Frame(executor.primary)
      BY DEF Init, Last
    <2> QED
      BY <2>1 DEF Waited, top, Frame
  <1> DEFINE b == top.s.backoff
             A == Attempt /\ top.n > 0 =>
                      /\ b.multiplier.num >= 0 => slept' <= b.max
                      /\ Growing(b, top.n - 1) => slept <= slept'
  <1>2. ASSUME Inv, Waited PROVE A
    <2> SUFFICES ASSUME Attempt, top.n > 0
                 PROVE  /\ b.multiplier.num >= 0 => slept' <= b.max
                        /\ Growing(b, top.n - 1) => slept <= slept'
      OBVIOUS
    <2>1. Busy /\ top.s.kind = "Retry" /\ top.n \in Nat \ {0} /\ b \in BackoffType
      BY <1>2, TopTyped, StrategiesAssumption DEF Inv, Frames, Attempt, Active
    <2>2. slept' \in Sleeps(b, top.n - 1)
      BY <2>1 DEF Attempt, Delays, Sleeps
    <2>3. Waited /\ top.n - 1 \in Nat
      BY <1>2, <2>1
    <2> HIDE DEF b
    <2>4. b.type = "Fixed" \/ b.multiplier.num >= 0 => slept' \in Nat /\ slept' <= b.max
      BY <2>1, <2>2, <2>3, SleepIs
    <2>5. ASSUME Growing(b, top.n - 1) PROVE slept <= slept'
      <3>1. b.type = "Fixed" \/ b.multiplier.num >= 0
        BY <2>1, <2>5 DEF Growing, BackoffType, F64
      <3>2. CASE top.n = 1
        <4>1. slept = 0
          BY <2>1, <2>3, <3>2 DEF Waited
        <4> QED
          BY <2>4, <3>1, <4>1
      <3>3. CASE top.n # 1
        <4> DEFINE n == top.n - 2
        <4>1. n \in Nat /\ n + 1 = top.n - 1
          BY <2>1, <3>3
        <4>2. slept \in Sleeps(b, n)
          BY <2>1, <2>3, <3>3 DEF Waited, b
        <4>3. Growing(b, n + 1) /\ slept' \in Sleeps(b, n + 1)
          BY <2>2, <2>5, <4>1
        <4> HIDE DEF n
        <4> QED
          BY <2>1, <4>1, <4>2, <4>3, SleepGrows
      <3> QED
        BY <3>2, <3>3
    <2> QED
      BY <2>4, <2>5
  <1>3. Inv /\ Waited /\ [Next]_vars => [A]_vars
    BY <1>2
  <1>4. [][A]_vars => BackoffGrows
    BY PTL DEF BackoffGrows
  <1> QED
    BY <1>1, <1>3, <1>4, InitInv, NextKeepsInv, NextKeepsWaited, PTL DEF Spec

=============================================================================
