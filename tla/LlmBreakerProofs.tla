--------------------------- MODULE LlmBreakerProofs ---------------------------
(***************************************************************************)
(* Theorems about LlmBreaker, for every set of threads, every fail_max and *)
(* every number of attempts.                                               *)
(***************************************************************************)
EXTENDS LlmBreaker, TLAPS

\* Whoever holds the lock was let through, so the circuit is not open.
HolderNotOpen == lock # None => circuit # "open"

\* The inductive invariant.  HolderNotOpen is what keeps a call that returns
\* from closing an open circuit.
BreakerInv == TypeOK /\ OneCallAtATime /\ HolderNotOpen

\* The counter of failures stays within fail_max.
LEMMA UpToMaxBounded ==
    ASSUME NEW n \in Nat
    PROVE  UpToMax(n) \in 0 .. FailMax
BY BreakerAssumption DEF UpToMax

\* The first counts are within their limits.
LEMMA FirstCounts == 0 \in 0 .. FailMax /\ 1 \in 1 .. MaxAttempts
BY BreakerAssumption

\* The circuit is closed and nobody calls at the start.
LEMMA BreakerInvInit == Init => BreakerInv
<1> SUFFICES ASSUME Init PROVE BreakerInv
    OBVIOUS
<1>1. TypeOK
    BY FirstCounts DEF Init, TypeOK
<1>2. OneCallAtATime /\ HolderNotOpen
    BY BreakerAssumption DEF Init, OneCallAtATime, HolderNotOpen
<1> QED BY <1>1, <1>2 DEF BreakerInv

\* A thread that leaves its attempt is in no call and has attempts left.
LEMMA EndAttemptFacts ==
    ASSUME TypeOK, NEW t \in Threads, EndAttempt(t)
    PROVE  /\ pc' \in [Threads -> {"idle", "retrieve", "attempt", "call", "wait", "verify"}]
           /\ attempt' \in [Threads -> 1 .. MaxAttempts]
           /\ pc'[t] # "call"
           /\ \A s \in Threads \ {t} : pc'[s] = pc[s]
<1>1. CASE attempt[t] < MaxAttempts
    BY <1>1, BreakerAssumption DEF EndAttempt, Goto, TypeOK
<1>2. CASE ~(attempt[t] < MaxAttempts)
    BY <1>2, BreakerAssumption DEF EndAttempt, Goto, TypeOK
<1> QED BY <1>1, <1>2

\* Every step of a thread and every change around it keeps the invariant.
LEMMA BreakerInvStep == BreakerInv /\ [Next]_vars => BreakerInv'
<1> SUFFICES ASSUME BreakerInv, [Next]_vars
             PROVE  BreakerInv'
    OBVIOUS
<1> USE BreakerAssumption DEF BreakerInv, HolderNotOpen
<1>1. ASSUME NEW t \in Threads, StartRun(t) \/ StartStream(t)
      PROVE  BreakerInv'
    BY <1>1 DEF StartRun, StartStream, Goto, breakerVars, TypeOK, OneCallAtATime
<1>2. ASSUME NEW t \in Threads, Retrieve(t)
      PROVE  BreakerInv'
    BY <1>2 DEF Retrieve, Goto, breakerVars, TypeOK, OneCallAtATime
<1>3. ASSUME NEW t \in Threads, Enter(t)
      PROVE  BreakerInv'
    BY <1>3 DEF Enter, Goto, TypeOK, OneCallAtATime
<1>4. ASSUME NEW t \in Threads, Refused(t)
      PROVE  BreakerInv'
    BY <1>4, EndAttemptFacts DEF Refused, breakerVars, TypeOK, OneCallAtATime
<1>5. ASSUME NEW t \in Threads, LlmRaises(t)
      PROVE  BreakerInv'
    <2>1. lock = t /\ lock' = None /\ circuit' \in {"closed", "open"}
        BY <1>5 DEF LlmRaises, Fail, TypeOK, OneCallAtATime
    <2>2. failures' \in 0 .. FailMax /\ streak' \in 0 .. FailMax
        BY <1>5, UpToMaxBounded DEF LlmRaises, Fail, TypeOK
    <2>3. TypeOK'
        BY <1>5, <2>1, <2>2, EndAttemptFacts DEF LlmRaises, Fail, TypeOK
    <2>4. OneCallAtATime'
        BY <1>5, <2>1, EndAttemptFacts DEF LlmRaises, OneCallAtATime
    <2> QED BY <2>1, <2>3, <2>4
<1>6. ASSUME NEW t \in Threads, LlmAnswers(t)
      PROVE  BreakerInv'
    <2>1. TypeOK'
        BY <1>6, FirstCounts DEF LlmAnswers, Succeed, Goto, TypeOK
    <2>2. OneCallAtATime'
        BY <1>6 DEF LlmAnswers, Succeed, Goto, TypeOK, OneCallAtATime
    <2> QED BY <1>6, <2>1, <2>2 DEF LlmAnswers, Succeed
<1>7. ASSUME NEW t \in Threads, Wait(t)
      PROVE  BreakerInv'
    BY <1>7 DEF Wait, Goto, breakerVars, TypeOK, OneCallAtATime
<1>8. ASSUME NEW t \in Threads, Verify(t)
      PROVE  BreakerInv'
    <2>1. streak' \in 0 .. FailMax
        BY <1>8, UpToMaxBounded DEF Verify, TypeOK
    <2> QED BY <1>8, <2>1 DEF Verify, Goto, breakerVars, TypeOK, OneCallAtATime
<1>9. ASSUME NEW t \in Threads, StreamRefused(t)
      PROVE  BreakerInv'
    BY <1>9 DEF StreamRefused, Goto, breakerVars, TypeOK, OneCallAtATime
<1>10. ASSUME NEW t \in Threads, StreamReturns(t)
       PROVE  BreakerInv'
    <2>1. streak' \in 0 .. FailMax
        BY <1>10, UpToMaxBounded DEF StreamReturns, TypeOK
    <2>2. TypeOK'
        BY <1>10, <2>1, FirstCounts DEF StreamReturns, Succeed, Goto, TypeOK
    <2>3. OneCallAtATime'
        BY <1>10 DEF StreamReturns, Succeed, Goto, TypeOK, OneCallAtATime
    <2> QED BY <1>10, <2>2, <2>3 DEF StreamReturns, Succeed
<1>11. CASE ResetTimeout
    BY <1>11 DEF ResetTimeout, TypeOK, OneCallAtATime
<1>12. CASE LlmChanges
    BY <1>12 DEF LlmChanges, breakerVars, TypeOK, OneCallAtATime
<1>13. CASE UNCHANGED vars
    BY <1>13 DEF vars, breakerVars, TypeOK, OneCallAtATime
<1> QED BY <1>1, <1>2, <1>3, <1>4, <1>5, <1>6, <1>7, <1>8, <1>9, <1>10, <1>11, <1>12, <1>13
        DEF Next, Serve

\* The invariant holds in every reachable state.
LEMMA BreakerInvariant == Spec => []BreakerInv
BY BreakerInvInit, BreakerInvStep, PTL DEF Spec

\* rag_pipeline.py, llm_breaker: the breaker stays well typed; in particular
\* its counter stays within fail_max and the attempts within their limit.
THEOREM BreakerTypeCorrect == Spec => []TypeOK
BY BreakerInvariant, PTL DEF BreakerInv

\* However many request threads share llm_breaker, one call at a time goes
\* through it, and it is half open only during the probe.
THEOREM OneCallThroughTheBreaker == Spec => []OneCallAtATime
BY BreakerInvariant, PTL DEF BreakerInv

\* A step that closes the circuit is the return of a call that was let
\* through while the circuit was not open, and a failing run keeps it open.
LEMMA ProbeStep ==
    ASSUME BreakerInv, [Next]_vars
    PROVE  /\ circuit = "open" => circuit' # "closed"
           /\ circuit = "half-open" /\ ~healthy /\ lock \in Runs => circuit' # "closed"
<1> USE BreakerAssumption DEF BreakerInv
<1>1. ASSUME NEW t \in Threads, StartRun(t) \/ StartStream(t) \/ Retrieve(t) \/ Refused(t)
                                \/ Wait(t) \/ Verify(t) \/ StreamRefused(t)
      PROVE  circuit' = circuit
    BY <1>1 DEF StartRun, StartStream, Retrieve, Refused, Wait, Verify, StreamRefused,
                breakerVars
<1>2. ASSUME NEW t \in Threads, Enter(t)
      PROVE  /\ circuit = "open" => circuit' # "closed"
             /\ lock = None
    BY <1>2 DEF Enter
<1>3. ASSUME NEW t \in Threads, LlmRaises(t)
      PROVE  circuit' = circuit \/ circuit' = "open"
    BY <1>3 DEF LlmRaises, Fail
<1>4. ASSUME NEW t \in Threads, LlmAnswers(t)
      PROVE  circuit # "open" /\ healthy
    BY <1>4 DEF LlmAnswers, OneCallAtATime, HolderNotOpen
<1>5. ASSUME NEW t \in Threads, StreamReturns(t)
      PROVE  circuit # "open" /\ lock \notin Runs
    BY <1>5 DEF StreamReturns, OneCallAtATime, HolderNotOpen
<1>6. ASSUME ResetTimeout \/ LlmChanges \/ UNCHANGED vars
      PROVE  circuit' = circuit
    BY <1>6 DEF ResetTimeout, LlmChanges, vars, breakerVars
<1>7. None \notin Runs
    BY DEF Threads
<1> QED BY <1>1, <1>2, <1>3, <1>4, <1>5, <1>6, <1>7 DEF Next, Serve

\* An open circuit is closed by a probe and by nothing else: not by a call
\* begun before it opened, and not by a probe of run that fails.
THEOREM OpenCircuitIsProbed == Spec => OnlyAProbeCloses
<1>1. BreakerInv /\ [Next]_vars
        => [/\ circuit = "open" => circuit' # "closed"
            /\ circuit = "half-open" /\ ~healthy /\ lock \in Runs => circuit' # "closed"]_vars
    BY ProbeStep
<1> QED BY <1>1, BreakerInvariant, PTL DEF Spec, OnlyAProbeCloses

-----------------------------------------------------------------------------
(* Requests end.                                                           *)

\* The most steps a request can still take: an attempt, its call and the wait
\* before the next one, for every attempt it has left.
StepsLeft(t) ==
    CASE pc[t] = "idle" -> 0
      [] pc[t] = "verify" -> 1
      [] pc[t] = "call" -> 3 * (MaxAttempts - attempt[t]) + 2
      [] pc[t] = "attempt" -> 3 * (MaxAttempts - attempt[t]) + 3
      [] pc[t] = "wait" -> 3 * (MaxAttempts - attempt[t]) + 4
      [] pc[t] = "retrieve" -> 3 * MaxAttempts + 1

StepsBounded == \A t \in Threads : StepsLeft(t) \in 0 .. 3 * MaxAttempts + 1

\* A request that steps has fewer steps left, and nothing but its start gives it
\* more.
TowardsTheEnd ==
    \A t \in Threads :
        /\ Serve(t) => StepsLeft(t)' < StepsLeft(t)
        /\ StepsLeft(t)' > StepsLeft(t) => pc[t] = "idle"

\* By cases of the step, a thread has a number of steps left.
LEMMA StepsLeftNumber ==
    ASSUME TypeOK, NEW t \in Threads
    PROVE  StepsLeft(t) \in 0 .. 3 * MaxAttempts + 1
<1>1. attempt[t] \in 1 .. MaxAttempts /\ MaxAttempts \in Nat
    BY BreakerAssumption DEF TypeOK
<1>2. pc[t] \in {"idle", "retrieve", "attempt", "call", "wait", "verify"}
    BY DEF TypeOK
<1> QED BY <1>1, <1>2 DEF StepsLeft

\* An attempt that ends leaves fewer steps than it had with its call to make,
\* and even than it had within the call.
LEMMA EndAttemptSteps ==
    ASSUME TypeOK, NEW t \in Threads, pc[t] \in {"attempt", "call"}, EndAttempt(t)
    PROVE  StepsLeft(t)' < StepsLeft(t)
<1>1. attempt[t] \in 1 .. MaxAttempts /\ MaxAttempts \in Nat
    BY BreakerAssumption DEF TypeOK
<1>2. CASE attempt[t] < MaxAttempts
    <2>1. pc'[t] = "wait" /\ attempt'[t] = attempt[t] + 1
        BY <1>2 DEF EndAttempt, Goto, TypeOK
    <2> QED BY <1>1, <2>1 DEF StepsLeft
<1>3. CASE ~(attempt[t] < MaxAttempts)
    <2>1. pc'[t] = "idle"
        BY <1>3 DEF EndAttempt, Goto, TypeOK
    <2> QED BY <1>1, <2>1 DEF StepsLeft
<1> QED BY <1>2, <1>3

\* Every step of a thread that serves a request leaves fewer.
LEMMA ServeSteps ==
    ASSUME TypeOK, NEW t \in Threads, Serve(t)
    PROVE  StepsLeft(t)' < StepsLeft(t)
<1>1. attempt[t] \in 1 .. MaxAttempts /\ MaxAttempts \in Nat
    BY BreakerAssumption DEF TypeOK
<1>2. t \in DOMAIN pc /\ t \in DOMAIN attempt
    BY DEF TypeOK
<1>3. CASE Refused(t) \/ LlmRaises(t)
    BY <1>3, EndAttemptSteps DEF Refused, LlmRaises
<1>4. CASE Retrieve(t)
    BY <1>1, <1>2, <1>4 DEF Retrieve, Goto, StepsLeft
<1>5. CASE Enter(t)
    BY <1>1, <1>2, <1>5 DEF Enter, Goto, StepsLeft
<1>6. CASE LlmAnswers(t)
    BY <1>1, <1>2, <1>6 DEF LlmAnswers, Goto, StepsLeft
<1>7. CASE Wait(t)
    BY <1>1, <1>2, <1>7 DEF Wait, Goto, StepsLeft
<1>8. CASE Verify(t)
    BY <1>1, <1>2, <1>8 DEF Verify, Goto, StepsLeft
<1>9. CASE StreamRefused(t)
    BY <1>1, <1>2, <1>9 DEF StreamRefused, Goto, StepsLeft
<1>10. CASE StreamReturns(t)
    BY <1>1, <1>2, <1>10 DEF StreamReturns, Goto, StepsLeft
<1> QED BY <1>3, <1>4, <1>5, <1>6, <1>7, <1>8, <1>9, <1>10 DEF Serve

\* The step of another thread changes nothing of a request's own.
LEMMA OtherThreadSteps ==
    ASSUME TypeOK, NEW s \in Threads, StartRun(s) \/ StartStream(s) \/ Serve(s),
           NEW t \in Threads, t # s
    PROVE  StepsLeft(t)' = StepsLeft(t)
<1>1. pc'[t] = pc[t] /\ attempt'[t] = attempt[t]
    <2> USE DEF TypeOK, Goto, EndAttempt
    <2>1. CASE StartRun(s) \/ StartStream(s)
        BY <2>1 DEF StartRun, StartStream
    <2>2. CASE Retrieve(s) \/ Enter(s) \/ Wait(s) \/ Verify(s)
        BY <2>2 DEF Retrieve, Enter, Wait, Verify
    <2>3. CASE Refused(s) \/ LlmRaises(s)
        BY <2>3 DEF Refused, LlmRaises
    <2>4. CASE LlmAnswers(s) \/ StreamRefused(s) \/ StreamReturns(s)
        BY <2>4 DEF LlmAnswers, StreamRefused, StreamReturns
    <2> QED BY <2>1, <2>2, <2>3, <2>4 DEF Serve
<1> QED BY <1>1 DEF StepsLeft

\* rag_pipeline.py, the retries of run: whatever the breaker, the LLM and the
\* other threads do, a request takes no more than 3 * MaxAttempts + 1 steps,
\* and among them MaxAttempts calls.  No retry starts another round of
\* retries, which is what RequestsEnd needs besides fairness.
THEOREM RequestsAreBounded ==
    Spec => []StepsBounded /\ [][TowardsTheEnd]_vars
<1>1. BreakerInv => StepsBounded
    BY StepsLeftNumber DEF BreakerInv, StepsBounded
<1>2. BreakerInv' => StepsBounded'
    BY <1>1, PTL
<1>3. BreakerInv /\ BreakerInv' /\ [Next]_vars => [TowardsTheEnd]_vars
    <2> SUFFICES ASSUME BreakerInv, BreakerInv', Next, NEW t \in Threads
                 PROVE  /\ Serve(t) => StepsLeft(t)' < StepsLeft(t)
                        /\ StepsLeft(t)' > StepsLeft(t) => pc[t] = "idle"
        BY DEF TowardsTheEnd
    <2>1. StepsLeft(t) \in Nat /\ StepsLeft(t)' \in Nat
        BY <1>1, <1>2, BreakerAssumption DEF StepsBounded
    <2>2. Serve(t) => StepsLeft(t)' < StepsLeft(t)
        BY ServeSteps DEF BreakerInv
    <2>3. ASSUME ~Serve(t), pc[t] # "idle" PROVE StepsLeft(t)' = StepsLeft(t)
        <3>1. CASE \E s \in Threads : StartRun(s) \/ StartStream(s) \/ Serve(s)
            BY <2>3, <3>1, OtherThreadSteps DEF BreakerInv, StartRun, StartStream
        <3>2. CASE ResetTimeout \/ LlmChanges
            BY <3>2 DEF ResetTimeout, LlmChanges, StepsLeft
        <3> QED BY <3>1, <3>2 DEF Next
    <2> QED BY <2>1, <2>2, <2>3
<1> QED BY <1>1, <1>3, BreakerInvariant, PTL DEF Spec
=============================================================================
