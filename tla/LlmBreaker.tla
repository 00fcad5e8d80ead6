------------------------------ MODULE LlmBreaker ------------------------------
(***************************************************************************)
(* RagPipeline.run and stream_run                                          *)
(* (src/production_rag/rag/pipeline/rag_pipeline.py): request threads      *)
(* calling the LLM through one circuit breaker of the process, run with    *)
(* retries around the breaker, stream_run inside it.                       *)
(*                                                                         *)
(* pybreaker holds its lock while it makes the call.  It opens the circuit *)
(* after FailMax failures in a row, refuses calls for reset_timeout, then  *)
(* lets one through and closes or opens the circuit by its result.         *)
(*                                                                         *)
(* Left out: fallback_llm, which nothing sets; what is retrieved, and the  *)
(* prompt; the durations of the waits between attempts.                    *)
(***************************************************************************)
EXTENDS Integers, FiniteSets

CONSTANTS
    Runs,         \* the threads that call run
    Streams,      \* the threads that call stream_run
    FailMax,      \* fail_max of the breaker
    MaxAttempts,  \* stop_after_attempt of the retries
    None          \* nobody

Threads == Runs \cup Streams

ASSUME BreakerAssumption ==
    /\ Runs \cap Streams = {}
    /\ FailMax \in Nat \ {0}
    /\ MaxAttempts \in Nat \ {0}
    /\ None \notin Threads

VARIABLES
    healthy,   \* the LLM answers
    circuit,   \* the state of llm_breaker
    failures,  \* its fail_counter, which matters up to FailMax only
    elapsed,   \* reset_timeout has passed since it opened
    lock,      \* who holds its lock
    pc,        \* what each thread is doing
    attempt,   \* attempt[t]: the number of the attempt of t
    streak     \* history: LLM calls that failed in a row, up to FailMax

breakerVars == <<circuit, failures, elapsed, lock>>
vars == <<healthy, breakerVars, pc, attempt, streak>>

TypeOK ==
    /\ healthy \in BOOLEAN
    /\ circuit \in {"closed", "open", "half-open"}
    /\ failures \in 0 .. FailMax
    /\ elapsed \in BOOLEAN
    /\ lock \in Threads \cup {None}
    /\ pc \in [Threads -> {"idle", "retrieve", "attempt", "call", "wait", "verify"}]
    /\ attempt \in [Threads -> 1 .. MaxAttempts]
    /\ streak \in 0 .. FailMax

Init ==
    /\ healthy = TRUE
    /\ circuit = "closed"
    /\ failures = 0
    /\ elapsed = FALSE
    /\ lock = None
    /\ pc = [t \in Threads |-> "idle"]
    /\ attempt = [t \in Threads |-> 1]
    /\ streak = 0

UpToMax(n) == IF n < FailMax THEN n ELSE FailMax

Goto(t, to) == pc' = [pc EXCEPT ![t] = to]

-----------------------------------------------------------------------------
(* The breaker.                                                            *)

\* Mutant: the lock is not held during the call.
EnterNoLock(t) ==
    /\ pc[t] = "attempt"
    /\ circuit = "open" => elapsed
    /\ circuit' = IF circuit = "open" THEN "half-open" ELSE circuit
    /\ Goto(t, "call")
    /\ UNCHANGED <<healthy, failures, elapsed, lock, attempt, streak>>

\* The call is let through; in an open circuit it is the probe.
Enter(t) ==
    /\ pc[t] = "attempt"
    /\ lock = None
    /\ circuit = "open" => elapsed
    /\ circuit' = IF circuit = "open" THEN "half-open" ELSE circuit
    /\ lock' = t
    /\ Goto(t, "call")
    /\ UNCHANGED <<healthy, failures, elapsed, attempt, streak>>

\* Mutant: a success leaves the circuit as it is.
SucceedNoClose ==
    /\ failures' = 0
    /\ elapsed' = FALSE
    /\ lock' = None
    /\ UNCHANGED circuit

\* The call has returned: success in any state closes the circuit.
Succeed ==
    /\ circuit' = "closed"
    /\ failures' = 0
    /\ elapsed' = FALSE
    /\ lock' = None

\* Mutant: the counter of a probe starts anew.
FailProbeCounted ==
    /\ failures' = IF circuit = "half-open" THEN 1 ELSE UpToMax(failures + 1)
    /\ circuit' = IF failures' = FailMax THEN "open" ELSE circuit
    /\ elapsed' = FALSE
    /\ lock' = None

\* Mutant: an exception leaves the lock taken.
FailNoRelease ==
    /\ failures' = UpToMax(failures + 1)
    /\ circuit' = IF circuit = "half-open" \/ failures' = FailMax THEN "open" ELSE circuit
    /\ elapsed' = FALSE
    /\ UNCHANGED lock

\* The call has raised.
Fail ==
    /\ failures' = UpToMax(failures + 1)
    /\ circuit' = IF circuit = "half-open" \/ failures' = FailMax THEN "open" ELSE circuit
    /\ elapsed' = FALSE
    /\ lock' = None

ResetTimeout ==
    /\ circuit = "open" /\ ~elapsed
    /\ elapsed' = TRUE
    /\ UNCHANGED <<healthy, circuit, failures, lock, pc, attempt, streak>>

-----------------------------------------------------------------------------
(* run.                                                                    *)

StartRun(t) ==
    /\ t \in Runs
    /\ pc[t] = "idle"
    /\ Goto(t, "retrieve")
    /\ UNCHANGED <<healthy, breakerVars, attempt, streak>>

\* Without nodes, or when retrieving raises, run answers without the LLM.
Retrieve(t) ==
    /\ pc[t] = "retrieve"
    /\ Goto(t, "attempt") \/ Goto(t, "idle")
    /\ UNCHANGED <<healthy, breakerVars, attempt, streak>>

\* Any exception is retried, also that of an open circuit.  After the last
\* attempt run turns the RetryError into an answer.
EndAttempt(t) ==
    IF attempt[t] < MaxAttempts
    THEN /\ attempt' = [attempt EXCEPT ![t] = @ + 1]
         /\ Goto(t, "wait")
    ELSE /\ attempt' = [attempt EXCEPT ![t] = 1]
         /\ Goto(t, "idle")

Refused(t) ==
    /\ t \in Runs
    /\ pc[t] = "attempt"
    /\ lock = None
    /\ circuit = "open" /\ ~elapsed
    /\ EndAttempt(t)
    /\ UNCHANGED <<healthy, breakerVars, streak>>

LlmRaises(t) ==
    /\ t \in Runs
    /\ pc[t] = "call"
    /\ ~healthy
    /\ Fail
    /\ EndAttempt(t)
    /\ streak' = UpToMax(streak + 1)
    /\ UNCHANGED healthy

LlmAnswers(t) ==
    /\ t \in Runs
    /\ pc[t] = "call"
    /\ healthy
    /\ Succeed
    /\ attempt' = [attempt EXCEPT ![t] = 1]
    /\ Goto(t, "verify")
    /\ streak' = 0
    /\ UNCHANGED healthy

Wait(t) ==
    /\ pc[t] = "wait"
    /\ Goto(t, "attempt")
    /\ UNCHANGED <<healthy, breakerVars, attempt, streak>>

\* _verify_faithfulness calls the LLM, not through the breaker, unless the
\* answer says that there is none, and takes an exception for a yes.
Verify(t) ==
    /\ pc[t] = "verify"
    /\ Goto(t, "idle")
    /\ streak' \in {streak, IF healthy THEN 0 ELSE UpToMax(streak + 1)}
    /\ UNCHANGED <<healthy, breakerVars, attempt>>

-----------------------------------------------------------------------------
(* stream_run.                                                             *)

StartStream(t) ==
    /\ t \in Streams
    /\ pc[t] = "idle"
    /\ Goto(t, "attempt")
    /\ UNCHANGED <<healthy, breakerVars, attempt, streak>>

\* stream_run itself raises CircuitBreakerError.
StreamRefused(t) ==
    /\ t \in Streams
    /\ pc[t] = "attempt"
    /\ lock = None
    /\ circuit = "open" /\ ~elapsed
    /\ Goto(t, "idle")
    /\ UNCHANGED <<healthy, breakerVars, attempt, streak>>

\* stream_run returns, whatever was raised in it or will be by the generator
\* it returns; without nodes the LLM is not called.
StreamReturns(t) ==
    /\ t \in Streams
    /\ pc[t] = "call"
    /\ Succeed
    /\ Goto(t, "idle")
    /\ streak' \in {streak, IF healthy THEN 0 ELSE UpToMax(streak + 1)}
    /\ UNCHANGED <<healthy, attempt>>

-----------------------------------------------------------------------------

\* The LLM goes down or comes back.
LlmChanges ==
    /\ healthy' = ~healthy
    /\ UNCHANGED <<breakerVars, pc, attempt, streak>>

Serve(t) ==
    \/ Retrieve(t)
    \/ Enter(t)
    \/ Refused(t)
    \/ LlmRaises(t)
    \/ LlmAnswers(t)
    \/ Wait(t)
    \/ Verify(t)
    \/ StreamRefused(t)
    \/ StreamReturns(t)

Next ==
    \/ \E t \in Threads : StartRun(t) \/ StartStream(t) \/ Serve(t)
    \/ ResetTimeout
    \/ LlmChanges

\* Calls to the LLM end, waits end, and a thread that keeps finding the lock
\* free gets it.
Fairness ==
    /\ \A t \in Threads : SF_vars(Serve(t))
    /\ WF_vars(ResetTimeout)

Spec == Init /\ [][Next]_vars
FairSpec == Spec /\ Fairness

-----------------------------------------------------------------------------

\* The breaker makes one call at a time, and the circuit is half open only
\* while the probe is under way.
OneCallAtATime ==
    /\ \A t \in Threads : pc[t] = "call" <=> lock = t
    /\ circuit = "half-open" => lock # None

\* An open circuit is not closed by a call that began before it opened, and a
\* failing probe does not close it.
OnlyAProbeCloses ==
    [][/\ circuit = "open" => circuit' # "closed"
       /\ circuit = "half-open" /\ ~healthy /\ lock \in Runs => circuit' # "closed"]_vars

\* Every request ends, also while the LLM is down, whatever the others do.
RequestsEnd == \A t \in Threads : pc[t] # "idle" ~> pc[t] = "idle"

\* Once the LLM is up for good, requests that keep coming close the circuit.
Recovers ==
    <>[]healthy /\ []<>(\E t \in Threads : pc[t] = "attempt") => <>[](circuit = "closed")

\* rag_pipeline.py: the circuit breaker is for LLM calls and opens after five
\* failures.
FailuresOpen == streak = FailMax => circuit # "closed"
=============================================================================
