----------------------------- MODULE RateLimiter -----------------------------
(***************************************************************************)
(* RateLimiter.check on RedisComponent                                     *)
(* (src/production_rag/components/cache/rate_limiter.py,                   *)
(* redis_component.py), as the middleware of launcher.py calls it: each    *)
(* request reads the clock, increments the counter of that window and, if  *)
(* it was the first, sets the expiry of the counter.  The coroutine may be *)
(* delayed between these steps, and Redis commands may fail, which         *)
(* RedisComponent turns into 0 and False.                                  *)
(*                                                                         *)
(* One identifier: the counters of different clients are independent.      *)
(* Clocks of different processes are taken to agree.                       *)
(***************************************************************************)
EXTENDS Integers, FiniteSets

CONSTANTS
    Requests,    \* the requests of the client
    Limit,       \* rate_limit_requests
    WindowSecs,  \* rate_limit_window_secs
    MaxTime,     \* bound on the clock
    None         \* no window, no expiry

ASSUME LimiterAssumption ==
    /\ Limit \in Nat \ {0}
    /\ WindowSecs \in Nat \ {0}
    /\ MaxTime \in Nat
    /\ None \notin Int

VARIABLES
    now,      \* seconds
    pc,       \* pc[q]: how far check is for request q
    window,   \* window[q]: the start of the window q counts in
    count,    \* count[s]: the counter of the window that starts at s, 0 if absent
    expiry,   \* expiry[s]: when Redis drops it
    allowed,  \* the requests let through
    prompt,   \* history: those counted before their window was over
    orphans   \* history: the counters whose expiry a failure kept from being set

vars == <<now, pc, window, count, expiry, allowed, prompt, orphans>>

Starts == {s \in 0 .. MaxTime : s % WindowSecs = 0}

TypeOK ==
    /\ now \in 0 .. MaxTime
    /\ pc \in [Requests -> {"new", "incr", "expire", "done"}]
    /\ window \in [Requests -> Starts \cup {None}]
    /\ count \in [Starts -> Nat]
    /\ expiry \in [Starts -> Nat \cup {None}]
    /\ {allowed, prompt} \subseteq SUBSET Requests
    /\ orphans \subseteq Starts

Init ==
    /\ now = 0
    /\ pc = [q \in Requests |-> "new"]
    /\ window = [q \in Requests |-> None]
    /\ count = [s \in Starts |-> 0]
    /\ expiry = [s \in Starts |-> None]
    /\ allowed = {} /\ prompt = {}
    /\ orphans = {}

Goto(q, from, to) ==
    /\ pc[q] = from
    /\ pc' = [pc EXCEPT ![q] = to]

ReadClock(q) ==
    /\ Goto(q, "new", "incr")
    /\ window' = [window EXCEPT ![q] = now - (now % WindowSecs)]
    /\ UNCHANGED <<now, count, expiry, allowed, prompt, orphans>>

InWindow(q) == now < window[q] + WindowSecs

\* Mutant: the expiry is set when the counter is found empty, before counting.
IncrExpireBefore(q) ==
    LET s == window[q]
        current == count[s] + 1
    IN  /\ Goto(q, "incr", IF current = 0 THEN "expire" ELSE "done")
        /\ count' = [count EXCEPT ![s] = current]
        /\ allowed' = IF current <= Limit THEN allowed \cup {q} ELSE allowed
        /\ prompt' = IF InWindow(q) THEN prompt \cup {q} ELSE prompt
        /\ UNCHANGED <<now, window, expiry, orphans>>

\* INCR creates the counter without an expiry.
Incr(q) ==
    LET s == window[q]
        current == count[s] + 1
    IN  /\ Goto(q, "incr", IF current = 1 THEN "expire" ELSE "done")
        /\ count' = [count EXCEPT ![s] = current]
        /\ allowed' = IF current <= Limit THEN allowed \cup {q} ELSE allowed
        /\ prompt' = IF InWindow(q) THEN prompt \cup {q} ELSE prompt
        /\ UNCHANGED <<now, window, expiry, orphans>>

\* incr returns 0, which lets the request through; INCR may have been done.
IncrFails(q) ==
    LET s == window[q]
    IN  /\ Goto(q, "incr", "done")
        /\ allowed' = allowed \cup {q}
        /\ \/ UNCHANGED <<count, orphans>>
           \/ /\ count' = [count EXCEPT ![s] = @ + 1]
              /\ orphans' = IF count[s] = 0 THEN orphans \cup {s} ELSE orphans
        /\ UNCHANGED <<now, window, expiry, prompt>>

\* Mutant: the expiry is the rest of the window, rounded down.
ExpireEarly(q) ==
    /\ Goto(q, "expire", "done")
    /\ expiry' = [expiry EXCEPT ![window[q]] = window[q] + WindowSecs - 1]
    /\ UNCHANGED <<now, window, count, allowed, prompt, orphans>>

Expire(q) ==
    /\ Goto(q, "expire", "done")
    /\ expiry' = [expiry EXCEPT ![window[q]] = now + WindowSecs]
    /\ UNCHANGED <<now, window, count, allowed, prompt, orphans>>

\* EXPIRE fails, or the request is cut off before it: the counter stays.
ExpireFails(q) ==
    /\ Goto(q, "expire", "done")
    /\ orphans' = orphans \cup {window[q]}
    /\ UNCHANGED <<now, window, count, expiry, allowed, prompt>>

\* A second passes; Redis drops the counters that have expired.
Tick ==
    /\ now < MaxTime
    /\ now' = now + 1
    /\ LET over == {s \in Starts : expiry[s] # None /\ expiry[s] <= now'}
       IN  /\ count' = [s \in Starts |-> IF s \in over THEN 0 ELSE count[s]]
           /\ expiry' = [s \in Starts |-> IF s \in over THEN None ELSE expiry[s]]
    /\ UNCHANGED <<pc, window, allowed, prompt, orphans>>

Check(q) ==
    \/ ReadClock(q)
    \/ Incr(q)
    \/ IncrFails(q)
    \/ Expire(q)
    \/ ExpireFails(q)

\* The bound on the clock is reached and all requests are done.
Quiescent ==
    /\ now = MaxTime
    /\ \A q \in Requests : pc[q] = "done"
    /\ UNCHANGED vars

Next ==
    \/ \E q \in Requests : Check(q)
    \/ Tick
    \/ Quiescent

Spec == Init /\ [][Next]_vars

-----------------------------------------------------------------------------

\* Of the requests that are counted within their window, at most Limit are let
\* through: the counter lives until the window is over.  Requests whose INCR
\* fails, or comes after the window and its counter are gone, are not bounded.
LimitHolds ==
    \A s \in Starts :
        Cardinality({q \in allowed \cap prompt : window[q] = s}) <= Limit

\* A counter without an expiry, which Redis would keep for ever, has a request
\* about to set the expiry, unless a failure kept it from being set.
CountersExpire ==
    \A s \in Starts : count[s] > 0 /\ expiry[s] = None =>
        \/ \E q \in Requests : pc[q] = "expire" /\ window[q] = s
        \/ s \in orphans
=============================================================================
